# A TLA+ model of scrcpy-java

scrcpy-java wraps the client of scrcpy, which mirrors and controls an Android
device from a computer, in a library that Java programs call. This directory
models the concurrent parts of that client: what its threads share, how they
stop, and what they promise each other. TLC checks each module on a small
instance, and TLAPS proves the safety of each component for every instance.

Paths below are relative to `src/scrcpy-platform/scrcpy/app/src/` unless they
begin with another directory.

## 1. Inventory

### Threads

| thread | created by | runs | ends when |
|---|---|---|---|
| UI (main) | the caller of `scrcpy_start`/`scrcpy_process` | the event loop, the start and the stop of all the rest | the user or the device quits |
| stream (also called decoder thread: the decoder runs in it) | `stream_start` | receives packets, pushes them to the recorder and the decoder, and through the decoder to the sinks | the video socket ends, a sink fails |
| recorder | `recorder_open`, called by the stream thread | writes packets to a file | `stopped`, or writing fails |
| buffering, one per video buffer | `sc_video_buffer_start`, if there is a buffering time | delays frames | `b.stopped` |
| controller | `controller_start` | sends control messages | `stopped`, or sending fails |
| receiver | `controller_start` | receives device messages | the control socket ends |
| file handler | the first `file_handler_request` | runs one adb process per file | `stopped` |
| wait-server | `server_start` | waits for the server process | the process ends |
| fps counter | the first `fps_counter_start` | displays the frame rate every second | `interrupted` |
| v4l2 sink | `sc_v4l2_sink_open`, called by the stream thread | writes frames to a v4l2 device | `stopped`, or encoding fails |
| Java player | `ScrcpyRecorded` | plays a recorded file | the end of the file |

### Components

For each: the state it keeps, its operations, whom it interacts with, what is
hard, what makes it correct.

* **Recorder** (`recorder.c`, `util/queue.h`). State: a queue of packets, the
  flags `stopped` and `failed`, the packet in hand (`previous`), the output.
  Operations: open, push, close by the stream thread; wait, take, write, fail,
  last packet, trailer by its own. Hard: a packet is written one packet late,
  because the next one gives its duration; failures come with a queue half full
  and a packet in hand. Correct: the file is a gapless start of the stream; a
  complete file misses at most the last frame; a failure is final; every packet
  is freed once; closing returns.
* **Frame buffer** (`frame_buffer.c`). State: one pending frame, whether it was
  consumed. Operations: push, consume. Correct: one notification per pending
  frame.
* **Video buffer** (`video_buffer.c`). State: a queue of delayed frames, the
  clock, `b.stopped`. Operations: push (direct or delayed), offer, stop, join; the
  callback `on_new_frame` of its consumer. Hard: two producers of one frame
  buffer, and a flag read in one critical section that is used after it.
  Correct: the order of frames, never two producers at once.
* **Screen, frames** (`screen.c`, event loop of `scrcpy.c`). State: the events
  posted to the UI thread. Correct: the screen never freezes on an old frame; it
  is destroyed after the threads that feed it.
* **Screen, window** (`screen.c`). State: the sizes of the frame and of the
  content, the rotation, `resize_pending` with `windowed_content_size`,
  `fullscreen`, `maximized`, the rectangle where the content is drawn. Operations:
  a new frame, rotate, fullscreen, resize to fit or to pixels, the events of the
  window. Sequential, but a protocol of many calls, with events of SDL that come
  late. Correct: a resize that is pending is applied once, the window keeps the
  ratio of its content, a click on the content is converted to its pixel of the frame.
* **Input manager** (`input_manager.c`, `event_converter.c`). State:
  `vfinger_down`, the options. Operations: one per event of the keyboard, the
  mouse and touch screens. Hard: any message may be refused by the controller.
  Correct: what is pressed on the device is released; nothing is sent without
  control.
* **Stream** (`stream.c`) and **decoder** (`decoder.c`). State: a pending config
  packet, the lists of sinks. Operations: open the sinks, receive, join, push,
  close. Hard: everything may fail with a part of the sinks open;
  `scrcpy_add_sink` changes the list of the decoder while the thread walks through
  it. Correct: the decoder gets each packet once and in order; sinks are pushed
  to only between open and close.
* **Lifecycle** (`scrcpy.c`). State: a flag for each component. Operations: start,
  event loop, add a sink, stop. Hard: `struct scrcpy` comes from `malloc`, so that
  the flags not yet set have any value; the start may fail anywhere and calls the
  stop. Correct: what was started is stopped, joined and destroyed, in an order
  that leaves nothing without what it uses.
* **Controller** (`controller.c`, `util/cbuf.h`). State: a ring of 64 messages,
  `stopped`. Operations: start (two threads), push, stop, join, destroy. Hard: the
  condition is signalled only when the ring was empty; a push may come at any
  time, after the thread is over included. Correct: messages are sent in order
  and once, each is freed once, no wakeup is lost, the stop ends.
* **Receiver** (`receiver.c`, `device_msg.c`). State: a buffer of received bytes.
  Hard: messages come cut and joined. Correct: the clipboard receives what was
  sent; there is always room to receive.
* **File handler** (`file_handler.c`, `sys/unix/process.c`). State: a ring of 16
  requests, the current process, `initialized`, `stopped`. Hard: the UI thread
  kills a process that the other thread waits for and reaps. Correct: only its
  own, unreaped process is killed; files are freed once; the stop ends.
* **Server** (`server.c`). State: the tunnel, three sockets, the process,
  `server_socket_closed`, `process_terminated`. Operations: start, connect, stop,
  and the wait-server thread. Hard: two threads may close the listening socket; a
  start may fail at any step with a tunnel open; a watchdog races with the end of
  the process. Correct: sockets closed once, no tunnel left, the stop ends, the
  server killed unless it is dead.
* **FPS counter** (`fps_counter.c`). State: `started` (atomic), `interrupted`, the
  counts. Operations: start, stop, count, interrupt, join, and its thread. Hard:
  `started` is set and signalled without the mutex. Correct: the thread never
  sleeps once it is interrupted.
* **v4l2 sink** (`v4l2_sink.c`). State: a video buffer, `has_frame`, `stopped`.
  Operations: open, push, close, and its thread. Hard: one flag stands for every
  frame; an opening may fail with the buffering thread running. Correct: a frame
  is taken once; no thread survives the sink.
* **Clock** (`clock.c`). State: a ring of points and two rolling sums. Correct: the
  sums are those of the two halves of the last points.
* **Control messages** (`control_msg.c`): a serialization, without state.
* **Threads** (`util/thread.c`): wrappers of SDL, not a module: every module that
  uses a mutex, a condition or a thread models it.
* **adb, network, command line, icons**: I/O, parsing without state, data. Their
  outcomes are choices of the modules that call them.
* **Java library and demo** (`src/scrcpy`, `src/scrcpy-demo`): a layer over the C
  library, a client of the lifecycle; a player of recorded files; an example.

### How they interact

```
 device --video socket--> stream --push--> recorder --> file
                            |
                            +--> decoder --> video buffer --(event)--> UI: screen
                                                 |  (v4l2 sink: same buffer)
 device <--control socket-- controller <--ring-- UI, clients of the library
 device --control socket--> receiver --> clipboard
 adb process <-- file handler <--ring-- UI
 adb process <-- server: UI and wait-server threads
```

`PROJECT.json` lists under `hazards` what is hard to test in this code, line by
line, with the properties that answer it, or why none does yet.

## 2. Modules

| module | models | notes |
|---|---|---|
| `Recording` | abstract: what a recording promises to its stream | `Recorder` implements it |
| `Recorder` | `recorder.c` with the calls of `stream.c` | |
| `RecorderProofs` | theorems about `Recorder` | TLAPS |
| `FrameBuffer` | `frame_buffer.c` | operators and state of the screen's family |
| `VideoBuffer` | `video_buffer.c` | extends `FrameBuffer`; `on_new_frame` is left to its consumer |
| `FpsCounter` | `fps_counter.c` | operators and state of `Screen` |
| `Screen` | frames in `screen.c`, the event loop, the order of `scrcpy_stop` | extends `VideoBuffer` and `FpsCounter` |
| `Clock` | `clock.c` | operators on a record, no state |
| `V4l2Sink` | `v4l2_sink.c` | extends `VideoBuffer` and `Clock` |
| `Cbuf` | `util/cbuf.h` | operators on a ring |
| `WorkQueue` | abstract: a thread fed through a bounded queue | `Controller` and `FileHandler` implement it |
| `Controller` | `controller.c` and the steps of `scrcpy_stop` on it | |
| `Receiver` | `receiver.c`, `device_msg.c` | |
| `FileHandler` | `file_handler.c`, Unix processes | |
| `Server` | `server.c`: start, connect, stop, wait-server thread | |
| `Stream` | `stream.c` and `decoder.c` | state and actions of `Session` |
| `Session` | `scrcpy.c`: start, event loop or client, stop | extends `Stream` |
| `Window` | `screen.c`: sizes and shape of the window | operators and state, SDL is external |
| `InputManager` | `input_manager.c` | extends `Window`, on which its shortcuts act |
| `Interface` | the event loop, with the user and the window manager | extends `InputManager` |
| `QueueProofs` | lemmas about `Cbuf` and about increasing sequences of numbers | TLAPS |
| `ControllerProofs` | theorems about `Controller`, and about `Receiver` | TLAPS, with `QueueProofs` |
| `FileHandlerProofs` | theorems about `FileHandler` | TLAPS, with `QueueProofs` |
| `VideoBufferProofs` | lemmas about `VideoBuffer`, whoever consumes its frames | TLAPS |
| `ScreenProofs`, `V4l2SinkProofs` | theorems about `Screen`, and about `V4l2Sink` with its `Clock` | TLAPS, with `VideoBufferProofs` |
| `AppProofs` | theorems about `Session` with `Stream`, about `Server`, and about `Interface` with `Window` and `InputManager` | TLAPS |
| `MC*` | instances for TLC, with their `.cfg` | |

Conventions, the same in every module:

* A critical section that never blocks is one action. What happens between two
  critical sections is an action of its own; a blocking call (send, wait for a
  process, join) is an action whose guard is what it waits for.
* `sc_cond_wait` is two steps: `Wait` releases the mutex and sets the program
  counter of the thread to a waiting value; `Signal` sets it back. A wakeup
  without a signal (`SpuriousWakeup`) is always possible, as POSIX and SDL allow.
* A program counter is a string: `ui`, `thread`, `stream`, `pc[...]`. Each value
  is a place of the code, between two actions.
* Failures (memory, I/O, adb, threads that cannot be created) are disjuncts that
  can always be taken, where the code handles them.
* Variables marked `history` do not exist in the code. No guard reads them,
  except for bounds.
* A definition that begins with the comment `Faulty:` is a plausible bug of the
  definition that follows it. No specification uses it: it is put in the place
  of that definition to see that a property detects it (`mutants` in
  `PROJECT.json`).

### How state and actions correspond to the code

**Recorder.** `queue`, `stopped`, `failed`, `previous` are the fields of
`struct recorder`; `writing` is the local `previous` of `run_recorder` between the
unlock and the end of `recorder_write`. `stream` is where the stream thread is:
`Open`/`OpenFails` are `recorder_open`, `Push` is `recorder_push`, `StreamEnds`
every reason why the stream stops pushing, `Close` and `Join` are
`recorder_close`. `Wait`, `Take`, `WriteOk`, `WriteFails`, `SetFailed`, `Drained`,
`WriteLast`, `WriteTrailer` are the steps of `run_recorder`. A packet is its
number, its timestamp and the duration the recorder gives it.

**FrameBuffer, VideoBuffer, Screen.** `pending`, `consumed`, `queue`, `stopped` are
fields. `owner` is the thread that left the mutex of the frame buffer locked.
`skipped[t]` is `previous_frame_skipped`, an out parameter of
`sc_frame_buffer_push`, used after the mutex is released. `events` counts the
`EVENT_NEW_FRAME` in the queue of SDL. `PushDirectly`, `PushLater` and `PushFails`
are `sc_video_buffer_push`; `Offer`, `OfferFails` and `Notify` are
`sc_video_buffer_offer` and the callback; the buffering thread is `WaitQueue`
to `FlushEnds`; `HandleNewFrame` and `UpdateFrame` are the UI thread, and `Quit`
to `Destroy` its teardown.

**Controller.** `ui` is the thread that starts and stops the controller;
`controller_push_msg` may be called by any client while the controller exists.
`shutdown` is set by `server_stop`, that comes before `controller_join`.

**Receiver.** `wire` holds the bytes between the device and the client. A message
has a type byte, one length byte (four in the code) and its text.

**FileHandler.** A process is named for its file. `child` is the state of the last
process, from the point of view of the kernel: `running`, `killed`, `exited` (a
zombie, whose identifier is still its own) and `reaped` (whose identifier may
belong to another process).

**Server.** `tunnels` are those adb keeps; `unremoved` those adb failed to remove
(`disable_tunnel` ignores it). A socket that is closed while it is not open
becomes `error`.

**FpsCounter.** The thread holds the mutex from the test of its loop to its wait:
`toWait` and `toTimedWait` are there between, and an operation that locks the
mutex has `FpsUnlocked` for guard. `FpsStart`, `FpsSetStarted` and `FpsStartSignal`
are the three parts of `fps_counter_start`; only the first locks the mutex, so the
other two may fall between the test of the thread and its wait.

**Stream.** `i` and `j` are the loop variables of `stream.c` and `decoder.c`, when the
sinks are opened, pushed to and closed, one step each. A packet is the sequence
of the numbers of the device packets that its data comes from: `Joined` is
`av_grow_packet` and `memcpy`. A slot of `decoder->sinks` is `Unset` between
`sink_count++` and the write, that the compiler may order either way.

**Session.** `at` is the next operation of the caller. `made` holds the components
that exist and `flags` what `struct scrcpy` says; `Reads` is the value of a flag: any,
if it was not set and the memory was not zero. Operations on other components
are one step that needs the component: on one that does not exist, the session
is `crashed`.

**V4l2Sink, Clock.** `has_frame`, `stopped` (`told`) and `header_written` are fields.
A frame `n` has a date `Date(n)` in the time of the stream, and is pushed `Delay(n)`
after it. In the run the dates are powers of two, so that two sums are equal only if
they are of the same frames.

**Window, InputManager, Interface.** `sdl` is the window as SDL knows it, `own`
whether the program decided of its size; `window_events` are the events MAXIMIZED
and RESTORED that the program has not handled yet. `sent` and `owed` are what the
last event sent and what is pressed on the device. `PushKey` is a message that
presses or releases something, and may be refused. One event of SDL is one
step: the UI thread handles one at a time.

## 3. Runs

| run | instance | states | what it checks |
|---|---|---|---|
| `recorder` | 5 packets, timestamps {0, 1, 3} or config | 43 k | faithful file, ownership, liveness, `Recording` |
| `screen` | 3 frames, with and without buffering | 112 k | events, order, FPS counter, teardown, liveness |
| `screen_mutex` | same | | violation, finding 1 |
| `controller` | ring of 2, 6 messages | 3 k | wakeups, ownership, liveness, `WorkQueue` |
| `receiver` | buffer of 5 bytes, 3 messages | 15 k | room, texts, liveness |
| `file_handler` | ring of 2, 5 files | 1 k | kill and reap, ownership, liveness, `WorkQueue` |
| `file_handler_leak` | same | | violation, finding 2 |
| `server` | ports 1 and 2 | 1 k | sockets, tunnels, kill, liveness |
| `server_wakeup` | same | | violation, finding 3 |
| `session` | every set of options, 3 packets, 2 slots for sinks, 1 client sink | 583 k | stream, sinks, order of the stop, flags, liveness |
| `v4l2_sink` | 6 frames, a clock of 4 points | 66 k | takers of frames, clock, teardown, liveness |
| `interface` | 8 users, frames of 2x4 and 4x2, a display of 6x6 | 871 k | sizes, clicks, what stays pressed |

Every property is stated above its definition, with the code it is about.

### Bounds, and why they are enough

* `MaxPackets = 5` for the recorder: a header, a frame, a config packet in the
  middle, and two more frames make all pairs (frame or config, followed by frame
  or config or nothing) occur with the thread behind, level, failing and
  stopping. Three timestamps in any order make durations of either sign, and zero.
* `MaxFrames = 3` for the screen: one frame taken the direct way, one in the queue
  or held by the buffering thread, one in the frame buffer.
* `MaxFrames = 6` for the v4l2 sink: the clock of 4 points fills, wraps and loses its
  first point, the only one with another delay; all lengths of the queue occur.
  The 32 points of the code have no other role, only their half has.
* `Capacity = 2` for the rings: three cells, so the ring is empty, half full and
  full, and the indices wrap with 5 or 6 items. The capacities of the code, 64
  and 16, have no other role.
* `MaxSize = 5` for the receiver: texts of 0 to 3 bytes. A buffer may hold two
  empty messages and half of a third, or exactly one full message.
* Two ports for the server: a first one, a next one and a last one.

* `session`: three packets make a config packet, a data packet and a last one in
  every order, with failures between any two. `DECODER_MAX_SINKS = 2`: with the
  screen and the v4l2 sink the decoder is full, with one of them the client's
  sink fits.
* `interface`: a ratio and its inverse, a display that is square and a full size that
  is neither make every branch of the size computations occur. Besides the
  modifiers one key or one button is held at a time. At most one MAXIMIZED or
  RESTORED event waits (`MaxEvents`) when another operation adds some. Each user
  has a few keys, so that the runs of one are not multiplied by those of another.

Deadlock is checked, except in the runs of `Screen` and `V4l2Sink`: the mutex leaked
by a failed push really blocks the threads for ever (finding 1). In the other
modules a thread that has nothing more to do ends in `Terminated`, or the caller
is `Over`.

### Fairness

Weak fairness, on the steps of the threads only: the scheduler of the system runs
a thread that can run. Nothing makes the device send, the user quit or push a
message, a process end by itself, a wakeup come without a signal. Three
assumptions are about the environment, each conditional: a killed process ends;
a receive on a socket that is shut down returns; an `accept` on a closed socket
fails. In `Screen`, a deadline comes and the decoder closes its sinks once the
sockets are shut down. The mutex of the FPS counter is taken and released again
and again by its thread, so in `Screen` the steps that need it have strong
fairness: a thread that waits for a mutex gets it at last. `Interface` has
safety properties only, and no fairness.

Two environments are assumed. The client of the library adds sinks only if a
decoder was asked for, and pushes events only with control
(`scrcpy_push_event` uses the controller). SDL and the window manager know the
size of a window at once and tell of it by events, in their order; a window
manager may ignore the size asked for a maximized window.

Spurious wakeups are modelled where they matter (server, controller, recorder, file
handler). Where a wait is in a `while` that tests its condition again, and nothing
but the test follows (FPS counter, v4l2 sink, buffering thread), they change
nothing and are left out.

## 4. What the runs show

* The recorder: a recording is a faithful, gapless start of its stream whatever
  fails; no packet is leaked or freed twice, except the one in `previous` when
  writing fails; closing always returns.
* The screen: exactly one event is posted, about to be posted or being handled
  for a pending frame, so that the assertion of `sc_frame_buffer_consume` holds
  and no frame is missed, although the flag is used outside the mutex. The two
  producers never overlap because the first frame is offered before any other
  can be queued. The teardown ends, unless the mutex was leaked.
* The controller and the file handler implement the same abstract queue. The
  signal sent only when the ring was empty loses no wakeup.
* The receiver reassembles the messages and never runs out of room for a message
  that fits.
* The server never closes a socket twice, leaves no tunnel but those adb failed
  to remove, and its stop ends, but for finding 3.
* A session sends the decoder each packet once, in order and with its
  configuration, whatever fails. Sinks are opened, pushed to and closed in that
  order, those of the client excepted. With memory that happens to be zero, a
  start that fails anywhere is stopped without harm; with other memory it may
  crash. It always ends by itself when the device disconnects.
* The v4l2 sink takes every frame once although it has one flag for all, and
  leaves no thread behind, two early returns of its opening excepted. The sums of
  the clock are exact for ever.
* The FPS counter is always awake when it is interrupted; a start may be missed.
* A resize that is pending is applied from the right size, unless pixel-perfect
  was asked for meanwhile; the window never has black borders that the user or
  the window manager did not want, once no resize is pending; every click hits a
  pixel of the frame, but one pixel too far along the sides that the rotation
  reverses, so that it may be past the last one (see below). Nothing stays
  pressed on the device, unless a message was refused or a modifier changed, or
  the release of a modifier was taken for a shortcut.

### Findings

1. `frame_buffer.c:59`: a push that fails returns with the mutex locked
   (`screen_mutex`).
2. `file_handler.c:103`: a refused request does not free its file, although the
   header says the file handler takes ownership (`file_handler_leak`).
3. `server.c:558`: a spurious wakeup during the delay is taken for the end of the
   server, which is then not killed (`server_wakeup`).

Observed while modelling, and excepted from the properties or left to their
exact wording:

* `scrcpy_start` gets its structure from `malloc` and sets the flags of what it has
  started only. A start that fails stops what the memory says (`Reads`, in
  `Session`); `external_sink_count` is not initialised either.
* `scrcpy_stop` joins the thread of the file handler even if it was never
  started (`Join` of `FileHandler` leads to `"undefined"`, `JoinFileHandler` of `Session`
  to `"crashed"`).
* A sink that `scrcpy_add_sink` adds while the decoder is open is pushed to and
  closed without having been opened (`strays`). With `DECODER_MAX_SINKS` sinks in
  the decoder, the test of `scrcpy_add_sink`, that counts those of the client only,
  passes and the assertion of `decoder_add_sink` fails.
* When the user quits first, the `EVENT_STREAM_STOPPED` of the stream stays in the
  queue of SDL (`events`): the event loop of the next session would read it. When
  `server_init` fails, nothing is freed (`leaked`).
* `previous` leaks when the recorder fails. The buffering thread flushes its queue
  without the mutex, so that frames pushed meanwhile may be lost or leaked
  (`PushLater` of `VideoBuffer`); `b.stopped` is not initialised (`VideoBufferInit`).
* `interrupted` of the FPS counter is not initialised, the comment at
  `fps_counter.c:24` says that it is unused until started: if it is true, the thread
  ends at once (`FpsInit`). `fps_counter.c:58` compares 32 bits of a time in
  microseconds.
* Two returns of `sc_v4l2_sink_open` leave the buffering thread running
  (`OpenFailsAtOnce`).
* RESTORED is ignored in fullscreen: `maximized` then stays true for a window that
  is not (`HandleRestored`), and what is pending stays so: `WindowFits` says nothing
  of the window until it is applied. Pixel-perfect while a resize is pending leaves
  it pending (`overridden`).
* `screen_convert_drawable_to_frame_coords` reverses a side of the frame with `w - x`
  or `h - y` (`screen.c:791-801`), where `screen.h:128` says that points are expressed in
  pixels: the last pixel is at `w - 1` or `h - 1`. With the rotations 1 and 2 for the
  width, 2 and 3 for the height, a click reaches 1 to the size of the side, not 0 to
  one less: the first row or column of the content becomes a point past the last
  pixel. `ClicksHitTheFrame` and its theorem state exactly that (`Reached`), and the
  pixels themselves along the sides that are not reversed. `inverse_point`
  (`input_manager.c:372`), that places the virtual finger, does the same; its
  positions are not modelled.
* With `--no-control`, touches are pushed to a controller that was never
  initialised (`ProcessTouch`); other events test `control`.
* The release of a modifier is sent only if the modifiers that are left are not
  those of a shortcut (`input_manager.c:545`). With the default options, where alt
  alone is one: alt is pressed, ctrl is pressed and released, and ctrl stays
  pressed on the device, until it is pressed and released once more. `NothingSticks`
  allows for it; the eighth user of the run holds two modifiers with such an option.
* The release of a double click on the black borders is not sent, wherever its
  press was; the release of the second extra button is forwarded as a mouse up,
  its press expands a panel; a key whose modifiers change while it is held may
  be released as another one (`ChangeModifier`).

## 5. Proofs

Each proof has the same shape. `IInv` (in `AppProofs`, which proves about three
systems: `SessionInv`, `ServerInv`, `InterfaceInv`) is an inductive invariant, a conjunction of
named parts; `Init => IInv` and `IInv /\ [Next]_vars => IInv'` are proved with a
lemma for each part, that has a step for each action; the properties follow from
`Invariance`, `Spec => []IInv`. TLC evaluated the invariants first. The only
assumptions are those that the modules state about their constants: numbers are
naturals, a ring has at least one place, the ports are a range that is not empty,
values that stand for none or for a built-in name are not among the others. Two
say something of the code: `SessionAssumption`, that a decoder has at least the two
slots of `decoder.h` (`DECODER_MAX_SINKS`), which the screen and the v4l2 sink may
take; and `InterfaceAssumption`, that frames are not empty, their rotation is one of
four, and users hold modifiers and buttons that there are.

### Recorder

`RecorderProofs` proves, for any set of timestamps and any number of packets,
under `RecorderAssumption` only (timestamps are integers, the config timestamp is
not one, the null packet is not a packet):

* `TypeCorrect`: `Spec => []TypeOK`;
* `WakeupsAreNotLost`: `Spec => []NoLostWakeup`;
* `CompleteFile`: `Spec => []CompleteFileHasEveryFrame`;
* `FaithfulFile`: `Spec => []FileIsFaithful`, the conjunction of `TypeOK`,
  `FileHasNoGap`, `FramesHaveTheirDuration` and `CompleteFileHasEveryFrame`;
* `FailureStops`: `Spec => FailureIsFinal`, an action property;
* `OwnedPackets`: `Spec => []PacketsAreOwned`;
* `Implementation`: `Spec => ImplementsRecording`, the refinement.

They all follow from `Invariance`, `Spec => []IInv`. `FileHasNoGap` is not
inductive: that the next frame written leaves no gap depends on which packet
the thread has in hand. `IInv` adds four parts:

* `ThreadsInv`: where the two threads can be together, and what the flags imply;
* `QueueInv`: the queue holds exactly the packets accepted and not taken;
  `Taken` is the number of those taken;
* `HeldInv`: `previous` is the packet `Taken`, `writing` the one before it;
* `FileInv`: all frames before those in hand are in the file (`WrittenUpTo`), or
  the recorder failed.

The proof has a lemma for each part of `IInv` (`TypeNext`, `ThreadsNext`,
`QueueNext`, `HeldNext`, `FileNext`), with a step per action that can disturb that
part. `OwnedPackets` needs one part more, `LiveInv`: the packets not yet deleted are
all those from the oldest one that the thread holds on. The refinement needs none
(`RecordingNext`): a write that succeeds adds the next frame of `Recording`, because
`FileInv` says that no frame is missing before it (`NextFrameWritten`).

### Controller and file handler

For any capacity of the ring and any number of messages or files, under
`ControllerAssumption` or `FileHandlerAssumption` (the ring has a place, and a number
that is not used stands for none):

* `SafeMessages`: `Spec => []MessagesAreSafe`, that is `TypeOK`, `NoLostWakeup`,
  `AcceptedMessagesAreKept` and `MessagesAreOwned`;
* `OwnProcess` and `OwnedFiles`: `Spec => []KillsItsOwnProcess`, and
  `Spec => []FilesAreOwned`;
* `Implementation`, in both: `Spec => ImplementsWorkQueue`. The initial states map
  to those of `WorkQueue`, and each step to a step of it or to none; the fact
  that the invariant gives is that what leaves the ring is what entered it first.

`QueueProofs` shows what the macros of `util/cbuf.h` do to the sequence that a ring
stands for: a push appends, a take removes the first, and the ring is empty or
full exactly when the sequence is, whatever the places of `head` and `tail`. The
messages are numbered by their order; `OrderInv` says that those that wait are
increasing and come after the one in hand. This is what
makes them different, and so owned once. `ThreadsInv` says where the two threads
may be together. `ProcessInv` of the file handler ties the process to the file in
hand: it is reaped exactly when `current_process` is reset, because both happen in
one critical section.

### Receiver

For a buffer of any size that has room for a header, any number of messages and any
sizes that fit (`ReceiverAssumption`), `ReceivedTexts`: `ReceiverSpec =>
[]TextsAreReceived`.

The property says nothing of the bytes on their way, and is not inductive. `RestInv`
says that what is left in the buffer, followed by what is on the wire, is the
messages whose texts have not reached the clipboard. A sequence of bytes is made of
given messages (`Framed`) if there is an increasing `start`, the place where each one
begins and the last one ends, and each has its header and its text there (`FrameAt`).
So no function has to split the bytes, and each step is a lemma about data:
`FramesExtended`, a message that is sent comes after the others; `FirstFrame`, the
first one is the first of the texts that are left, and the rest follows it. Receiving
moves bytes from the wire to the buffer, and their concatenation is the same. The room
in the buffer follows: what is left of an incomplete message is shorter than the
message, and this one fits (`TextInv`).

### Screen and v4l2 sink

For any number of frames (`FrameBufferAssumption`), with or without buffering, and
for the v4l2 sink any even range of the clock and any dates and delays that are not
negative (`ClockAssumption`, `DatesAssumption`):

* `OneEvent`, `ClaimedFrames`: `Spec => []OneEventPerPendingFrame`, and
  `Spec => []FramesAreClaimed`;
* `SafeProducers`: `Spec => []ProducersAreSafe`;
* `OrderedFrames`, in both: `Spec => FramesInOrder`, action properties;
* `AwakeFpsCounter`: `Spec => []FpsCounterIsAwake`;
* `ExactClock`: `Spec => []ClockIsExact`.

`VideoBufferProofs` serves both consumers. Its invariant has two parts:
`PlacesInv` (with a buffering thread the decoder offers only the first frame, while
the queue is empty) and `ChainInv` (the pending frame is older than the one a
producer is about to offer, and that one than all those queued). Every step that
a consumer may share with the video buffer keeps them (`VideoBufferStep`), and
`ConsumeOldest` says that what is consumed is the oldest frame on its way.

On top of it `ClaimInv` lists the four ways in which a frame is pending or not:
none; announced; being consumed; about to be announced by one producer. `ShownInv`
(`TakenInv`) says that the last frame consumed is older than those on their way.
`TeardownInv` (`ClosingInv`) says which threads have ended at each step of the
teardown. `FpsInv` is about the window between the test of the FPS thread and its
wait, and `CountInv` bounds the frames counted and those that still may be by the
frames decoded; it is needed because the notification of a skipped frame, the
event of another and the reset of the counts come in any order.

`ClockIsExact` compares the sums that the clock keeps up to date with sums over the
points given, as differences of `Total`, a recursive function. That this function
exists, and that its values are points, is shown by the least natural that would be
a counterexample (`Least`); so are the facts about sums of points with the same
delay or increasing dates. `ClockInv` (`Kept`) is the invariant: the ring holds the
last points, the j-th of them j places before the head (`Place`), and the sums are
those of its halves. `RingStep` shows that an update keeps it, whether the ring is full,
or holds an odd or an even number of points: the point that passes from one half to
the other is the one at `Mid` (`MiddlePoint`), the one that leaves is the oldest. Then
`Exact`: with equal delays both halves rise as much as they run, so that the slope
is 1 and the offset is the delay, and no division loses anything. Increasing dates
are what makes the run positive; the code divides by it. The slope is a fraction of
integers here and a double in the code: what a double rounds is not covered.

### Session and stream

For any number of packets, any set of sinks of the client and any number of slots
for sinks (at least two), every set of options and every content of the memory
that the session is given:

* `DecodedStream`: `Spec => []DecoderGetsTheStream`;
* `OpenSinksOnly`: `Spec => []SinksAreUsedWhileOpen`;
* `OrderlyEnd`: `Spec => []NothingOutlivesTheSession`;
* `ZeroMemory`: `Spec => []ZeroMemoryIsSafe`.

None of the four is inductive. `SessionInv` has eight parts beside the types.
`ThreadInv` and `FlagInv` tie the place of the caller to that of the thread, and the
flags to what exists; with a memory of zeros they say the same, and this is why the
stop then touches nothing else. `DestroyedInv` says what is destroyed at each step of
`scrcpy_stop`. `IndexInv` is about the loops over the sinks; with it `OpenInv` says
which sinks are open at each step: the decoder from `i = 2` on while they are opened,
the first `j - 1` of its own sinks. A sink of the client that is added while these
loops run would break it, so `FramesOpen` only speaks of the others; `SlotsInv`
(no sink has two slots, a slot is unset only while one is being added) and
`CountInv` (`external_sink_count` is the number of those added) say what the client
may have done. `DataInv` says that what the decoder was given, what is pending or
being pushed, and what was received make one sequence: it holds at the steps where
the packet is joined and not yet decoded too (`Follows`), which the property does not
mention.

### Server

For any range of ports:

* `ReleasedResources`: `ServerSpec => []ResourcesAreReleased`;
* `OwnProcess`: `ServerSpec => []KillsItsOwnProcess`.

`TunnelInv` says which tunnel is in use at each step (`InUse`): the property, that none
is left in the end, needs that each failure on the way removes the one it made, and
that `tunnel_enabled` is true exactly while there is one that the stop must remove.
`SocketInv` gives the state of the listening socket from `server_socket_closed` alone,
wherever both threads are: whoever sets the flag closes it. `ProcessInv` says that
the process is reaped by the main thread only, and that the wait-server thread is past
its wait only once the process has ended.

### Interface

For any users, any sizes of frames, display and window, any rotation:

* `PendingSize`: `InterfaceSpec => []PendingSizeIsKept`;
* `NoBorders`: `InterfaceSpec => []WindowFits`;
* `ClicksAreOnTheFrame`: `InterfaceSpec => []ClicksHitTheFrame`;
* `NothingStaysPressed`: `InterfaceSpec => []NothingSticks`;
* `NothingWithoutControl`: `InterfaceSpec => []NothingIsSentWithoutControl`.

The lemmas about sizes come first: a crop has the ratio of its content up to the
rounding of a division, and is never larger (`CropFits`, `OptimalFits`, `InitialFits`),
and a point that is inside what is drawn is scaled to a pixel of the content, never
past its end (`ScaledPoint`); `ClicksHitTheFrame` then tells the sides that the rotation
reverses, where the code is one pixel too far, from the others.
They need multiplications of variables, which SMT does not decide: the quotient and
its product are named, and related by `Products` and `Quotient`. `PendingInv` and
`FitInv` say what the size of the window will be when it is windowed again, while it is
not; `DrawnInv` that the content is drawn where the window shows it until the window
changes. `OwedInv` names for each thing that is pressed on the device the reason why it
will be released (`Accounted`): the button, key or modifier that is held, under the
conditions under which its release is sent. `Operation` collects what any event does
to the window, so that the parts about sizes are proved once for all the shortcuts
and events that lead to it.

## 6. What is only model-checked

* All liveness properties (`~>` under fairness): liveness and `ENABLED` are out of the
  prover's reach.
* The three runs that expect a violation: each is a counterexample.

## 7. What is not modelled, and why

* Time: a delay or a timeout is a step that may come at any moment. In the runs of
  the screen the clock is only the number of its points.
* The content of packets, frames, messages and files; muxing, scaling, drawing,
  serialization (`control_msg.c`).
* The Windows variant of processes: the Unix one is modelled.
* Memory errors as such: a thread joined that was never created, or an operation
  on a component that does not exist, is a state of its own, with no step after
  it.
* A failure of `SDL_PushEvent`, a second session after the first, descriptors of
  sockets reused by the process.
* The 100 attempts of the connection in forward mode are one step that may give
  up; the arguments of the server are left out.
* Of the window: its position, the high DPI scale, textures and renderer, a display
  whose bounds are not known. Of the input: positions, metastates, the numbers of
  repetitions, which panel is expanded.
* The command line, adb and sockets as such, and the Java layer: parsing, I/O, and
  calls passed on. In Java, `stop()` called twice calls `scrcpy_stop` twice, on
  memory that is freed; `ScrcpyRecorded.stop` clears a flag its loop never reads.

## 8. Plan

Done, in this order: the recorder, with its abstract specification and its proofs;
the frame buffer, the video buffer and the screen; the ring and the controller;
the receiver; the file handler; the server; the FPS counter, with the screen; the
stream, the decoder and the session; the clock and the v4l2 sink; the window,
the input manager and the interface.

The proofs: the recorder with the refinement of `Recording`, the controller and the
file handler with the refinement of `WorkQueue` by both, the video buffer with its
two consumers; the session with its stream, the server, the interface; the receiver
and the clock.

Every safety property of the runs that pass is stated by a theorem. What is left to
TLC is liveness.
