------------------------------- MODULE Session -------------------------------
(****************************************************************************)
(* A session (scrcpy.c): the caller starts the components one after the     *)
(* other, runs the event loop or lends the session to a client that adds    *)
(* frame sinks, and stops everything, also when the start fails halfway.    *)
(* The stream thread of Stream.tla runs meanwhile; the threads of the other *)
(* components have modules of their own.                                    *)
(*                                                                          *)
(* struct scrcpy comes from malloc(): a flag that the start has not set has *)
(* whatever value the memory had.                                           *)
(****************************************************************************)
EXTENDS Stream

CONSTANT DECODER_MAX_SINKS

\* The slots of the decoder: there is one for the screen and one for the v4l2 sink.
ASSUME SessionAssumption == DECODER_MAX_SINKS \in Nat /\ DECODER_MAX_SINKS >= 2

VARIABLES
  at,            \* the next operation of the caller
  options,       \* the options that decide which components there are
  zeroed,        \* whether the memory that malloc() returned was zero
  made,          \* the components that exist, named by their flags
  flags,         \* the flags of struct scrcpy: what scrcpy_stop is to stop
  fileThread,    \* whether the file handler started its thread
  external_sink_count,
  shut,          \* whether the sockets are shut down
  destroyed,     \* the components that were destroyed
  events         \* how many EVENT_STREAM_STOPPED are in the queue of SDL

session == <<options, zeroed, made, flags, fileThread, external_sink_count, shut,
             destroyed, events>>
vars == <<stream, at, session>>

Option == {"display", "control", "record", "v4l2", "forceDecoder"}
Flag == {"server_started", "file_handler_initialized", "recorder_initialized",
         "v4l2_sink_initialized", "stream_started", "controller_initialized",
         "controller_started", "screen_initialized"}

NeedsDecoder == options \cap {"display", "v4l2", "forceDecoder"} # {}

\* scrcpy_start before server_init; external_sink_count may be any number, what
\* matters is whether it is zero, less than the limit or not.
Init ==
  /\ StreamInit
  /\ at = "serverInit"
  /\ options \in SUBSET Option
  /\ zeroed \in BOOLEAN
  /\ made = {} /\ flags = [f \in Flag |-> "unset"]
  /\ fileThread = FALSE
  /\ external_sink_count \in (IF zeroed THEN {0} ELSE {0, 1, DECODER_MAX_SINKS})
  /\ shut = FALSE /\ destroyed = {} /\ events = 0

-------------------------------------------------------------------------------
(* scrcpy_start: each operation is the next one, or fails and all is stopped. *)

\* server_init fails: NULL is returned and nothing is freed.
ServerInit ==
  /\ at = "serverInit"
  /\ at' \in {"serverStart", "leaked"}
  /\ UNCHANGED <<stream, session>>

Made(flag) == made' = made \cup {flag} /\ flags' = [flags EXCEPT ![flag] = "set"]

\* Faulty: the flag is set before the operation.
StartFlaggedFirst(step, wanted, flag, next) ==
  /\ at = step
  /\ \/ wanted /\ at' = next /\ Made(flag)
     \/ /\ wanted /\ at' = "hideWindow"
        /\ flags' = [flags EXCEPT ![flag] = "set"] /\ UNCHANGED made
     \/ ~wanted /\ at' = next /\ UNCHANGED <<made, flags>>
  /\ UNCHANGED <<stream, options, zeroed, fileThread, external_sink_count, shut,
                 destroyed, events>>

\* An operation that creates a component, unless the options do not want it.
Start(step, wanted, flag, next) ==
  /\ at = step
  /\ \/ wanted /\ at' = next /\ Made(flag)
     \/ wanted /\ at' = "hideWindow" /\ UNCHANGED <<made, flags>>
     \/ ~wanted /\ at' = next /\ UNCHANGED <<made, flags>>
  /\ UNCHANGED <<stream, options, zeroed, fileThread, external_sink_count, shut,
                 destroyed, events>>

ServerStart == Start("serverStart", TRUE, "server_started", "connect")

\* sdl_init_and_configure and server_connect_to.
Connect ==
  /\ at = "connect"
  /\ at' \in {"fileHandlerInit", "hideWindow"}
  /\ UNCHANGED <<stream, session>>

FileHandlerInit == Start("fileHandlerInit", {"display", "control"} \subseteq options,
                         "file_handler_initialized", "recorderInit")
RecorderInit == Start("recorderInit", "record" \in options,
                      "recorder_initialized", "streamInit")

\* stream_init, and its sinks: the decoder, then the recorder.
AddPacketSinks ==
  /\ at = "streamInit"
  /\ at' = "controllerInit"
  /\ packetSinks' = (IF NeedsDecoder THEN <<"decoder">> ELSE <<>>) \o
                    (IF "record" \in options THEN <<"recorder">> ELSE <<>>)
  /\ UNCHANGED <<thread, frameSinks, loop, data, status, strays, session>>

ControllerInit == Start("controllerInit", "control" \in options,
                        "controller_initialized", "controllerStart")
ControllerStart == Start("controllerStart", "control" \in options,
                         "controller_started", "screenInit")

\* screen_init and sc_v4l2_sink_init, and the sink that the decoder gets.
StartSink(step, option, sink, flag, next) ==
  /\ at = step
  /\ \/ /\ option \in options
        /\ at' = next /\ Made(flag) /\ frameSinks' = Append(frameSinks, sink)
     \/ option \in options /\ at' = "hideWindow" /\ UNCHANGED <<made, flags, frameSinks>>
     \/ option \notin options /\ at' = next /\ UNCHANGED <<made, flags, frameSinks>>
  /\ UNCHANGED <<thread, packetSinks, loop, data, status, strays, options, zeroed,
                 fileThread, external_sink_count, shut, destroyed, events>>

ScreenInit == StartSink("screenInit", "display", "screen", "screen_initialized", "v4l2Init")
V4l2Init == StartSink("v4l2Init", "v4l2", "v4l2", "v4l2_sink_initialized", "streamStart")

StreamStart ==
  /\ at = "streamStart"
  /\ \/ thread' = "start" /\ at' = "loop" /\ Made("stream_started")
     \/ at' = "hideWindow" /\ UNCHANGED <<thread, made, flags>>
  /\ UNCHANGED <<sinks, loop, data, status, strays, options, zeroed, fileThread,
                 external_sink_count, shut, destroyed, events>>

-------------------------------------------------------------------------------
(* The event loop, or the client of the library. *)

HandleStreamStopped ==
  /\ at = "loop" /\ events > 0
  /\ events' = events - 1
  /\ at' = "hideWindow"
  /\ UNCHANGED <<stream, options, zeroed, made, flags, fileThread, external_sink_count,
                 shut, destroyed>>

\* The user quits, or the client calls scrcpy_stop.
Quit ==
  /\ at = "loop"
  /\ at' = "hideWindow"
  /\ UNCHANGED <<stream, session>>

\* The first file that is dropped starts the thread of the file handler.
DropFile ==
  /\ at = "loop" /\ {"display", "control"} \subseteq options
  /\ fileThread' = TRUE
  /\ UNCHANGED <<stream, at, options, zeroed, made, flags, external_sink_count, shut,
                 destroyed, events>>

Added == {s \in External : Contains(frameSinks, s)}

\* scrcpy_add_sink.  The client has asked for a decoder.  decoder_add_sink counts
\* the sink and writes its slot, in the order the compiler likes, and asserts that
\* there is room.
AddSink ==
  /\ at = "loop" /\ NeedsDecoder /\ external_sink_count < DECODER_MAX_SINKS
  /\ external_sink_count' = external_sink_count + 1
  /\ \E s \in External \ Added :
       \/ /\ Len(frameSinks) < DECODER_MAX_SINKS
          /\ \/ frameSinks' = Append(frameSinks, s) /\ UNCHANGED at
             \/ frameSinks' = Append(frameSinks, Unset) /\ at' = "addSink"
       \/ /\ Len(frameSinks) >= DECODER_MAX_SINKS
          /\ at' = "crashed" /\ UNCHANGED frameSinks
  /\ UNCHANGED <<thread, packetSinks, loop, data, status, strays, options, zeroed,
                 made, flags, fileThread, shut, destroyed, events>>

WriteSlot ==
  /\ at = "addSink"
  /\ \E s \in External \ Added : frameSinks' = [frameSinks EXCEPT ![Len(frameSinks)] = s]
  /\ at' = "loop"
  /\ UNCHANGED <<thread, packetSinks, loop, data, status, strays, session>>

-------------------------------------------------------------------------------
(* scrcpy_stop *)

\* What a flag reads: one that was not set is whatever the memory was.
Reads(flag) ==
  IF flags[flag] # "unset" THEN {flags[flag]}
  ELSE IF zeroed THEN {"clear"} ELSE {"clear", "set"}

\* The caller calls an operation if the flag is set, whether the component that it
\* needs exists or not.
Stop(step, flag, component, ready, next) ==
  /\ at = step
  /\ \E value \in Reads(flag) :
       /\ flags' = [flags EXCEPT ![flag] = value]
       /\ \/ value = "clear" /\ at' = next
          \/ value = "set" /\ component \in made /\ ready /\ at' = next
          \/ value = "set" /\ component \notin made /\ at' = "crashed"
  /\ UNCHANGED <<stream, options, zeroed, made, fileThread, external_sink_count, events>>

HideWindow ==
  /\ Stop("hideWindow", "screen_initialized", "screen_initialized", TRUE, "stopController")
  /\ UNCHANGED <<shut, destroyed>>

\* Stopping a controller that was not started is harmless if it was initialised.
StopController ==
  /\ Stop("stopController", "controller_started", "controller_initialized", TRUE,
          "stopFileHandler")
  /\ UNCHANGED <<shut, destroyed>>

StopFileHandler ==
  /\ Stop("stopFileHandler", "file_handler_initialized", "file_handler_initialized", TRUE,
          "interruptScreen")
  /\ UNCHANGED <<shut, destroyed>>

InterruptScreen ==
  /\ Stop("interruptScreen", "screen_initialized", "screen_initialized", TRUE, "stopServer")
  /\ UNCHANGED <<shut, destroyed>>

\* server_stop shuts the sockets down.
StopServer ==
  /\ Stop("stopServer", "server_started", "server_started", TRUE, "joinStream")
  /\ shut' = ("server_started" \in made)
  /\ UNCHANGED destroyed

\* Faulty: the stream thread is not joined.
JoinStreamForgotten ==
  /\ Stop("joinStream", "stream_started", "stream_started", TRUE, "destroyV4l2")
  /\ UNCHANGED <<shut, destroyed>>

JoinStream ==
  /\ Stop("joinStream", "stream_started", "stream_started", thread = "done",
          "destroyV4l2")
  /\ UNCHANGED <<shut, destroyed>>

Destroy(step, flag, next) ==
  /\ Stop(step, flag, flag, TRUE, next)
  /\ destroyed' = destroyed \cup ({flag} \cap made)
  /\ UNCHANGED shut

DestroyV4l2 == Destroy("destroyV4l2", "v4l2_sink_initialized", "destroyScreen")
DestroyScreen == Destroy("destroyScreen", "screen_initialized", "joinController")
JoinController == Destroy("joinController", "controller_started", "destroyController")
DestroyController == Destroy("destroyController", "controller_initialized", "destroyRecorder")
DestroyRecorder == Destroy("destroyRecorder", "recorder_initialized", "joinFileHandler")

\* file_handler_join and file_handler_destroy: the thread that is joined may never
\* have been started, joining a null one does nothing.
JoinFileHandler ==
  \/ Destroy("joinFileHandler", "file_handler_initialized", "freeSinks")
  \/ /\ at = "joinFileHandler" /\ "file_handler_initialized" \in made
     /\ ~fileThread /\ ~zeroed
     /\ at' = "crashed"
     /\ UNCHANGED <<stream, session>>

\* server_destroy, and the sinks of the client and the session are freed.
FreeSinks ==
  /\ at = "freeSinks"
  /\ at' = (IF external_sink_count = Cardinality(Added) THEN "ended" ELSE "crashed")
  /\ UNCHANGED <<stream, session>>

-------------------------------------------------------------------------------
Starting == ServerInit \/ ServerStart \/ Connect \/ FileHandlerInit \/ RecorderInit
              \/ AddPacketSinks \/ ControllerInit \/ ControllerStart \/ ScreenInit
              \/ V4l2Init \/ StreamStart

Stopping == HideWindow \/ StopController \/ StopFileHandler \/ InterruptScreen
              \/ StopServer \/ JoinStream \/ DestroyV4l2 \/ DestroyScreen
              \/ JoinController \/ DestroyController \/ DestroyRecorder
              \/ JoinFileHandler \/ FreeSinks

\* Faulty: the end of the stream is announced only if its sinks were opened.
PostStreamStoppedIfOpened ==
  /\ EndOfStream
  /\ events' = events + (IF received > 0 THEN 1 ELSE 0)
  /\ UNCHANGED <<at, options, zeroed, made, flags, fileThread, external_sink_count, shut,
                 destroyed>>

\* stream_on_eos, called by the stream thread.
PostStreamStopped ==
  /\ EndOfStream
  /\ events' = events + 1
  /\ UNCHANGED <<at, options, zeroed, made, flags, fileThread, external_sink_count, shut,
                 destroyed>>

Over == at \in {"ended", "leaked", "crashed"} \/ thread = "crashed"

StreamRuns == ~Over /\ (Opening \/ Pushing \/ Closing \/ CallUnset) /\ UNCHANGED <<at, session>>
StreamReceives == ~Over /\ Receiving /\ UNCHANGED <<at, session>>
StreamEnds == ~Over /\ PostStreamStopped
CallerStep == thread # "crashed" /\ (Starting \/ HandleStreamStopped \/ WriteSlot \/ Stopping)
ClientStep == thread # "crashed" /\ (Quit \/ DropFile \/ AddSink)

Next == StreamRuns \/ StreamReceives \/ StreamEnds \/ CallerStep \/ ClientStep
          \/ (Over /\ UNCHANGED vars)

\* Both threads run; a receive returns once the sockets are shut down.  Nothing
\* makes the user quit or the device send packets.
Fairness ==
  /\ WF_vars(StreamRuns) /\ WF_vars(StreamEnds) /\ WF_vars(CallerStep)
  /\ WF_vars(StreamReceives /\ shut)

Spec == Init /\ [][Next]_vars /\ Fairness

-------------------------------------------------------------------------------
(* Properties. *)

TypeOK ==
  /\ StreamTypeOK
  /\ options \subseteq Option /\ zeroed \in BOOLEAN /\ fileThread \in BOOLEAN
  /\ made \subseteq Flag /\ flags \in [Flag -> {"unset", "set", "clear"}]
  /\ external_sink_count \in 0..DECODER_MAX_SINKS
  /\ shut \in BOOLEAN /\ destroyed \subseteq Flag /\ events \in 0..1

\* What the codec is sent is what the device sent: every packet once and in
\* order, each config packet in front of the data it configures, and nothing
\* stays pending when the stream has ended.
DecoderGetsTheStream ==
  /\ decoded = [n \in 1..Len(decoded) |-> n]
  /\ thread \in {"eos", "done"} => pending = NoPacket

\* A sink is pushed to and closed only while it is open, and is closed in the end,
\* whatever fails.  The sinks of the client are excepted: the decoder may already
\* have opened its sinks when they are added.
SinksAreUsedWhileOpen ==
  /\ strays \subseteq External
  /\ thread = "done" => \A s \in Sink : status[s] # "open"

\* What the stream thread calls is not destroyed before the thread has ended, and
\* the session is not freed before everything it has started is destroyed.
NothingOutlivesTheSession ==
  /\ TypeOK
  /\ destroyed \cap {"screen_initialized", "v4l2_sink_initialized",
                     "recorder_initialized"} # {} => thread \in {"none", "done"}
  /\ at = "ended" =>
       /\ thread \in {"none", "done"}
       /\ made \ {"server_started", "stream_started"} = destroyed

\* Only garbage in the memory of the session makes scrcpy_stop touch what was not
\* started, however early the start has failed; else a session can only crash by
\* a sink that is added while the decoder runs, or one too many.
ZeroMemoryIsSafe ==
  zeroed /\ (at = "crashed" \/ thread = "crashed") =>
    \/ Len(frameSinks) = DECODER_MAX_SINKS
    \/ Unset \in {frameSinks[n] : n \in 1..Len(frameSinks)}

\* When the device disconnects, or when the stream cannot even be opened, the
\* session stops by itself, and a session that stops ends.
SessionEnds ==
  /\ thread = "done" ~> Over
  /\ at = "hideWindow" ~> Over
==============================================================================
