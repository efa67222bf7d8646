------------------------------- MODULE AppProofs -------------------------------
(****************************************************************************)
(* Proofs about what is around the components: the session and its stream  *)
(* thread, for any number of packets, any sinks of the client and any       *)
(* number of slots; the server, for any range of ports; the interface, for  *)
(* any users, any sizes and any display.                                    *)
(****************************************************************************)
EXTENDS Session, Server, Interface, FiniteSetTheorems, SequenceTheorems, TLAPS

-------------------------------------------------------------------------------
(* The session: its invariant. *)

\* Where the caller is: starting, at the loop, stopping before and after the stream
\* thread is joined.
StartLabels == {"serverInit", "serverStart", "connect", "fileHandlerInit", "recorderInit",
                "streamInit", "controllerInit", "controllerStart", "screenInit", "v4l2Init",
                "streamStart"}
LoopLabels == {"loop", "addSink"}
StopLabels == {"hideWindow", "stopController", "stopFileHandler", "interruptScreen",
               "stopServer", "joinStream"}
JoinedLabels == {"destroyV4l2", "destroyScreen", "joinController", "destroyController",
                 "destroyRecorder", "joinFileHandler", "freeSinks", "ended"}

\* The thread runs from when it is started until it is joined.
ThreadInv ==
  /\ at \in StartLabels \cup LoopLabels \cup StopLabels \cup JoinedLabels \cup {"leaked", "crashed"}
  /\ at \in StartLabels => thread = "none"
  /\ at \in LoopLabels => thread # "none"
  /\ at \in JoinedLabels => thread \in {"none", "done"}
  /\ thread = "none" <=> "stream_started" \notin made
  /\ thread # "done" => events = 0

\* The flag of what was made is set; in a memory that was zero, no other flag is.
FlagInv ==
  /\ \A f \in made : flags[f] = "set"
  /\ zeroed => \A f \in Flag : flags[f] = "set" => f \in made
  /\ (at = "controllerStart" /\ "control" \in options) \/ "controller_started" \in made
       => "controller_initialized" \in made

\* What is destroyed was made, and is destroyed in order.
Destroyable == Flag \ {"server_started", "stream_started"}
Destroyed(f) == f \in made => f \in destroyed
DestroyedInv ==
  /\ destroyed \subseteq made \cap Destroyable
  /\ destroyed # {} => thread \in {"none", "done"}
  /\ at \notin JoinedLabels \cup {"crashed"} => destroyed = {}
  /\ at \in JoinedLabels \ {"destroyV4l2"} => Destroyed("v4l2_sink_initialized")
  /\ at \in JoinedLabels \ {"destroyV4l2", "destroyScreen"} => Destroyed("screen_initialized")
  /\ at \in {"destroyController", "destroyRecorder", "joinFileHandler", "freeSinks", "ended"}
       => Destroyed("controller_started")
  /\ at \in {"destroyRecorder", "joinFileHandler", "freeSinks", "ended"}
       => Destroyed("controller_initialized")
  /\ at \in {"joinFileHandler", "freeSinks", "ended"} => Destroyed("recorder_initialized")
  /\ at \in {"freeSinks", "ended"} => Destroyed("file_handler_initialized")

\* A slot is unset only while a sink is being added; no sink has two slots.
SlotsInv ==
  /\ at \in StartLabels \ {"v4l2Init", "streamStart"} => frameSinks = <<>>
  /\ at = "v4l2Init" => frameSinks \in {<<>>, <<"screen">>}
  /\ Len(frameSinks) <= DECODER_MAX_SINKS
  /\ \A m, n \in 1..Len(frameSinks) : frameSinks[m] = frameSinks[n] => m = n
  /\ \A n \in 1..Len(frameSinks) : frameSinks[n] = Unset <=> at = "addSink" /\ n = Len(frameSinks)
  /\ at = "addSink" => Len(frameSinks) > 0
  /\ thread = "crashed" => at = "addSink"
  /\ zeroed /\ at = "crashed" => Len(frameSinks) = DECODER_MAX_SINKS

\* The sinks of the client are counted.
CountInv ==
  /\ IsFiniteSet(Added)
  /\ zeroed /\ at # "crashed"
       => external_sink_count = Cardinality(Added) + (IF at = "addSink" THEN 1 ELSE 0)

\* Where the loops are.
Decoding == Len(packetSinks) > 0 /\ packetSinks[1] = "decoder"
Recording == Len(packetSinks) > 0 /\ packetSinks[Len(packetSinks)] = "recorder"
IndexInv ==
  /\ packetSinks \in {<<>>, <<"decoder">>, <<"recorder">>, <<"decoder", "recorder">>}
  /\ thread \in {"none", "start"} => i = 0 /\ j = 0 /\ received = 0 /\ decoded = <<>>
  /\ thread \in {"openSinks", "push"} => i \in 1..Len(packetSinks) + 1
  /\ thread \in {"openFrameSinks", "pushFrame"} => Decoding /\ i = 1 /\ j > 0
  /\ thread = "closeSinks" => i <= Len(packetSinks)
  /\ thread = "closeFrameSinks" => i = 0 /\ j <= Len(frameSinks)

\* The numbers that follow those decoded, up to the last one received.
Follows(s) ==
  /\ Len(decoded) + Len(s) = received
  /\ \A n \in 1..Len(s) : s[n] = Len(decoded) + n
DataInv ==
  /\ \A n \in 1..Len(decoded) : decoded[n] = n
  /\ thread \notin {"recv", "push", "pushFrame", "end", "crashed"} => pending = NoPacket
  /\ thread = "pushFrame" => ~isConfig
  /\ thread \in {"openSinks", "openFrameSinks"} => received = 0 /\ decoded = <<>>
  /\ Decoding =>
       /\ thread = "recv" \/ (thread = "push" /\ isConfig) => Follows(pending)
       /\ thread = "push" /\ ~isConfig /\ i = 1 => Follows(packet)
       /\ thread = "pushFrame" \/ (thread = "push" /\ ~isConfig /\ i > 1) => Len(decoded) = received

\* Which sinks are open: the packet sinks, then the frame sinks, of which the first are.
Pushes == {"recv", "push", "pushFrame", "end"}
OpenFrameSinks ==
  IF thread = "openFrameSinks" THEN j - 1
  ELSE IF thread = "closeFrameSinks" THEN j
  ELSE IF status["decoder"] = "open" THEN Len(frameSinks) ELSE 0
DecoderOpen == 
  status["decoder"] = "open" <=>
    Decoding /\ (thread \in Pushes \/ (thread = "openSinks" /\ i > 1)
                   \/ (thread = "closeSinks" /\ i > 0))
RecorderOpen == 
  status["recorder"] = "open" <=>
    Recording /\ (thread \in Pushes \/ (thread = "openSinks" /\ i > Len(packetSinks))
                    \/ (thread = "closeSinks" /\ i = Len(packetSinks)))
FramesOpen ==
  /\ \A s \in FrameSink : status[s] = "open" => \E n \in 1..OpenFrameSinks : frameSinks[n] = s
  /\ \A n \in 1..OpenFrameSinks :
       frameSinks[n] \in {"screen", "v4l2"} => status[frameSinks[n]] = "open"
OpenInv ==
  /\ strays \subseteq External
  /\ thread # "crashed" => DecoderOpen /\ RecorderOpen /\ FramesOpen

SessionInv ==
        /\ TypeOK /\ ThreadInv /\ FlagInv /\ DestroyedInv /\ SlotsInv /\ CountInv
        /\ IndexInv /\ DataInv /\ OpenInv

-------------------------------------------------------------------------------
(* The session and its stream thread: the types, and what every step does. *)

Packets == Seq(1..MaxPackets)
Status == {"new", "open", "refused", "closed"}

\* The types of the variables of the stream thread.
LEMMA StreamTypes ==
  ASSUME TypeOK
  PROVE  /\ Len(packetSinks) \in Nat /\ Len(frameSinks) \in Nat
         /\ i \in 0..Len(packetSinks) + 1 /\ j \in 0..Len(frameSinks) + 1
         /\ received \in 0..MaxPackets /\ MaxPackets \in Nat /\ isConfig \in BOOLEAN
         /\ packet \in Packets /\ pending \in Packets /\ decoded \in Packets
         /\ status \in [Sink -> Status] /\ strays \subseteq Sink
BY StreamAssumption DEF TypeOK, StreamTypeOK, Packets, Status

\* The sinks that the loops are at, and where the loops may be.
LEMMA LoopSinks ==
  ASSUME TypeOK, IndexInv
  PROVE  /\ i \in 1..Len(packetSinks) => packetSinks[i] \in {"decoder", "recorder"}
         /\ j \in 1..Len(frameSinks) /\ frameSinks[j] # Unset => frameSinks[j] \in FrameSink
         /\ thread \in {"push", "openSinks"} => i > 0
         /\ thread \in {"pushFrame", "openFrameSinks"} => i = 1 /\ j > 0 /\ i <= Len(packetSinks)
         /\ thread = "closeFrameSinks" => i = 0 /\ j <= Len(frameSinks)
         /\ thread = "closeSinks" => i <= Len(packetSinks)
BY StreamTypes DEF TypeOK, StreamTypeOK, IndexInv, FrameSink, Decoding

\* The decoder is the first packet sink, the recorder is the last one.
LEMMA PacketSink ==
  ASSUME IndexInv
  PROVE  /\ Decoding => Len(packetSinks) > 0
         /\ Recording => Len(packetSinks) > 0
         /\ Decoding /\ Recording => Len(packetSinks) = 2
         /\ i \in 1..Len(packetSinks) =>
              /\ packetSinks[i] = "decoder" => Decoding /\ i = 1
              /\ packetSinks[i] = "recorder" => Recording /\ i = Len(packetSinks)
              /\ Decoding /\ i = 1 => packetSinks[i] = "decoder"
              /\ packetSinks[i] \in {"decoder", "recorder"}
              /\ Decoding /\ packetSinks[i] = "recorder" => i = 2
<1> USE DEF Decoding, Recording
<1>1. CASE packetSinks = <<>>
  BY <1>1
<1>2. CASE packetSinks = <<"decoder">>
  BY <1>2
<1>3. CASE packetSinks = <<"recorder">>
  BY <1>3
<1>4. CASE packetSinks = <<"decoder", "recorder">>
  BY <1>4
<1> QED BY <1>1, <1>2, <1>3, <1>4 DEF IndexInv

\* The next packet, and the pending one with it, are packets.
LEMMA JoinedType ==
  ASSUME TypeOK, received < MaxPackets
  PROVE  /\ received + 1 \in 0..MaxPackets
         /\ <<received + 1>> \in Packets /\ Joined(received + 1) \in Packets
<1>1. received + 1 \in 1..MaxPackets
  BY StreamTypes
<1> QED BY <1>1, StreamTypes DEF Packets, Joined

\* A step of the stream thread before its last one leaves the sinks and the caller alone.
LEMMA StreamStep ==
  ASSUME StreamRuns \/ StreamReceives
  PROVE  /\ thread \notin {"none", "done", "crashed"} /\ at # "crashed"
         /\ thread' \in {"openSinks", "openFrameSinks", "recv", "push", "pushFrame", "end",
                         "closeSinks", "closeFrameSinks", "eos", "crashed"}
         /\ UNCHANGED <<packetSinks, frameSinks, at, session>>
BY
DEF Over, StreamRuns, StreamReceives, Opening, CodecMissing, OpenSinks, OpenDecoder,
    OpenFrameSink, DecoderOpened, OpenRecorder, OpenFails, SinksOpened, Receiving,
    RecvConfig, RecvData, RecvFails, Pushing, DecodeConfig, Decode, PushFrame,
    FramePushed, Record, PushFails, Pushed, Closing, EndOfFrames, CloseDecoder,
    CloseFrameSink, FrameSinksClosed, CloseRecorder, SinksClosed, CallUnset, sinks, data,
    loop

\* The last step of the stream thread posts an event.
LEMMA LastStreamStep ==
  ASSUME StreamEnds
  PROVE  /\ thread = "eos" /\ thread' = "done" /\ at # "crashed" /\ events' = events + 1
         /\ UNCHANGED <<packetSinks, frameSinks, i, j, received, packet, isConfig, pending,
                        decoded, status, strays, at, options, zeroed, made, flags,
                        fileThread, external_sink_count, shut, destroyed>>
BY DEF StreamEnds, PostStreamStopped, EndOfStream, Over, data, loop, sinks

\* The caller only starts the thread, and leaves to it what it does.
LEMMA CallerSteps ==
  ASSUME CallerStep \/ ClientStep
  PROVE  /\ UNCHANGED <<i, j, received, packet, isConfig, pending, decoded, status, strays,
                        options, zeroed>>
         /\ thread # "crashed"
         /\ \/ UNCHANGED thread
            \/ /\ thread' = "start" /\ at = "streamStart" /\ at' = "loop"
               /\ Made("stream_started")
               /\ UNCHANGED <<frameSinks, packetSinks, destroyed, events, external_sink_count>>
BY
DEF CallerStep, ClientStep, Starting, ServerInit, ServerStart, Connect, FileHandlerInit,
    RecorderInit, AddPacketSinks, ControllerInit, ControllerStart, ScreenInit, V4l2Init,
    StreamStart, Start, StartSink, Made, HandleStreamStopped, Quit, DropFile, AddSink,
    WriteSlot, Stopping, HideWindow, StopController, StopFileHandler, InterruptScreen,
    StopServer, JoinStream, DestroyV4l2, DestroyScreen, JoinController, DestroyController,
    DestroyRecorder, JoinFileHandler, FreeSinks, Stop, Destroy, stream, session, loop,
    data, sinks

\* What is received, joined, decoded and freed are packets.
LEMMA DataType ==
  ASSUME TypeOK, StreamRuns \/ StreamReceives
  PROVE  /\ {packet, pending, decoded}' \subseteq Packets
         /\ received' \in 0..MaxPackets /\ isConfig' \in BOOLEAN
<1>1. NoPacket \in Packets /\ decoded \o packet \in Packets
  BY StreamTypes DEF NoPacket, Packets
<1>2. CASE Opening \/ Closing \/ CallUnset
  BY <1>1, <1>2, StreamTypes
  DEF data, Opening, CodecMissing, OpenSinks, OpenDecoder, OpenFrameSink, DecoderOpened,
      OpenRecorder, OpenFails, SinksOpened, Closing, EndOfFrames, CloseDecoder,
      CloseFrameSink, FrameSinksClosed, CloseRecorder, SinksClosed, CallUnset
<1>3. CASE RecvConfig
  BY <1>3, StreamTypes, JoinedType DEF RecvConfig
<1>4. CASE RecvData
  BY <1>1, <1>4, StreamTypes, JoinedType DEF RecvData
<1>5. CASE RecvFails
  BY <1>5, StreamTypes DEF RecvFails
<1>6. CASE Pushing
  BY <1>1, <1>6, StreamTypes
  DEF data, Pushing, DecodeConfig, Decode, PushFrame, FramePushed, Record, PushFails,
      Pushed
<1> QED BY <1>2, <1>3, <1>4, <1>5, <1>6 DEF StreamRuns, StreamReceives, Receiving

\* The loops stay within the sinks, or one behind them.
LEMMA LoopType ==
  ASSUME TypeOK, IndexInv, StreamRuns \/ StreamReceives
  PROVE  i' \in 0..Len(packetSinks) + 1 /\ j' \in 0..Len(frameSinks) + 1
<1>1. CASE Opening
  BY <1>1, StreamTypes, LoopSinks
  DEF loop, Opening, CodecMissing, OpenSinks, OpenDecoder, OpenFrameSink, DecoderOpened,
      OpenRecorder, OpenFails, SinksOpened
<1>2. CASE Receiving \/ CallUnset
  BY <1>2, StreamTypes DEF loop, Receiving, RecvConfig, RecvData, RecvFails, CallUnset
<1>3. CASE Pushing
  BY <1>3, StreamTypes, LoopSinks
  DEF loop, Pushing, DecodeConfig, Decode, PushFrame, FramePushed, Record, PushFails,
      Pushed
<1>4. CASE Closing
  BY <1>4, StreamTypes, LoopSinks
  DEF loop, Closing, EndOfFrames, CloseDecoder, CloseFrameSink, FrameSinksClosed,
      CloseRecorder, SinksClosed
<1> QED BY <1>1, <1>2, <1>3, <1>4 DEF StreamRuns, StreamReceives, Receiving

\* What is opened, refused or closed is a sink.
LEMMA StatusType ==
  ASSUME TypeOK, IndexInv, StreamRuns \/ StreamReceives
  PROVE  status' \in [Sink -> Status]
<1>1. CASE Opening
  BY <1>1, StreamTypes, LoopSinks
  DEF Opening, CodecMissing, OpenSinks, OpenDecoder, OpenFrameSink, DecoderOpened,
      OpenRecorder, OpenFails, SinksOpened, Becomes, Sink, Status
<1>2. CASE Receiving \/ Pushing \/ CallUnset
  BY <1>2, StreamTypes
  DEF Receiving, RecvConfig, RecvData, RecvFails, Pushing, DecodeConfig, Decode,
      PushFrame, FramePushed, Record, PushFails, Pushed, CallUnset, data
<1>3. CASE Closing
  BY <1>3, StreamTypes, LoopSinks
  DEF Closing, EndOfFrames, CloseDecoder, CloseFrameSink, FrameSinksClosed, CloseRecorder,
      SinksClosed, Becomes, Sink, Status
<1> QED BY <1>1, <1>2, <1>3 DEF StreamRuns, StreamReceives

-------------------------------------------------------------------------------
(* What the caller starts and stops. *)

\* A flag that is read is settled: set if its component was made, and only then if the
\* memory was zero.
LEMMA FlagRead ==
  ASSUME TypeOK, FlagInv, NEW flag \in Flag
  PROVE  /\ Reads(flag) # {}
         /\ \A value \in Reads(flag) :
              /\ value \in {"set", "clear"}
              /\ flag \in made => value = "set"
              /\ zeroed /\ flag \notin made => value = "clear"
              /\ [flags EXCEPT ![flag] = value] \in [Flag -> {"unset", "set", "clear"}]
              /\ \A f \in made : [flags EXCEPT ![flag] = value][f] = "set"
              /\ zeroed => \A f \in Flag : [flags EXCEPT ![flag] = value][f] = "set" => f \in made
BY DEF TypeOK, FlagInv, Reads

\* The flag of what is made is set.
LEMMA FlagSet ==
  ASSUME TypeOK, FlagInv, NEW flag \in Flag
  PROVE  /\ [flags EXCEPT ![flag] = "set"] \in [Flag -> {"unset", "set", "clear"}]
         /\ \A f \in made \cup {flag} : [flags EXCEPT ![flag] = "set"][f] = "set"
         /\ zeroed => \A f \in Flag :
              [flags EXCEPT ![flag] = "set"][f] = "set" => f \in made \cup {flag}
BY DEF TypeOK, FlagInv

\* A step of scrcpy_start makes a component and sets its flag, or neither.
LEMMA StartSteps ==
  ASSUME FlagInv, Starting
  PROVE  /\ UNCHANGED <<options, zeroed, fileThread, external_sink_count, shut, destroyed,
                        events>>
         /\ at' = "controllerStart" /\ "control" \in options
              => "controller_initialized" \in made'
         /\ \/ UNCHANGED <<made, flags>>
            \/ \E flag \in Flag :
                 /\ made' = made \cup {flag} /\ flags' = [flags EXCEPT ![flag] = "set"]
                 /\ flag = "controller_started" => "controller_initialized" \in made
<1> USE DEF FlagInv, Flag, session, Start, StartSink, Made
<1>1. CASE ServerInit \/ Connect \/ AddPacketSinks
  BY <1>1 DEF ServerInit, Connect, AddPacketSinks
<1>2. CASE ServerStart \/ FileHandlerInit \/ RecorderInit
  BY <1>2 DEF ServerStart, FileHandlerInit, RecorderInit
<1>3. CASE ControllerInit \/ ControllerStart
  BY <1>3 DEF ControllerInit, ControllerStart
<1>4. CASE ScreenInit \/ V4l2Init \/ StreamStart
  BY <1>4 DEF ScreenInit, V4l2Init, StreamStart
<1> QED BY <1>1, <1>2, <1>3, <1>4 DEF Starting

\* A step of scrcpy_stop settles the flag it reads; it makes nothing, and crashes only
\* if the memory was not zero.
LEMMA StopSteps ==
  ASSUME TypeOK, FlagInv, Stopping, at # "freeSinks"
  PROVE  \E flag \in Flag : \E value \in Reads(flag) :
           /\ flags' = flags \/ flags' = [flags EXCEPT ![flag] = value]
           /\ UNCHANGED <<stream, options, zeroed, made, fileThread, external_sink_count,
                          events>>
           /\ zeroed => at' # "crashed"
           /\ at' # "controllerStart"
<1> USE FlagRead DEF FlagInv, Flag, session, Stop, Destroy
<1>1. CASE HideWindow \/ StopController
  BY <1>1 DEF HideWindow, StopController
<1>2. CASE StopFileHandler \/ InterruptScreen
  BY <1>2 DEF StopFileHandler, InterruptScreen
<1>3. CASE StopServer \/ JoinStream
  BY <1>3 DEF StopServer, JoinStream
<1>4. CASE DestroyV4l2 \/ DestroyScreen \/ JoinController
  BY <1>4 DEF DestroyV4l2, DestroyScreen, JoinController
<1>5. CASE DestroyController \/ DestroyRecorder
  BY <1>5 DEF DestroyController, DestroyRecorder
<1>6. CASE JoinFileHandler
  BY <1>6 DEF JoinFileHandler
<1> QED BY <1>1, <1>2, <1>3, <1>4, <1>5, <1>6 DEF Stopping, FreeSinks

\* scrcpy_stop goes on after the thread is joined, and only then.
LEMMA ThreadStop ==
  ASSUME SessionInv, Stopping
  PROVE  ThreadInv'
<1> USE FlagRead
        DEF SessionInv, ThreadInv, StartLabels, LoopLabels, StopLabels, JoinedLabels,
            Flag, session, stream, Stop, Destroy
<1>1. CASE HideWindow \/ StopController \/ StopFileHandler \/ InterruptScreen
  BY <1>1 DEF HideWindow, StopController, StopFileHandler, InterruptScreen
<1>2. CASE StopServer \/ JoinStream
  BY <1>2 DEF StopServer, JoinStream
<1>3. CASE DestroyV4l2 \/ DestroyScreen \/ JoinController
  BY <1>3 DEF DestroyV4l2, DestroyScreen, JoinController
<1>4. CASE DestroyController \/ DestroyRecorder
  BY <1>4 DEF DestroyController, DestroyRecorder
<1>5. CASE JoinFileHandler \/ FreeSinks
  BY <1>5 DEF JoinFileHandler, FreeSinks
<1> QED BY <1>1, <1>2, <1>3, <1>4, <1>5 DEF Stopping

\* The caller knows whether there is a thread.
LEMMA ThreadCaller ==
  ASSUME SessionInv, CallerStep \/ ClientStep
  PROVE  ThreadInv'
<1> USE
            DEF SessionInv, TypeOK, ThreadInv, StartLabels, LoopLabels, StopLabels,
                JoinedLabels, session, stream
<1>1. CASE Starting
  BY <1>1
  DEF Starting, ServerInit, ServerStart, Connect, FileHandlerInit, RecorderInit,
      AddPacketSinks, ControllerInit, ControllerStart, ScreenInit, V4l2Init, StreamStart,
      Start, StartSink, Made
<1>2. CASE HandleStreamStopped \/ Quit \/ DropFile \/ AddSink \/ WriteSlot
  BY <1>2 DEF HandleStreamStopped, Quit, DropFile, AddSink, WriteSlot
<1> QED BY <1>1, <1>2, ThreadStop DEF CallerStep, ClientStep

\* The caller keeps the flags of what it made.
LEMMA FlagCaller ==
  ASSUME SessionInv, CallerStep \/ ClientStep
  PROVE  FlagInv' /\ flags' \in [Flag -> {"unset", "set", "clear"}] /\ made' \subseteq Flag
<1> USE DEF SessionInv
<1>1. CASE Starting /\ UNCHANGED <<made, flags>>
  BY <1>1, StartSteps DEF TypeOK, FlagInv
<1>2. CASE Starting /\ ~UNCHANGED <<made, flags>>
  <2>1. PICK flag \in Flag :
          /\ made' = made \cup {flag} /\ flags' = [flags EXCEPT ![flag] = "set"]
          /\ flag = "controller_started" => "controller_initialized" \in made
    BY <1>2, StartSteps
  <2> QED BY <1>2, <2>1, StartSteps, FlagSet DEF TypeOK, FlagInv
<1>3. CASE HandleStreamStopped \/ Quit \/ DropFile \/ AddSink \/ WriteSlot
  BY <1>3
  DEF session, HandleStreamStopped, Quit, DropFile, AddSink, WriteSlot, TypeOK, FlagInv
<1>4. CASE Stopping /\ at # "freeSinks"
  BY <1>4, StopSteps, FlagRead DEF TypeOK, FlagInv
<1>5. CASE Stopping /\ at = "freeSinks"
  BY <1>5
  DEF TypeOK, FlagInv, Stopping, HideWindow, StopController, StopFileHandler,
      InterruptScreen, StopServer, JoinStream, DestroyV4l2, DestroyScreen, JoinController,
      DestroyController, DestroyRecorder, JoinFileHandler, FreeSinks, Stop, Destroy,
      session
<1> QED BY <1>1, <1>2, <1>3, <1>4, <1>5 DEF CallerStep, ClientStep

\* scrcpy_stop destroys what was made, in order, after the thread is joined.
LEMMA DestroyedStop ==
  ASSUME SessionInv, Stopping
  PROVE  DestroyedInv'
<1> USE FlagRead
        DEF SessionInv, DestroyedInv, ThreadInv, StartLabels, LoopLabels, StopLabels,
            JoinedLabels, Destroyed, Destroyable, Flag, session, stream, Stop, Destroy
<1>1. CASE HideWindow \/ StopController \/ StopFileHandler \/ InterruptScreen
  BY <1>1 DEF HideWindow, StopController, StopFileHandler, InterruptScreen
<1>2. CASE StopServer \/ JoinStream
  BY <1>2 DEF StopServer, JoinStream
<1>3. CASE DestroyV4l2 \/ DestroyScreen
  BY <1>3 DEF DestroyV4l2, DestroyScreen
<1>4. CASE JoinController \/ DestroyController
  BY <1>4 DEF JoinController, DestroyController
<1>5. CASE DestroyRecorder \/ JoinFileHandler \/ FreeSinks
  BY <1>5 DEF DestroyRecorder, JoinFileHandler, FreeSinks
<1> QED BY <1>1, <1>2, <1>3, <1>4, <1>5 DEF Stopping

\* Nothing is destroyed before the session is stopped.
LEMMA DestroyedCaller ==
  ASSUME SessionInv, CallerStep \/ ClientStep
  PROVE  DestroyedInv'
<1> USE
            DEF SessionInv, TypeOK, DestroyedInv, StartLabels, LoopLabels, StopLabels,
                JoinedLabels, Destroyed, Destroyable, Flag, session, stream
<1>1. CASE Starting
  BY <1>1
  DEF Starting, ServerInit, ServerStart, Connect, FileHandlerInit, RecorderInit,
      AddPacketSinks, ControllerInit, ControllerStart, ScreenInit, V4l2Init, StreamStart,
      Start, StartSink, Made
<1>2. CASE HandleStreamStopped \/ Quit \/ DropFile \/ AddSink \/ WriteSlot
  BY <1>2 DEF HandleStreamStopped, Quit, DropFile, AddSink, WriteSlot
<1> QED BY <1>1, <1>2, DestroyedStop DEF CallerStep, ClientStep

-------------------------------------------------------------------------------
(* The sinks that the caller adds. *)

\* The steps that add no sink keep the slots, and are not where sinks are being added.
LEMMA SlotsKept ==
  ASSUME SessionInv, CallerStep \/ ClientStep, ~ScreenInit, ~V4l2Init, ~AddSink, ~WriteSlot
  PROVE  /\ UNCHANGED <<frameSinks, external_sink_count>>
         /\ at \notin {"addSink", "crashed"} /\ at' # "addSink"
         /\ at' \in StartLabels => at \in StartLabels \ {"screenInit", "v4l2Init", "streamStart"}
         /\ at' \notin {"v4l2Init", "streamStart"}
         /\ zeroed => at' # "crashed"
<1> USE DEF StartLabels, stream, session
<1>1. CASE Starting
  BY <1>1
  DEF Starting, ServerInit, ServerStart, Connect, FileHandlerInit, RecorderInit,
      AddPacketSinks, ControllerInit, ControllerStart, ScreenInit, V4l2Init, StreamStart,
      Start, StartSink, Made, sinks
<1>2. CASE HandleStreamStopped \/ Quit \/ DropFile
  BY <1>2 DEF HandleStreamStopped, Quit, DropFile
<1>3. CASE Stopping /\ at # "freeSinks"
  BY <1>3, StopSteps
  DEF SessionInv, Stopping, HideWindow, StopController, StopFileHandler, InterruptScreen,
      StopServer, JoinStream, DestroyV4l2, DestroyScreen, JoinController,
      DestroyController, DestroyRecorder, JoinFileHandler, FreeSinks, Stop, Destroy
<1>4. CASE Stopping /\ at = "freeSinks"
  BY <1>4, FS_CardinalityType
  DEF SessionInv, CountInv, Stopping, HideWindow, StopController, StopFileHandler,
      InterruptScreen, StopServer, JoinStream, DestroyV4l2, DestroyScreen, JoinController,
      DestroyController, DestroyRecorder, JoinFileHandler, FreeSinks, Stop, Destroy
<1> QED BY <1>1, <1>2, <1>3, <1>4 DEF CallerStep, ClientStep

\* The values of the sinks are different, and there is room for those of the options.
LEMMA Sinks ==
  ASSUME TypeOK
  PROVE  /\ "screen" \in FrameSink /\ "v4l2" \in FrameSink /\ External \subseteq FrameSink
         /\ "screen" \notin External /\ "v4l2" \notin External /\ Unset \notin FrameSink
         /\ Unset \notin External
         /\ Len(frameSinks) \in Nat /\ frameSinks \in Seq(FrameSink \cup {Unset})
         /\ DECODER_MAX_SINKS \in Nat /\ DECODER_MAX_SINKS >= 2
         /\ external_sink_count \in 0..DECODER_MAX_SINKS
BY StreamTypes, StreamAssumption, SessionAssumption
DEF TypeOK, StreamTypeOK, FrameSink, Unset

\* A slot is written as it is counted, or right after it.
LEMMA SlotsCaller ==
  ASSUME SessionInv, CallerStep \/ ClientStep
  PROVE  SlotsInv'
<1>1. UNCHANGED zeroed /\ thread' # "crashed" /\ TypeOK
  BY CallerSteps DEF SessionInv
<1> USE <1>1, Sinks DEF SessionInv, SlotsInv
<1>2. CASE ~ScreenInit /\ ~V4l2Init /\ ~AddSink /\ ~WriteSlot
  BY <1>2, SlotsKept
<1>3. CASE ScreenInit
  <2>1. frameSinks = <<>> /\ at' \in {"v4l2Init", "hideWindow"}
    BY <1>3 DEF ScreenInit, StartSink, StartLabels
  <2>2. frameSinks' = <<>> \/ frameSinks' = <<"screen">>
    BY <1>3, <2>1 DEF ScreenInit, StartSink
  <2>3. CASE frameSinks' = <<>>
    BY <2>1, <2>3 DEF StartLabels
  <2>4. CASE frameSinks' = <<"screen">>
    BY <2>1, <2>4 DEF StartLabels
  <2> QED BY <2>2, <2>3, <2>4
<1>4. CASE V4l2Init
  <2>1. /\ at = "v4l2Init" /\ at' \in {"streamStart", "hideWindow"}
        /\ frameSinks' = frameSinks \/ frameSinks' = Append(frameSinks, "v4l2")
    BY <1>4 DEF V4l2Init, StartSink
  <2>2. Len(frameSinks) <= 1 /\ \A n \in 1..Len(frameSinks) : frameSinks[n] = "screen"
    BY <2>1
  <2>3. CASE frameSinks' = frameSinks
    BY <2>1, <2>3 DEF StartLabels
  <2>4. CASE frameSinks' = Append(frameSinks, "v4l2")
    BY <2>1, <2>2, <2>4 DEF StartLabels
  <2> QED BY <2>1, <2>3, <2>4
<1>5. CASE AddSink
  <2>1. at = "loop"
    BY <1>5 DEF AddSink
  <2>2. PICK s \in External \ Added :
          \/ /\ Len(frameSinks) < DECODER_MAX_SINKS
             /\ \/ frameSinks' = Append(frameSinks, s) /\ UNCHANGED at
                \/ frameSinks' = Append(frameSinks, Unset) /\ at' = "addSink"
          \/ /\ Len(frameSinks) >= DECODER_MAX_SINKS
             /\ at' = "crashed" /\ UNCHANGED frameSinks
    BY <1>5 DEF AddSink
  <2>3. \A n \in 1..Len(frameSinks) : frameSinks[n] # s /\ frameSinks[n] # Unset
    BY <2>1, <2>2 DEF Added, Contains
  <2>4. CASE frameSinks' = Append(frameSinks, s) /\ UNCHANGED at
    BY <2>1, <2>2, <2>3, <2>4 DEF StartLabels
  <2>5. CASE frameSinks' = Append(frameSinks, Unset) /\ at' = "addSink"
    BY <2>1, <2>2, <2>3, <2>5 DEF StartLabels
  <2>6. CASE at' = "crashed" /\ UNCHANGED frameSinks
    BY <2>1, <2>2, <2>3, <2>6 DEF StartLabels
  <2> QED BY <2>2, <2>4, <2>5, <2>6
<1>6. CASE WriteSlot
  BY <1>6 DEF WriteSlot, Added, Contains, StartLabels
<1> QED BY <1>2, <1>3, <1>4, <1>5, <1>6

\* A sink of the client is counted once, when its slot is counted.
LEMMA CountCaller ==
  ASSUME SessionInv, CallerStep \/ ClientStep
  PROVE  CountInv'
<1>1. UNCHANGED zeroed /\ TypeOK
  BY CallerSteps DEF SessionInv
<1> USE <1>1, Sinks DEF SessionInv, CountInv
<1>2. ASSUME NEW s \in External \ Added
      PROVE  /\ IsFiniteSet(Added \cup {s}) /\ Cardinality(Added) \in Nat
             /\ Cardinality(Added \cup {s}) = Cardinality(Added) + 1
  BY FS_AddElement, FS_CardinalityType
<1>3. CASE ~ScreenInit /\ ~V4l2Init /\ ~AddSink /\ ~WriteSlot
  <2>1. Added' = Added
    BY <1>3, SlotsKept DEF Added
  <2> QED BY <1>3, <2>1, SlotsKept
<1>4. CASE ScreenInit \/ V4l2Init
  <2>1. Added' = Added
    <3>1. \/ frameSinks' = frameSinks
          \/ frameSinks' = Append(frameSinks, "screen")
          \/ frameSinks' = Append(frameSinks, "v4l2")
      BY <1>4 DEF ScreenInit, V4l2Init, StartSink
    <3>2. "screen" \notin External /\ "v4l2" \notin External
      BY StreamAssumption
    <3>3. \A s \in External : Contains(frameSinks', s) <=> Contains(frameSinks, s)
      <4>1. ASSUME NEW sink, NEW s \in External, s # sink
            PROVE  Contains(Append(frameSinks, sink), s) <=> Contains(frameSinks, s)
        BY <4>1 DEF Contains
      <4> QED BY <3>1, <3>2, <4>1
    <3> QED BY <3>3 DEF Added
  <2>2. /\ UNCHANGED external_sink_count /\ at \in {"screenInit", "v4l2Init"}
        /\ at' \in {"v4l2Init", "streamStart", "hideWindow"}
    BY <1>4 DEF ScreenInit, V4l2Init, StartSink
  <2> QED BY <2>1, <2>2
<1>5. CASE AddSink
  <2>1. PICK s \in External \ Added :
          \/ frameSinks' = Append(frameSinks, s) /\ UNCHANGED at
          \/ frameSinks' = Append(frameSinks, Unset) /\ at' = "addSink"
          \/ UNCHANGED frameSinks /\ at' = "crashed"
    BY <1>5 DEF AddSink
  <2>2. CASE frameSinks' = Append(frameSinks, s) /\ UNCHANGED at
    <3>1. Added' = Added \cup {s}
      BY <2>2 DEF Added, Contains
    <3> QED BY <1>2, <1>5, <2>2, <3>1 DEF AddSink
  <2>3. CASE frameSinks' = Append(frameSinks, Unset) /\ at' = "addSink"
    <3>1. Added' = Added
      BY <2>3 DEF Added, Contains
    <3> QED BY <1>5, <2>3, <3>1, FS_CardinalityType DEF AddSink
  <2>4. CASE UNCHANGED frameSinks /\ at' = "crashed"
    BY <2>4 DEF Added
  <2> QED BY <2>1, <2>2, <2>3, <2>4
<1>6. CASE WriteSlot
  <2>1. PICK s \in External \ Added : frameSinks' = [frameSinks EXCEPT ![Len(frameSinks)] = s]
    BY <1>6 DEF WriteSlot
  <2>2. Added' = Added \cup {s}
    BY <1>6, <2>1 DEF Added, Contains, WriteSlot, SlotsInv
  <2> QED BY <1>2, <1>6, <2>1, <2>2 DEF WriteSlot, session
<1> QED BY <1>3, <1>4, <1>5, <1>6

\* A slot that is written stays, and those that are added later are of the client.
LEMMA SlotsGrow ==
  ASSUME SessionInv, CallerStep \/ ClientStep
  PROVE  /\ Len(frameSinks') >= Len(frameSinks)
         /\ frameSinks' \in Seq(FrameSink \cup {Unset})
         /\ \A n \in 1..Len(frameSinks) :
              frameSinks[n] # Unset => frameSinks'[n] = frameSinks[n]
         /\ thread \notin {"none", "done", "crashed"} =>
              \A n \in 1..Len(frameSinks') : frameSinks'[n] \in {"screen", "v4l2"} =>
                n <= Len(frameSinks) /\ frameSinks[n] = frameSinks'[n]
         /\ external_sink_count' \in 0..DECODER_MAX_SINKS
<1>1. TypeOK
  BY DEF SessionInv
<1> DEFINE Slots == Seq(FrameSink \cup {Unset})
<1>0. ASSUME NEW s \in FrameSink \cup {Unset}, frameSinks' = Append(frameSinks, s)
      PROVE  /\ frameSinks' \in Slots /\ Len(frameSinks') = Len(frameSinks) + 1
             /\ \A n \in 1..Len(frameSinks) : frameSinks'[n] = frameSinks[n]
             /\ \A n \in 1..Len(frameSinks') : n > Len(frameSinks) => frameSinks'[n] = s
  BY <1>0, <1>1, Sinks
<1>2. CASE ~ScreenInit /\ ~V4l2Init /\ ~AddSink /\ ~WriteSlot
  BY <1>1, <1>2, Sinks, SlotsKept
<1>3. CASE ScreenInit \/ V4l2Init
  <2>1. /\ \/ frameSinks' = frameSinks
           \/ frameSinks' = Append(frameSinks, "screen") \/ frameSinks' = Append(frameSinks, "v4l2")
        /\ UNCHANGED external_sink_count /\ at \in {"screenInit", "v4l2Init"}
    BY <1>3 DEF ScreenInit, V4l2Init, StartSink
  <2>2. thread = "none"
    BY <2>1 DEF SessionInv, ThreadInv, StartLabels
  <2> QED BY <1>1, <2>1, <2>2, Sinks
<1>4. CASE AddSink
  <2>1. PICK s \in External \cup {Unset} :
          frameSinks' = Append(frameSinks, s) \/ UNCHANGED frameSinks
    BY <1>4 DEF AddSink
  <2>2. s \in FrameSink \cup {Unset} /\ s \notin {"screen", "v4l2"}
    BY <1>1, Sinks DEF Unset
  <2>3. external_sink_count' \in 0..DECODER_MAX_SINKS
    <3>1. /\ external_sink_count < DECODER_MAX_SINKS
          /\ external_sink_count' = external_sink_count + 1
      BY <1>4 DEF AddSink
    <3> QED BY <1>1, <3>1, Sinks
  <2>4. frameSinks \in Slots /\ Len(frameSinks) \in Nat
    BY <1>1, Sinks
  <2> HIDE DEF Slots
  <2>5. CASE UNCHANGED frameSinks
    BY <2>3, <2>4, <2>5 DEF Slots
  <2>6. CASE frameSinks' = Append(frameSinks, s)
    <3>1. /\ frameSinks' \in Slots /\ Len(frameSinks') = Len(frameSinks) + 1
          /\ \A n \in 1..Len(frameSinks) : frameSinks'[n] = frameSinks[n]
          /\ \A n \in 1..Len(frameSinks') : n > Len(frameSinks) => frameSinks'[n] = s
      BY <1>0, <2>2, <2>6
    <3> QED BY <2>2, <2>3, <2>4, <3>1 DEF Slots
  <2> QED BY <2>1, <2>5, <2>6
<1>5. CASE WriteSlot
  BY <1>1, <1>5, Sinks DEF WriteSlot, session, SessionInv, SlotsInv, Unset
<1> QED BY <1>2, <1>3, <1>4, <1>5

\* The lists of packet sinks, put together.
LEMMA PacketLists ==
  /\ <<>> \o <<>> = <<>> /\ <<"decoder">> \o <<>> = <<"decoder">>
  /\ <<>> \o <<"recorder">> = <<"recorder">>
  /\ <<"decoder">> \o <<"recorder">> = <<"decoder", "recorder">>
<1> DEFINE both == <<"decoder">> \o <<"recorder">>
           list == <<"decoder", "recorder">>
<1>1. both \in Seq({"decoder", "recorder"})
  OBVIOUS
<1>2. list \in Seq({"decoder", "recorder"})
  OBVIOUS
<1>3. Len(both) = 2
  OBVIOUS
<1>4. Len(list) = 2
  OBVIOUS
<1>5. both[1] = list[1]
  OBVIOUS
<1>6. both[2] = list[2]
  OBVIOUS
<1>7. both = list
  <2> HIDE DEF both, list
  <2> QED BY <1>1, <1>2, <1>3, <1>4, <1>5, <1>6, SeqEqual
<1> QED BY <1>7

\* The packet sinks are added before the thread starts.
LEMMA PacketSinksKept ==
  ASSUME SessionInv, CallerStep \/ ClientStep
  PROVE  \/ UNCHANGED packetSinks
         \/ /\ thread = "none" /\ UNCHANGED thread
            /\ packetSinks' \in {<<>>, <<"decoder">>, <<"recorder">>, <<"decoder", "recorder">>}
<1>1. CASE AddPacketSinks
  <2>1. packetSinks' \in {<<>>, <<"decoder">>, <<"recorder">>, <<"decoder", "recorder">>}
    BY <1>1, PacketLists DEF AddPacketSinks
  <2> QED BY <1>1, <2>1 DEF AddPacketSinks, SessionInv, ThreadInv, StartLabels
<1>2. CASE ~AddPacketSinks
  BY <1>2
  DEF CallerStep, ClientStep, Starting, ServerInit, ServerStart, Connect, FileHandlerInit,
      RecorderInit, AddPacketSinks, ControllerInit, ControllerStart, ScreenInit, V4l2Init,
      StreamStart, Start, StartSink, Made, HandleStreamStopped, Quit, DropFile, AddSink,
      WriteSlot, Stopping, HideWindow, StopController, StopFileHandler, InterruptScreen,
      StopServer, JoinStream, DestroyV4l2, DestroyScreen, JoinController,
      DestroyController, DestroyRecorder, JoinFileHandler, FreeSinks, Stop, Destroy,
      stream, session, sinks
<1> QED BY <1>1, <1>2

\* The caller keeps the types.
LEMMA TypeCaller ==
  ASSUME SessionInv, CallerStep \/ ClientStep
  PROVE  TypeOK'
<1>1. packetSinks' \in Seq({"decoder", "recorder"}) /\ i' \in 0..Len(packetSinks') + 1
  <2>1. CASE UNCHANGED packetSinks
    BY <2>1, CallerSteps DEF SessionInv, TypeOK, StreamTypeOK
  <2>2. CASE ~UNCHANGED packetSinks
    <3>1. /\ <<>> \in Seq({"decoder", "recorder"})
          /\ <<"decoder">> \in Seq({"decoder", "recorder"})
          /\ <<"recorder">> \in Seq({"decoder", "recorder"})
          /\ <<"decoder", "recorder">> \in Seq({"decoder", "recorder"})
      OBVIOUS
    <3>2. i' = 0
      BY <2>2, PacketSinksKept, CallerSteps DEF SessionInv, IndexInv
    <3>3. packetSinks' \in Seq({"decoder", "recorder"})
      BY <2>2, <3>1, PacketSinksKept
    <3> QED BY <3>2, <3>3
  <2> QED BY <2>1, <2>2
<1>2. j' \in 0..Len(frameSinks') + 1 /\ frameSinks' \in Seq(FrameSink \cup {Unset})
  BY SlotsGrow, StreamTypes, CallerSteps DEF SessionInv
<1>3. StreamTypeOK'
  BY <1>1, <1>2, CallerSteps DEF SessionInv, TypeOK, StreamTypeOK
<1>4. options' \subseteq Option /\ zeroed' \in BOOLEAN
  BY CallerSteps DEF SessionInv, TypeOK
<1>5. fileThread' \in BOOLEAN /\ shut' \in BOOLEAN /\ events' \in 0..1
  <2> USE DEF SessionInv, TypeOK, session
  <2>1. CASE Starting
    BY <2>1, StartSteps
  <2>2. CASE HandleStreamStopped
    BY <2>2 DEF HandleStreamStopped
  <2>3. CASE Quit \/ DropFile \/ AddSink \/ WriteSlot
    BY <2>3 DEF Quit, DropFile, AddSink, WriteSlot
  <2>4. CASE StopServer
    <3>1. shut' \in BOOLEAN
      <4>1. ("server_started" \in made) \in BOOLEAN
        OBVIOUS
      <4>2. shut' = ("server_started" \in made)
        BY <2>4 DEF StopServer
      <4> QED BY <4>1, <4>2, Zenon
    <3> QED BY <2>4, <3>1 DEF StopServer, Stop
  <2>5. CASE Stopping /\ ~StopServer
    BY <2>5
    DEF Stopping, HideWindow, StopController, StopFileHandler, InterruptScreen,
        StopServer, JoinStream, DestroyV4l2, DestroyScreen, JoinController,
        DestroyController, DestroyRecorder, JoinFileHandler, FreeSinks, Stop, Destroy
  <2> QED BY <2>1, <2>2, <2>3, <2>4, <2>5 DEF CallerStep, ClientStep
<1>6. destroyed' \subseteq Flag
  BY DestroyedCaller, FlagCaller DEF DestroyedInv
<1> QED BY <1>3, <1>4, <1>5, <1>6, FlagCaller, SlotsGrow DEF TypeOK

\* Where the loops are does not depend on the caller.
LEMMA IndexCaller ==
  ASSUME SessionInv, CallerStep \/ ClientStep
  PROVE  IndexInv'
<1> USE CallerSteps DEF SessionInv, IndexInv
<1>1. CASE thread' # thread
  <2>1. thread = "none" /\ thread' = "start" /\ UNCHANGED packetSinks
    BY <1>1 DEF ThreadInv, StartLabels
  <2> QED BY <2>1
<1>2. CASE UNCHANGED thread /\ thread = "none"
  BY <1>2, PacketSinksKept
<1>3. CASE UNCHANGED thread /\ thread # "none"
  <2>1. j \in Nat /\ Len(frameSinks) \in Nat /\ Len(frameSinks') \in Nat
    BY SlotsGrow, StreamTypes
  <2> QED BY <1>3, <2>1, PacketSinksKept, SlotsGrow DEF Decoding
<1> QED BY <1>1, <1>2, <1>3

\* What is received and decoded does not depend on the caller.
LEMMA DataCaller ==
  ASSUME SessionInv, CallerStep \/ ClientStep
  PROVE  DataInv'
<1>1. thread \in {"recv", "push", "pushFrame", "end", "openSinks", "openFrameSinks"}
        => Decoding' = Decoding /\ UNCHANGED thread
  BY PacketSinksKept, CallerSteps DEF Decoding, SessionInv, ThreadInv, StartLabels
<1>2. Len(decoded) \in Nat /\ received \in Nat
  BY StreamTypes DEF SessionInv, Packets
<1> QED BY <1>1, <1>2, CallerSteps
           DEF SessionInv, DataInv, Follows, ThreadInv, StartLabels

\* A sink that is added while the thread runs is of the client.
LEMMA OpenCaller ==
  ASSUME SessionInv, CallerStep \/ ClientStep
  PROVE  OpenInv'
<1> USE DEF SessionInv, OpenInv
<1>1. CASE thread = "none"
  <2>1. /\ UNCHANGED <<status, strays>> /\ OpenFrameSinks' = 0
        /\ \A s \in FrameSink \cup {"decoder", "recorder"} : status[s] # "open"
    BY <1>1, CallerSteps DEF DecoderOpen, RecorderOpen, FramesOpen, OpenFrameSinks, Pushes
  <2> QED BY <1>1, <2>1, CallerSteps DEF DecoderOpen, RecorderOpen, FramesOpen, Pushes
<1>2. CASE thread # "none"
  <2>1. /\ UNCHANGED <<i, j, thread, packetSinks, status, strays>> /\ thread # "crashed"
        /\ Decoding' = Decoding /\ Recording' = Recording
    BY <1>2, PacketSinksKept, CallerSteps DEF ThreadInv, StartLabels, Decoding, Recording
  <2>2. /\ OpenFrameSinks \in 0..Len(frameSinks) /\ OpenFrameSinks' \in Nat
        /\ OpenFrameSinks <= OpenFrameSinks' /\ OpenFrameSinks' <= Len(frameSinks')
        /\ \/ OpenFrameSinks' = OpenFrameSinks
           \/ OpenFrameSinks = Len(frameSinks) /\ OpenFrameSinks' = Len(frameSinks')
    BY <2>1, SlotsGrow, StreamTypes DEF OpenFrameSinks, IndexInv
  <2>3. \A s \in FrameSink :
          status'[s] = "open" => \E n \in 1..OpenFrameSinks' : frameSinks'[n] = s
    BY <2>1, <2>2, SlotsGrow, StreamAssumption DEF FramesOpen, FrameSink, Unset
  <2>4. \A n \in 1..OpenFrameSinks' :
          frameSinks'[n] \in {"screen", "v4l2"} => status'[frameSinks'[n]] = "open"
    <3>1. CASE thread = "done"
      BY <2>1, <2>2, <3>1 DEF OpenFrameSinks, DecoderOpen, Pushes
    <3>2. CASE thread # "done"
      BY <1>2, <2>1, <2>2, <3>2, SlotsGrow, StreamTypes DEF FramesOpen
    <3> QED BY <3>1, <3>2
  <2> QED BY <2>1, <2>3, <2>4 DEF DecoderOpen, RecorderOpen, FramesOpen, Pushes
<1> QED BY <1>1, <1>2

-------------------------------------------------------------------------------
(* The steps of the stream thread. *)

\* The stream thread starts, stops and destroys nothing, and calls a slot that is unset
\* only while a sink is being added.
LEMMA ControlStream ==
  ASSUME SessionInv, StreamRuns \/ StreamReceives
  PROVE  ThreadInv' /\ FlagInv' /\ DestroyedInv' /\ SlotsInv' /\ CountInv'
<1> USE StreamStep DEF SessionInv, session
<1>1. ThreadInv'
  BY DEF ThreadInv
<1>2. FlagInv'
  BY DEF FlagInv
<1>3. DestroyedInv'
  BY DEF DestroyedInv, ThreadInv, JoinedLabels, Destroyed
<1>4. SlotsInv'
  <2>1. CASE CallUnset
    <3>1. j \in 1..Len(frameSinks) /\ frameSinks[j] = Unset
      BY <2>1, StreamTypes, LoopSinks DEF CallUnset
    <3>2. at = "addSink"
      BY <3>1 DEF SlotsInv
    <3> QED BY <3>2 DEF SlotsInv
  <2>2. CASE ~CallUnset
    <3>1. thread' # "crashed"
      <4>1. CASE Opening
        BY <4>1
        DEF Opening, CodecMissing, OpenSinks, OpenDecoder, OpenFrameSink, DecoderOpened,
            OpenRecorder, OpenFails, SinksOpened
      <4>2. CASE Receiving
        BY <4>2 DEF Receiving, RecvConfig, RecvData, RecvFails
      <4>3. CASE Pushing
        BY <4>3
        DEF Pushing, DecodeConfig, Decode, PushFrame, FramePushed, Record, PushFails,
            Pushed
      <4>4. CASE Closing
        BY <4>4
        DEF Closing, EndOfFrames, CloseDecoder, CloseFrameSink, FrameSinksClosed,
            CloseRecorder, SinksClosed
      <4> QED BY <2>2, <4>1, <4>2, <4>3, <4>4 DEF StreamRuns, StreamReceives, Receiving
    <3> QED BY <3>1 DEF SlotsInv
  <2> QED BY <2>1, <2>2
<1>5. CountInv'
  <2>1. UNCHANGED <<frameSinks, external_sink_count, zeroed, at>>
    OBVIOUS
  <2>2. CountInv
    OBVIOUS
  <2> QED BY ONLY <2>1, <2>2 DEF CountInv, Added
<1> QED BY <1>1, <1>2, <1>3, <1>4, <1>5

\* The last step of the stream thread, that posts the only event, keeps everything.
LEMMA LastStep ==
  ASSUME SessionInv, StreamEnds
  PROVE  SessionInv'
<1> USE LastStreamStep DEF SessionInv
<1>1. ThreadInv' /\ events' \in 0..1
  BY DEF ThreadInv, JoinedLabels
<1>2. TypeOK'
  BY <1>1 DEF TypeOK, StreamTypeOK
<1>3. FlagInv' /\ SlotsInv' /\ CountInv'
  BY DEF FlagInv, SlotsInv, CountInv, Added
<1>4. DestroyedInv'
  BY DEF DestroyedInv, ThreadInv, JoinedLabels, Destroyed
<1>5. IndexInv' /\ DataInv'
  BY DEF IndexInv, DataInv, Follows, Decoding
<1>6. OpenInv'
  BY
  DEF OpenInv, DecoderOpen, RecorderOpen, FramesOpen, OpenFrameSinks, Decoding, Recording,
      Pushes
<1> QED BY <1>1, <1>2, <1>3, <1>4, <1>5, <1>6

\* The loops are where they may be.
LEMMA IndexStream ==
  ASSUME SessionInv, StreamRuns \/ StreamReceives
  PROVE  IndexInv'
<1>1. /\ Len(packetSinks) \in Nat /\ Len(frameSinks) \in Nat /\ i \in Nat /\ j \in Nat
      /\ UNCHANGED <<packetSinks, frameSinks>> /\ TypeOK /\ IndexInv /\ DataInv
  BY StreamTypes, StreamStep DEF SessionInv
<1> USE <1>1 DEF IndexInv, Decoding, sinks, loop, data
<1>2. CASE Opening
  BY <1>2, LoopSinks, PacketSink
  DEF Opening, CodecMissing, OpenSinks, OpenDecoder, OpenFrameSink, DecoderOpened,
      OpenRecorder, OpenFails, SinksOpened, DataInv
<1>3. CASE Receiving \/ CallUnset
  BY <1>3, LoopSinks DEF Receiving, RecvConfig, RecvData, RecvFails, CallUnset
<1>4. CASE Pushing
  BY <1>4, LoopSinks, PacketSink
  DEF Pushing, DecodeConfig, Decode, PushFrame, FramePushed, Record, PushFails, Pushed
<1>5. CASE Closing
  BY <1>5, LoopSinks, PacketSink
  DEF Closing, EndOfFrames, CloseDecoder, CloseFrameSink, FrameSinksClosed, CloseRecorder,
      SinksClosed
<1> QED BY <1>2, <1>3, <1>4, <1>5 DEF StreamRuns, StreamReceives

\* A packet joined to those that follow what is decoded follows it.
LEMMA FollowsJoined ==
  ASSUME TypeOK, Follows(pending)
  PROVE  /\ Len(decoded) + Len(Joined(received + 1)) = received + 1
         /\ \A n \in 1..Len(Joined(received + 1)) :
              Joined(received + 1)[n] = Len(decoded) + n
<1>1. /\ pending \in Packets /\ Len(pending) \in Nat /\ Len(decoded) \in Nat
      /\ received \in Nat
  BY StreamTypes DEF Packets
<1> QED BY <1>1 DEF Follows, Joined, Packets

\* What is pending follows what is decoded: the packet that is decoded is what follows.
LEMMA DataStream ==
  ASSUME SessionInv, StreamRuns \/ StreamReceives
  PROVE  DataInv'
<1>1. /\ Len(packetSinks) \in Nat /\ i \in Nat /\ UNCHANGED <<packetSinks, frameSinks>>
      /\ TypeOK /\ IndexInv /\ DataInv
      /\ decoded \in Packets /\ packet \in Packets /\ pending \in Packets
      /\ received \in Nat /\ isConfig \in BOOLEAN /\ Decoding' = Decoding
      /\ Len(decoded) \in Nat /\ Len(packet) \in Nat /\ Len(pending) \in Nat
  BY StreamTypes, StreamStep DEF SessionInv, Packets, Decoding
<1> USE <1>1
<1>2. CASE SinksOpened
  <2>1. pending = <<>> /\ decoded = <<>> /\ received = 0
    BY <1>2 DEF SinksOpened, DataInv, NoPacket
  <2>2. Follows(pending)
    BY <2>1 DEF Follows
  <2> QED BY <1>2, <2>2 DEF SinksOpened, DataInv, Follows, data, NoPacket
<1>3. CASE Opening /\ ~SinksOpened
  <2>1. /\ UNCHANGED data /\ thread \in {"start", "openSinks", "openFrameSinks"}
        /\ thread' \in {"eos", "openSinks", "openFrameSinks", "closeSinks", "closeFrameSinks"}
    BY <1>3
    DEF Opening, CodecMissing, OpenSinks, OpenDecoder, OpenFrameSink, DecoderOpened,
        OpenRecorder, OpenFails, SinksOpened
  <2>2. received = 0 /\ decoded = <<>> /\ pending = NoPacket
    BY <2>1 DEF IndexInv, DataInv
  <2> QED BY <2>1, <2>2 DEF DataInv, data
<1>4. CASE RecvConfig
  <2>1. Decoding => Follows(pending)
    BY <1>4 DEF RecvConfig, DataInv
  <2>2. Decoding => Follows(pending)'
    BY <1>4, <2>1, FollowsJoined DEF RecvConfig, Follows
  <2> QED BY <1>4, <2>2 DEF RecvConfig, DataInv
<1>5. CASE RecvData
  <2>1. Decoding => Follows(pending)
    BY <1>5 DEF RecvData, DataInv
  <2>2. Decoding => Follows(packet)'
    BY <1>5, <2>1, FollowsJoined DEF RecvData, Follows
  <2> QED BY <1>5, <2>2 DEF RecvData, DataInv
<1>6. CASE RecvFails
  BY <1>6 DEF RecvFails, DataInv
<1>7. CASE Decode
  BY <1>7, LoopSinks, PacketSink DEF Decode, DataInv, Follows, Packets, sinks, loop, data
<1>8. CASE DecodeConfig \/ PushFrame \/ FramePushed \/ Record
  <2> USE DEF DecodeConfig, PushFrame, FramePushed, Record
  <2>1. /\ UNCHANGED data /\ thread \in {"push", "pushFrame"}
        /\ thread' \in {"push", "pushFrame"}
        /\ thread' = "pushFrame" => thread = "pushFrame"
    BY <1>8
  <2>2. thread' = "push" /\ isConfig => thread = "push"
    BY <1>8 DEF DataInv
  <2>3. thread' = "push" /\ ~isConfig /\ Decoding => i' > 1 /\ (thread = "pushFrame" \/ i > 1)
    BY <1>8, LoopSinks, PacketSink
  <2> HIDE DEF DecodeConfig, PushFrame, FramePushed, Record
  <2> QED BY <2>1, <2>2, <2>3 DEF DataInv, Follows, data
<1>9. CASE PushFails
  BY <1>9, LoopSinks, PacketSink DEF PushFails, DataInv, Follows, sinks, loop, data
<1>10. CASE Pushed
  BY <1>10, LoopSinks, PacketSink
  DEF Pushed, DataInv, Follows, NoPacket, sinks, loop, data, Decoding
<1>11. CASE Closing \/ CallUnset
  BY <1>11, LoopSinks, PacketSink
  DEF Closing, EndOfFrames, CloseDecoder, CloseFrameSink, FrameSinksClosed, CloseRecorder,
      SinksClosed, CallUnset, DataInv, Follows, NoPacket, sinks, loop, data
<1> QED BY <1>2, <1>3, <1>4, <1>5, <1>6, <1>7, <1>8, <1>9, <1>10, <1>11
           DEF StreamRuns, StreamReceives, Opening, Receiving, Pushing

\* What is called is open, or a sink of the client.
LEMMA StraysStream ==
  ASSUME SessionInv, StreamRuns \/ StreamReceives
  PROVE  strays' \subseteq External
<1>1. /\ TypeOK /\ IndexInv /\ OpenInv /\ Len(packetSinks) \in Nat /\ i \in Nat
      /\ j \in Nat /\ Len(frameSinks) \in Nat /\ strays \subseteq External
      /\ thread # "crashed"
  BY StreamTypes, StreamStep DEF SessionInv, OpenInv
<1>2. CASE \/ DecodeConfig \/ Decode \/ Record \/ PushFails \/ CloseDecoder \/ CloseRecorder
  <2>1. /\ i \in 1..Len(packetSinks) /\ status[packetSinks[i]] = "open"
        /\ Calls(packetSinks[i])
    BY <1>1, <1>2, LoopSinks, PacketSink
    DEF OpenInv, DecoderOpen, RecorderOpen, Pushes, DecodeConfig, Decode, Record,
        PushFails, CloseDecoder, CloseRecorder
  <2> QED BY <1>1, <2>1 DEF Calls
<1>3. CASE PushFrame \/ CloseFrameSink
  <2>1. /\ j \in 1..Len(frameSinks) /\ frameSinks[j] # Unset /\ Calls(frameSinks[j])
        /\ thread \in {"pushFrame", "closeFrameSinks"}
    BY <1>1, <1>3, LoopSinks DEF PushFrame, CloseFrameSink
  <2>2. j \in 1..OpenFrameSinks
    BY <1>1, <2>1, LoopSinks DEF OpenFrameSinks, OpenInv, DecoderOpen, Pushes, IndexInv
  <2>3. frameSinks[j] \in External \/ status[frameSinks[j]] = "open"
    BY <1>1, <2>1, <2>2, LoopSinks DEF OpenInv, FramesOpen, FrameSink
  <2> QED BY <1>1, <2>1, <2>3 DEF Calls
<1>4. CASE UNCHANGED strays
  BY <1>1, <1>4
<1> QED BY <1>2, <1>3, <1>4
           DEF StreamRuns, StreamReceives, Opening, CodecMissing, OpenSinks, OpenDecoder,
               OpenFrameSink, DecoderOpened, OpenRecorder, OpenFails, SinksOpened,
               Receiving, RecvConfig, RecvData, RecvFails, Pushing, DecodeConfig, Decode,
               PushFrame, FramePushed, Record, PushFails, Pushed, Closing, EndOfFrames,
               CloseDecoder, CloseFrameSink, FrameSinksClosed, CloseRecorder, SinksClosed,
               CallUnset

\* The stream thread keeps the types.
LEMMA TypeStream ==
  ASSUME SessionInv, StreamRuns \/ StreamReceives
  PROVE  TypeOK'
<1>1. strays' \subseteq Sink
  BY StraysStream DEF Sink, FrameSink
<1>2. StreamTypeOK'
  BY <1>1, DataType, LoopType, StatusType, StreamStep
  DEF SessionInv, TypeOK, StreamTypeOK, Packets, Status
<1> QED BY <1>2, StreamStep DEF SessionInv, TypeOK, session

\* The types, the sinks and the loops, as the steps that open and close sinks need them.
LEMMA OpenFacts ==
  ASSUME SessionInv, StreamRuns \/ StreamReceives
  PROVE  /\ TypeOK /\ IndexInv /\ thread # "crashed"
         /\ Len(packetSinks) \in Nat /\ i \in Nat /\ Len(frameSinks) \in Nat /\ j \in Nat
         /\ j <= Len(frameSinks) + 1 /\ UNCHANGED <<packetSinks, frameSinks>>
         /\ Decoding' = Decoding /\ Recording' = Recording
         /\ status \in [Sink -> Status] /\ "decoder" \in Sink /\ "recorder" \in Sink
         /\ \A s \in FrameSink : s \in Sink /\ s \notin {"decoder", "recorder"}
         /\ \A m, n \in 1..Len(frameSinks) : frameSinks[m] = frameSinks[n] => m = n
         /\ thread \in {"openFrameSinks", "pushFrame"} => i = 1 /\ Decoding
         /\ thread \in {"openFrameSinks", "closeFrameSinks"} => status["decoder"] # "open"
         /\ OpenFrameSinks \in 0..Len(frameSinks)
BY StreamTypes, StreamStep, StreamAssumption
DEF SessionInv, OpenInv, Decoding, Recording, Sink, FrameSink, SlotsInv, IndexInv,
    DecoderOpen, Pushes, OpenFrameSinks

\* The decoder is open from when its sinks are until it is closed or refused.
LEMMA DecoderStream ==
  ASSUME SessionInv, StreamRuns \/ StreamReceives, ~CallUnset
  PROVE  DecoderOpen'
<1>1. DecoderOpen
  BY OpenFacts DEF SessionInv, OpenInv
<1> USE <1>1, OpenFacts, LoopSinks, PacketSink
        DEF DecoderOpen, Pushes, loop, data, sinks, Becomes, Status
<1>2. CASE Opening
  BY <1>2
  DEF Opening, CodecMissing, OpenSinks, OpenDecoder, OpenFrameSink, DecoderOpened,
      OpenRecorder, OpenFails, SinksOpened
<1>3. CASE Receiving
  BY <1>3 DEF Receiving, RecvConfig, RecvData, RecvFails
<1>4. CASE Pushing
  BY <1>4
  DEF Pushing, DecodeConfig, Decode, PushFrame, FramePushed, Record, PushFails, Pushed
<1>5. CASE Closing
  BY <1>5
  DEF Closing, EndOfFrames, CloseDecoder, CloseFrameSink, FrameSinksClosed, CloseRecorder,
      SinksClosed
<1> QED BY <1>2, <1>3, <1>4, <1>5 DEF StreamRuns, StreamReceives

\* So is the recorder, that is the last one.
LEMMA RecorderStream ==
  ASSUME SessionInv, StreamRuns \/ StreamReceives, ~CallUnset
  PROVE  RecorderOpen'
<1>1. RecorderOpen
  BY OpenFacts DEF SessionInv, OpenInv
<1>2. Decoding /\ Recording => Len(packetSinks) = 2
  BY OpenFacts, PacketSink
<1>3. CASE DecoderOpened
  <2>1. /\ thread = "openFrameSinks" /\ thread' = "openSinks" /\ i = 1 /\ i' = i + 1 /\ Decoding
        /\ status' = [status EXCEPT !["decoder"] = "open"]
    BY <1>3, OpenFacts DEF DecoderOpened, Becomes
  <2>2. status["recorder"] # "open"
    BY <1>1, <2>1 DEF RecorderOpen, Pushes
  <2>3. status'["recorder"] # "open"
    BY <2>1, <2>2, OpenFacts
  <2>4. i' = 2
    BY <2>1
  <2>5. ~(Recording /\ i' > Len(packetSinks))
    BY <1>2, <2>1, <2>4
  <2>6. Recording' = Recording /\ Len(packetSinks)' = Len(packetSinks)
    BY OpenFacts
  <2> QED BY <2>1, <2>3, <2>5, <2>6 DEF RecorderOpen, Pushes
<1>4. CASE CloseDecoder
  <2>1. /\ thread = "closeSinks" /\ thread' = "closeFrameSinks" /\ i > 0 /\ i <= Len(packetSinks)
        /\ packetSinks[i] = "decoder" /\ status' = [status EXCEPT !["decoder"] = "closed"]
    BY <1>4, OpenFacts, LoopSinks DEF CloseDecoder, Becomes
  <2>2. Decoding /\ i = 1
    BY <2>1, OpenFacts, PacketSink
  <2>3. status["recorder"] # "open"
    BY <1>1, <1>2, <2>1, <2>2 DEF RecorderOpen, Pushes
  <2>4. status'["recorder"] # "open"
    BY <2>1, <2>3, OpenFacts
  <2> QED BY <2>1, <2>4 DEF RecorderOpen, Pushes
<1> USE <1>1, OpenFacts, LoopSinks, PacketSink
        DEF RecorderOpen, Pushes, loop, data, sinks, Becomes, Status
<1>5. CASE OpenFrameSink
  BY <1>5 DEF OpenFrameSink
<1>6. CASE OpenSinks \/ CodecMissing \/ OpenDecoder
  BY <1>6 DEF OpenSinks, CodecMissing, OpenDecoder
<1>7. CASE OpenRecorder \/ OpenFails \/ SinksOpened
  BY <1>7 DEF OpenRecorder, OpenFails, SinksOpened
<1>8. CASE Receiving
  BY <1>8 DEF Receiving, RecvConfig, RecvData, RecvFails
<1>9. CASE Pushing
  BY <1>9
  DEF Pushing, DecodeConfig, Decode, PushFrame, FramePushed, Record, PushFails, Pushed
<1>10. CASE EndOfFrames
  BY <1>10 DEF EndOfFrames
<1>11. CASE CloseFrameSink
  BY <1>11 DEF CloseFrameSink
<1>12. CASE FrameSinksClosed \/ CloseRecorder \/ SinksClosed
  BY <1>12 DEF FrameSinksClosed, CloseRecorder, SinksClosed
<1> QED BY <1>3, <1>4, <1>5, <1>6, <1>7, <1>8, <1>9, <1>10, <1>11, <1>12
           DEF StreamRuns, StreamReceives, Opening, Closing

\* The first frame sinks are open, in the order of their slots.
LEMMA FramesStream ==
  ASSUME SessionInv, StreamRuns \/ StreamReceives, ~CallUnset
  PROVE  FramesOpen'
<1>1. FramesOpen /\ DecoderOpen
  BY OpenFacts DEF SessionInv, OpenInv
<1> USE <1>1, OpenFacts, LoopSinks, PacketSink
        DEF OpenFrameSinks, loop, data, sinks, Becomes, Status
<1>2. CASE OpenFrameSink
  <2>1. /\ j \in 1..Len(frameSinks) /\ OpenFrameSinks = j - 1 /\ frameSinks[j] \in FrameSink
        /\ \A n \in 1..j - 1 : frameSinks[n] # frameSinks[j]
    BY <1>2 DEF OpenFrameSink
  <2>2. CASE Becomes(frameSinks[j], "open") /\ j' = j + 1 /\ UNCHANGED thread
    <3>1. OpenFrameSinks' = j
      BY <1>2, <2>1, <2>2 DEF OpenFrameSink
    <3> QED BY <2>1, <2>2, <3>1 DEF FramesOpen
  <2>3. CASE /\ status' = [status EXCEPT ![frameSinks[j]] = "refused", !["decoder"] = "refused"]
             /\ thread' = "closeFrameSinks" /\ j' = j - 1
    <3>1. OpenFrameSinks' = j - 1
      BY <2>1, <2>3
    <3>2. /\ \A s \in FrameSink : s # frameSinks[j] => status'[s] = status[s]
          /\ status'[frameSinks[j]] # "open"
      BY <2>1, <2>3
    <3> HIDE DEF OpenFrameSinks
    <3>3. \A s \in FrameSink :
            status'[s] = "open" => \E n \in 1..j - 1 : frameSinks[n] = s
      BY <2>1, <3>2 DEF FramesOpen
    <3>4. \A n \in 1..j - 1 :
            frameSinks[n] \in {"screen", "v4l2"} => status'[frameSinks[n]] = "open"
      BY <2>1, <3>2 DEF FramesOpen, FrameSink
    <3> QED BY <3>1, <3>3, <3>4 DEF FramesOpen
  <2> QED BY <1>2, <2>2, <2>3 DEF OpenFrameSink
<1>3. CASE CloseFrameSink
  BY <1>3 DEF CloseFrameSink, FramesOpen
<1>4. CASE ~OpenFrameSink /\ ~CloseFrameSink
  <2>1. \A s \in FrameSink : status'[s] = status[s]
    <3>1. CASE Opening
      BY <1>4, <3>1
      DEF Opening, CodecMissing, OpenSinks, OpenDecoder, OpenFrameSink, DecoderOpened,
          OpenRecorder, OpenFails, SinksOpened
    <3>2. CASE Receiving \/ Pushing
      BY <3>2
      DEF Receiving, RecvConfig, RecvData, RecvFails, Pushing, DecodeConfig, Decode,
          PushFrame, FramePushed, Record, PushFails, Pushed
    <3>3. CASE Closing
      BY <1>4, <3>3
      DEF Closing, EndOfFrames, CloseDecoder, CloseFrameSink, FrameSinksClosed,
          CloseRecorder, SinksClosed
    <3> QED BY <3>1, <3>2, <3>3 DEF StreamRuns, StreamReceives
  <2>2. OpenFrameSinks' = OpenFrameSinks
    <3> USE DEF DecoderOpen, Pushes
    <3>1. CASE Opening
      BY <1>4, <3>1
      DEF Opening, CodecMissing, OpenSinks, OpenDecoder, OpenFrameSink, DecoderOpened,
          OpenRecorder, OpenFails, SinksOpened
    <3>2. CASE Receiving \/ Pushing
      BY <3>2
      DEF Receiving, RecvConfig, RecvData, RecvFails, Pushing, DecodeConfig, Decode,
          PushFrame, FramePushed, Record, PushFails, Pushed
    <3>3. CASE Closing
      BY <1>4, <3>3
      DEF Closing, EndOfFrames, CloseDecoder, CloseFrameSink, FrameSinksClosed,
          CloseRecorder, SinksClosed
    <3> QED BY <3>1, <3>2, <3>3 DEF StreamRuns, StreamReceives
  <2> HIDE DEF OpenFrameSinks
  <2> QED BY <2>1, <2>2 DEF FramesOpen, FrameSink
<1> QED BY <1>2, <1>3, <1>4

-------------------------------------------------------------------------------
(* The theorems about the session. *)

\* Nothing is made, received or open at the start.
LEMMA Initial == Init => SessionInv
<1> SUFFICES ASSUME Init PROVE SessionInv
  OBVIOUS
<1> USE DEF Init, StreamInit
<1>1. external_sink_count \in 0..DECODER_MAX_SINKS
  BY SessionAssumption
<1>2. StreamTypeOK
  <2>1. /\ <<>> \in Seq(1..MaxPackets) /\ <<>> \in Seq({"decoder", "recorder"})
        /\ <<>> \in Seq(FrameSink \cup {Unset}) /\ Len(<<>>) = 0
    OBVIOUS
  <2>2. MaxPackets \in Nat /\ 0 \in 0..MaxPackets
    BY StreamAssumption
  <2>3. status \in [Sink -> {"new", "open", "refused", "closed"}]
    OBVIOUS
  <2>4. i \in 0..Len(packetSinks) + 1 /\ j \in 0..Len(frameSinks) + 1
    BY <2>1
  <2> QED BY <2>1, <2>2, <2>3, <2>4 DEF StreamTypeOK, NoPacket
<1>3. ThreadInv /\ FlagInv /\ DestroyedInv /\ SlotsInv
  BY SessionAssumption
  DEF ThreadInv, FlagInv, DestroyedInv, SlotsInv, StartLabels, LoopLabels, StopLabels,
      JoinedLabels, Destroyable
<1>4. CountInv
  <2>1. Added = {}
    BY DEF Added, Contains
  <2> QED BY <2>1, FS_EmptySet DEF CountInv
<1>5. IndexInv /\ DataInv
  BY DEF IndexInv, DataInv, Follows, Decoding, NoPacket
<1>6. OpenInv
  BY
  DEF OpenInv, DecoderOpen, RecorderOpen, FramesOpen, OpenFrameSinks, Decoding, Recording,
      Pushes, Sink
<1>7. TypeOK
  <2>1. flags \in [Flag -> {"unset", "set", "clear"}]
    OBVIOUS
  <2>2. options \subseteq Option /\ made \subseteq Flag /\ destroyed \subseteq Flag
    OBVIOUS
  <2>3. zeroed \in BOOLEAN /\ fileThread \in BOOLEAN /\ shut \in BOOLEAN
    OBVIOUS
  <2>4. events \in 0..1
    OBVIOUS
  <2> QED BY <1>1, <1>2, <2>1, <2>2, <2>3, <2>4 DEF TypeOK
<1> QED BY <1>3, <1>4, <1>5, <1>6, <1>7 DEF SessionInv

\* A step keeps the invariant.
LEMMA SessionNext == SessionInv /\ [Next]_vars => SessionInv'
<1> SUFFICES ASSUME SessionInv, [Next]_vars PROVE SessionInv'
  OBVIOUS
<1>1. CASE StreamRuns \/ StreamReceives
  <2>1. OpenInv'
    <3>1. CASE CallUnset
      BY <1>1, <3>1, StraysStream DEF CallUnset, OpenInv
    <3>2. CASE ~CallUnset
      BY <1>1, <3>2, StraysStream, DecoderStream, RecorderStream, FramesStream DEF OpenInv
    <3> QED BY <3>1, <3>2
  <2> QED BY <1>1, <2>1, TypeStream, ControlStream, IndexStream, DataStream DEF SessionInv
<1>2. CASE StreamEnds
  BY <1>2, LastStep
<1>3. CASE CallerStep \/ ClientStep
  BY <1>3, TypeCaller, ThreadCaller, FlagCaller, DestroyedCaller, SlotsCaller,
     CountCaller, IndexCaller, DataCaller, OpenCaller DEF SessionInv
<1>4. CASE UNCHANGED vars
  <2>1. TypeOK' /\ ThreadInv' /\ FlagInv' /\ DestroyedInv'
    BY <1>4
    DEF SessionInv, vars, stream, session, TypeOK, StreamTypeOK, ThreadInv, FlagInv,
        DestroyedInv, Destroyed
  <2>2. SlotsInv' /\ CountInv' /\ IndexInv' /\ DataInv'
    BY <1>4
    DEF SessionInv, vars, stream, session, SlotsInv, CountInv, Added, IndexInv, DataInv,
        Follows, Decoding
  <2>3. OpenInv'
    BY <1>4
    DEF SessionInv, vars, stream, OpenInv, DecoderOpen, RecorderOpen, FramesOpen,
        OpenFrameSinks, Decoding, Recording
  <2> QED BY <2>1, <2>2, <2>3 DEF SessionInv
<1> QED BY <1>1, <1>2, <1>3, <1>4 DEF Next

\* The inductive invariant of a session holds, for any number of packets and of slots, and
\* any sinks of the client.
THEOREM SessionInvariance == Spec => []SessionInv
BY Initial, SessionNext, PTL DEF Spec

\* The codec is sent every packet once and in order, each config packet in front of the data
\* it configures, and nothing stays pending (stream.c, push_packet_to_sinks and
\* stream_recv_packet; decoder.c).
THEOREM DecodedStream == Spec => []DecoderGetsTheStream
<1>1. SessionInv => DecoderGetsTheStream
  <2> SUFFICES ASSUME SessionInv PROVE DecoderGetsTheStream
    OBVIOUS
  <2>1. decoded = [n \in 1..Len(decoded) |-> n]
    BY StreamTypes DEF SessionInv, DataInv, Packets
  <2> QED BY <2>1 DEF SessionInv, DataInv, DecoderGetsTheStream
<1> QED BY <1>1, SessionInvariance, PTL

\* A sink is pushed to and closed only while it is open, and is closed in the end, whatever
\* fails: the sinks of the client excepted (stream.c and decoder.c).
THEOREM OpenSinksOnly == Spec => []SinksAreUsedWhileOpen
<1>1. SessionInv => SinksAreUsedWhileOpen
  BY
  DEF SessionInv, OpenInv, DecoderOpen, RecorderOpen, FramesOpen, OpenFrameSinks, Pushes,
      Sink, SinksAreUsedWhileOpen
<1> QED BY <1>1, SessionInvariance, PTL

\* What the stream thread calls is destroyed only after the thread, and everything that was
\* started is destroyed before the session is freed (scrcpy.c, scrcpy_stop).
THEOREM OrderlyEnd == Spec => []NothingOutlivesTheSession
<1>1. SessionInv => NothingOutlivesTheSession
  <2> SUFFICES ASSUME SessionInv PROVE NothingOutlivesTheSession
    OBVIOUS
  <2>1. destroyed # {} => thread \in {"none", "done"}
    BY DEF SessionInv, DestroyedInv
  <2>2. at = "ended" => thread \in {"none", "done"}
    BY DEF SessionInv, ThreadInv, JoinedLabels
  <2>3. at = "ended" => made \ {"server_started", "stream_started"} = destroyed
    <3>1. made \subseteq Flag /\ DestroyedInv
      BY DEF SessionInv, TypeOK
    <3> QED BY <3>1 DEF DestroyedInv, Destroyed, Destroyable, Flag, JoinedLabels
  <2> QED BY <2>1, <2>2, <2>3 DEF SessionInv, NothingOutlivesTheSession
<1> QED BY <1>1, SessionInvariance, PTL

\* If the memory of the session was zero, scrcpy_stop touches nothing that was not started,
\* and only a sink that is added while the decoder runs can crash it (scrcpy.c, decoder.c).
THEOREM ZeroMemory == Spec => []ZeroMemoryIsSafe
<1>1. SessionInv => ZeroMemoryIsSafe
  BY StreamTypes DEF SessionInv, ThreadInv, SlotsInv, ZeroMemoryIsSafe
<1> QED BY <1>1, SessionInvariance, PTL

-------------------------------------------------------------------------------
(* The server: its invariant.  What was opened is closed or removed exactly   *)
(* once, whatever fails and whenever the server dies, and no other process is *)
(* killed.                                                                    *)

\* Where the main thread is: before the server socket is listened on, from there to
\* the creation of the thread, connected or connecting, and stopping.
Early == {"start", "reverse", "listen", "unreverse", "forward"}
Launching == {"execute", "createThread", "error"}
Using == {"connect", "connectControl", "closeServer", "untunnel", "run", "stop"}
Waiting == {"disable", "watch", "timedWait", "kill", "join", "joinUnwarned", "stopped"}

\* The tunnel that is in use, if any: no other one is left but those adb failed to remove.
Current == IF tunnel_forward THEN ForwardTunnel(port) ELSE ReverseTunnel
InUse ==
  IF \/ ui \in {"listen", "unreverse", "closeServer", "untunnel", "disable"} \cup Launching
     \/ ui \in {"connect", "connectControl", "stop", "disconnect"} /\ tunnel_enabled
  THEN {Current} ELSE {}
TunnelInv ==
  /\ tunnels \subseteq unremoved \cup InUse
  /\ ui \in {"start", "reverse", "listen", "unreverse"} => ~tunnel_forward
  /\ ui = "forward" => tunnel_forward
  /\ ui \in {"connect", "connectControl"} => tunnel_enabled

Sockets == [{"server", "video", "control"} -> {"invalid", "open", "closed", "error"}]

\* The server socket is closed by whoever set the flag; the two others are opened
\* by the main thread, that closes them when it disconnects.
SocketInv ==
  /\ sockets["server"] =
       IF tunnel_forward \/ ui \in Early \/ (ui = "failed" /\ ~server_socket_closed) THEN "invalid"
       ELSE IF server_socket_closed THEN "closed" ELSE "open"
  /\ server_socket_closed => ~tunnel_forward /\ ui \notin Early \cup Launching
  /\ ui \in {"disconnect"} \cup Waiting => sockets["server"] # "open"
  /\ ui = "closeServer" => ~tunnel_forward
  /\ \A s \in {"video", "control"} :
       /\ ui \in Early \cup Launching \cup {"failed", "connect"} => sockets[s] = "invalid"
       /\ ui \in Using \cup {"disconnect"} => sockets[s] \in {"invalid", "open"}
       /\ ui \in Waiting => sockets[s] \in {"invalid", "closed"}

\* The process is killed only by the main thread, that reaps it last; the
\* wait-server thread waits for it from when it exists.
ProcessInv ==
  /\ ui \in Early \cup {"execute"} => process = "none"
  /\ ui \in {"error", "failed"} => process \in {"none", "reaped"}
  /\ ui \in {"createThread", "disconnect", "disable", "watch", "timedWait", "kill", "joinUnwarned"}
              \cup Using
       => process \in {"running", "exited"}
  /\ waiter = "none" <=> ui \in Early \cup Launching \cup {"failed"}
  /\ process_terminated => waiter \in {"close", "done"}
  /\ waiter \in {"tell", "close", "done"} /\ ui # "stopped" => process = "exited"

ServerInv == ServerTypeOK /\ TunnelInv /\ SocketInv /\ ProcessInv

-------------------------------------------------------------------------------
(* The steps of the server. *)

\* The ports that are tried are in the range, and so are the tunnels to them.
LEMMA TriedPorts ==
  /\ FirstPort \in Ports
  /\ \A p \in Ports : p < LastPort => p + 1 \in Ports
  /\ ReverseTunnel \in Tunnel /\ \A p \in Ports : ForwardTunnel(p) \in Tunnel
BY ServerAssumption DEF Ports, Tunnel

\* Nothing is open at the start.
LEMMA ServerStarts == ServerInitial => ServerInv
<1> SUFFICES ASSUME ServerInitial PROVE ServerInv
  OBVIOUS
<1>1. port \in Ports
  BY TriedPorts DEF ServerInitial
<1>2. sockets \in [{"server", "video", "control"} -> {"invalid", "open", "closed", "error"}]
  BY DEF ServerInitial
<1>3. ServerTypeOK
  BY <1>1, <1>2 DEF ServerInitial, ServerTypeOK
<1>4. TunnelInv /\ ProcessInv
  BY DEF ServerInitial, TunnelInv, ProcessInv, Early, Launching, Using
<1>5. SocketInv
  BY DEF ServerInitial, SocketInv, Early, Launching, Using, Waiting
<1> QED BY <1>3, <1>4, <1>5 DEF ServerInv

\* What the sockets may become is a state of the sockets.
LEMMA SocketsType ==
  ASSUME ServerTypeOK
  PROVE  /\ \A n \in {"server", "video", "control"} :
              [sockets EXCEPT ![n] = "open"] \in Sockets
         /\ \A names : Closed(names) \in Sockets
BY DEF ServerTypeOK, Sockets, Closed

\* Every step keeps the types: the port stays in the range.
LEMMA ServerTypeNext == ServerInv /\ [ServerNext]_server => ServerTypeOK'
<1> SUFFICES ASSUME ServerTypeOK, [ServerNext]_server PROVE ServerTypeOK'
  BY DEF ServerInv
<1> USE DEF tunnel, net
<1>1. sockets' \in Sockets
  <2>1. CASE Listen \/ ConnectVideo \/ ConnectControl
    BY <2>1, SocketsType DEF Listen, ConnectVideo, ConnectControl, ServerTypeOK, Sockets
  <2>2. CASE StartError \/ CloseListening \/ StopListening \/ Disconnect \/ Unblock
    BY <2>2, SocketsType
    DEF StartError, CloseListening, StopListening, Disconnect, Unblock, CloseServerSocket,
        ServerTypeOK, Sockets
  <2>3. CASE UNCHANGED sockets
    BY <2>3 DEF ServerTypeOK, Sockets
  <2> QED BY <2>1, <2>2, <2>3
             DEF ServerNext, StartingServer, Connecting, StoppingServer, WaiterStep,
                 Terminated, server, Push, EnableReverse, DisableReverse, EnableForward,
                 Execute, CreateThread, Connected, GivesUp, StopAsked, StopTunnel, Watch,
                 WatchdogExpires, SpuriousWakeup, Kill, Join, ProcessExits, WaitProcess,
                 TellTerminated
<1>2. port' \in Ports
  BY TriedPorts
  DEF ServerTypeOK, ServerNext, StartingServer, Connecting, StoppingServer, WaiterStep,
      Terminated, server, Push, TryForward, EnableReverse, Listen, DisableReverse,
      HasNextPort, EnableForward, Execute, CreateThread, StartError, DisableTunnel,
      ConnectVideo, ConnectControl, CloseListening, Connected, GivesUp, StopAsked,
      StopListening, Disconnect, StopTunnel, Watch, WatchdogExpires, SpuriousWakeup, Kill,
      Join, ProcessExits, WaitProcess, TellTerminated, Unblock
<1>3. tunnels' \subseteq Tunnel /\ unremoved' \subseteq Tunnel
  <2>1. CASE EnableReverse \/ EnableForward
    BY <2>1, TriedPorts DEF EnableReverse, EnableForward, TunnelAdded, ServerTypeOK
  <2>2. CASE DisableReverse \/ StartError \/ Connected \/ StopTunnel
    BY <2>2, TriedPorts
    DEF DisableReverse, StartError, Connected, StopTunnel, DisableTunnel, TunnelRemoved,
        ServerTypeOK
  <2>3. CASE UNCHANGED <<tunnels, unremoved>>
    BY <2>3 DEF ServerTypeOK
  <2> QED BY <2>1, <2>2, <2>3
             DEF ServerNext, StartingServer, Connecting, StoppingServer, WaiterStep,
                 Terminated, server, Push, Listen, Execute, CreateThread, ConnectVideo,
                 ConnectControl, CloseListening, GivesUp, StopAsked, StopListening,
                 Disconnect, Watch, WatchdogExpires, SpuriousWakeup, Kill, Join,
                 ProcessExits, WaitProcess, TellTerminated, Unblock
<1> DEFINE Labels == Early \cup Launching \cup Using \cup Waiting \cup {"failed", "disconnect"}
<1>4. ui' \in Labels
  <2> USE DEF Early, Launching, Using, Waiting
  <2>0. ui \in Labels
    BY DEF ServerTypeOK
  <2> USE <2>0
  <2>1. CASE Push \/ EnableReverse \/ Listen \/ DisableReverse \/ EnableForward
    BY <2>1 DEF Push, TryForward, EnableReverse, Listen, DisableReverse, EnableForward
  <2>2. CASE Execute \/ CreateThread \/ StartError
    BY <2>2 DEF Execute, CreateThread, StartError, DisableTunnel
  <2>3. CASE ConnectVideo \/ ConnectControl \/ CloseListening \/ Connected
    BY <2>3
    DEF ConnectVideo, ConnectControl, CloseListening, CloseServerSocket, Connected,
        DisableTunnel
  <2>4. CASE GivesUp \/ StopAsked \/ StopListening \/ Disconnect \/ StopTunnel
    BY <2>4
    DEF GivesUp, StopAsked, StopListening, CloseServerSocket, Disconnect, StopTunnel,
        DisableTunnel
  <2>5. CASE Watch \/ WatchdogExpires \/ SpuriousWakeup \/ Kill \/ Join
    BY <2>5 DEF Watch, WatchdogExpires, SpuriousWakeup, Kill, Join
  <2>6. CASE ProcessExits \/ WaitProcess \/ TellTerminated
    BY <2>6 DEF ProcessExits, WaitProcess, TellTerminated
  <2>7. CASE Unblock
    BY <2>7 DEF Unblock, CloseServerSocket
  <2>8. CASE UNCHANGED server
    BY <2>8 DEF server
  <2> QED BY <2>1, <2>2, <2>3, <2>4, <2>5, <2>6, <2>7, <2>8
             DEF ServerNext, StartingServer, Connecting, StoppingServer, WaiterStep,
                 Terminated
<1>5. /\ waiter' \in {"none", "wait", "tell", "close", "done"}
      /\ process' \in {"none", "running", "killed", "exited", "reaped"}
  <2>0. /\ waiter \in {"none", "wait", "tell", "close", "done"}
        /\ process \in {"none", "running", "killed", "exited", "reaped"}
    BY DEF ServerTypeOK
  <2> USE <2>0
  <2>1. CASE Push \/ EnableReverse \/ Listen \/ DisableReverse \/ EnableForward
    BY <2>1 DEF Push, TryForward, EnableReverse, Listen, DisableReverse, EnableForward
  <2>2. CASE Execute \/ CreateThread \/ StartError
    BY <2>2 DEF Execute, CreateThread, StartError, DisableTunnel
  <2>3. CASE ConnectVideo \/ ConnectControl \/ CloseListening \/ Connected
    BY <2>3
    DEF ConnectVideo, ConnectControl, CloseListening, CloseServerSocket, Connected,
        DisableTunnel
  <2>4. CASE GivesUp \/ StopAsked \/ StopListening \/ Disconnect \/ StopTunnel
    BY <2>4
    DEF GivesUp, StopAsked, StopListening, CloseServerSocket, Disconnect, StopTunnel,
        DisableTunnel
  <2>5. CASE Watch \/ WatchdogExpires \/ SpuriousWakeup \/ Kill \/ Join
    BY <2>5 DEF Watch, WatchdogExpires, SpuriousWakeup, Kill, Join
  <2>6. CASE ProcessExits \/ WaitProcess \/ TellTerminated
    BY <2>6 DEF ProcessExits, WaitProcess, TellTerminated
  <2>7. CASE Unblock
    BY <2>7 DEF Unblock, CloseServerSocket
  <2>8. CASE UNCHANGED server
    BY <2>8 DEF server
  <2> QED BY <2>1, <2>2, <2>3, <2>4, <2>5, <2>6, <2>7, <2>8
             DEF ServerNext, StartingServer, Connecting, StoppingServer, WaiterStep,
                 Terminated
<1>6. /\ tunnel_forward' \in BOOLEAN /\ tunnel_enabled' \in BOOLEAN
      /\ server_socket_closed' \in BOOLEAN /\ process_terminated' \in BOOLEAN
  <2>0. /\ tunnel_forward \in BOOLEAN /\ tunnel_enabled \in BOOLEAN
        /\ server_socket_closed \in BOOLEAN /\ process_terminated \in BOOLEAN
    BY DEF ServerTypeOK
  <2> USE <2>0
  <2>1. CASE Push \/ EnableReverse \/ Listen \/ DisableReverse \/ EnableForward
    BY <2>1 DEF Push, TryForward, EnableReverse, Listen, DisableReverse, EnableForward
  <2>2. CASE Execute \/ CreateThread \/ StartError
    BY <2>2 DEF Execute, CreateThread, StartError, DisableTunnel
  <2>3. CASE ConnectVideo \/ ConnectControl \/ CloseListening \/ Connected
    BY <2>3
    DEF ConnectVideo, ConnectControl, CloseListening, CloseServerSocket, Connected,
        DisableTunnel
  <2>4. CASE GivesUp \/ StopAsked \/ StopListening \/ Disconnect \/ StopTunnel
    BY <2>4
    DEF GivesUp, StopAsked, StopListening, CloseServerSocket, Disconnect, StopTunnel,
        DisableTunnel
  <2>5. CASE Watch \/ WatchdogExpires \/ SpuriousWakeup \/ Kill \/ Join
    BY <2>5 DEF Watch, WatchdogExpires, SpuriousWakeup, Kill, Join
  <2>6. CASE ProcessExits \/ WaitProcess \/ TellTerminated
    BY <2>6 DEF ProcessExits, WaitProcess, TellTerminated
  <2>7. CASE Unblock
    BY <2>7 DEF Unblock, CloseServerSocket
  <2>8. CASE UNCHANGED server
    BY <2>8 DEF server
  <2> QED BY <2>1, <2>2, <2>3, <2>4, <2>5, <2>6, <2>7, <2>8
             DEF ServerNext, StartingServer, Connecting, StoppingServer, WaiterStep,
                 Terminated
<1> QED BY <1>1, <1>2, <1>3, <1>4, <1>5, <1>6
           DEF Sockets, ServerTypeOK, Early, Launching, Using, Waiting

\* Every step keeps one tunnel at most, until it is removed.
LEMMA TunnelNext == ServerInv /\ [ServerNext]_server => TunnelInv'
<1> SUFFICES ASSUME ServerTypeOK, TunnelInv, [ServerNext]_server PROVE TunnelInv'
  BY DEF ServerInv
<1> USE DEF ServerTypeOK, TunnelInv, InUse, Current, Early, Launching, tunnel, net
<1>1. CASE Push \/ EnableReverse \/ Listen \/ DisableReverse \/ EnableForward
  BY <1>1
  DEF Push, TryForward, EnableReverse, TunnelAdded, Listen, DisableReverse, HasNextPort,
      TunnelRemoved, EnableForward
<1>2. CASE Execute \/ CreateThread \/ StartError
  BY <1>2 DEF Execute, CreateThread, StartError, Closed, DisableTunnel, TunnelRemoved
<1>3. CASE ConnectVideo \/ ConnectControl \/ CloseListening \/ Connected
  BY <1>3
  DEF ConnectVideo, CanConnect, ConnectControl, CloseListening, CloseServerSocket, Closed,
      Connected, DisableTunnel, TunnelRemoved
<1>4. CASE GivesUp \/ StopAsked \/ StopListening \/ Disconnect \/ StopTunnel
  BY <1>4
  DEF GivesUp, StopAsked, StopListening, CloseServerSocket, Closed, Disconnect,
      StopTunnel, DisableTunnel, TunnelRemoved
<1>5. CASE Watch \/ WatchdogExpires \/ SpuriousWakeup \/ Kill \/ Join
  BY <1>5 DEF Watch, WatchdogExpires, SpuriousWakeup, Kill, Join
<1>6. CASE ProcessExits \/ WaitProcess \/ TellTerminated \/ Unblock
  BY <1>6
  DEF ProcessExits, WaitProcess, TellTerminated, Unblock, CloseServerSocket, Closed
<1>7. CASE UNCHANGED server
  BY <1>7 DEF server
<1> QED BY <1>1, <1>2, <1>3, <1>4, <1>5, <1>6, <1>7
           DEF ServerNext, StartingServer, Connecting, StoppingServer, WaiterStep,
               Terminated

\* Every step keeps who closes which socket.
LEMMA SocketNext == ServerInv /\ [ServerNext]_server => SocketInv'
<1> SUFFICES ASSUME ServerTypeOK, TunnelInv, SocketInv, ProcessInv, [ServerNext]_server PROVE SocketInv'
  BY DEF ServerInv
<1> USE
            DEF ServerTypeOK, TunnelInv, ProcessInv, SocketInv, Early, Launching, Using,
                Waiting, tunnel, net
<1>1. CASE Push \/ EnableReverse \/ Listen \/ DisableReverse \/ EnableForward
  BY <1>1
  DEF Push, TryForward, EnableReverse, TunnelAdded, Listen, DisableReverse, HasNextPort,
      TunnelRemoved, EnableForward
<1>2. CASE Execute \/ CreateThread \/ StartError
  BY <1>2 DEF Execute, CreateThread, StartError, Closed, DisableTunnel, TunnelRemoved
<1>3. CASE ConnectVideo \/ ConnectControl \/ CloseListening \/ Connected
  BY <1>3
  DEF ConnectVideo, CanConnect, ConnectControl, CloseListening, CloseServerSocket, Closed,
      Connected, DisableTunnel, TunnelRemoved
<1>4. CASE GivesUp \/ StopAsked \/ StopListening \/ Disconnect \/ StopTunnel
  BY <1>4
  DEF GivesUp, StopAsked, StopListening, CloseServerSocket, Closed, Disconnect,
      StopTunnel, DisableTunnel, TunnelRemoved
<1>5. CASE Watch \/ WatchdogExpires \/ SpuriousWakeup \/ Kill \/ Join
  BY <1>5 DEF Watch, WatchdogExpires, SpuriousWakeup, Kill, Join
<1>6. CASE ProcessExits \/ WaitProcess \/ TellTerminated \/ Unblock
  BY <1>6
  DEF ProcessExits, WaitProcess, TellTerminated, Unblock, CloseServerSocket, Closed
<1>7. CASE UNCHANGED server
  BY <1>7 DEF server
<1> QED BY <1>1, <1>2, <1>3, <1>4, <1>5, <1>6, <1>7
           DEF ServerNext, StartingServer, Connecting, StoppingServer, WaiterStep,
               Terminated

\* Every step keeps what the threads know of the process.
LEMMA ProcessNext == ServerInv /\ [ServerNext]_server => ProcessInv'
<1> SUFFICES ASSUME ServerTypeOK, ProcessInv, [ServerNext]_server PROVE ProcessInv'
  BY DEF ServerInv
<1> USE DEF ServerTypeOK, ProcessInv, Early, Launching, Using, Waiting, tunnel, net
<1>1. CASE Push \/ EnableReverse \/ Listen \/ DisableReverse \/ EnableForward
  BY <1>1
  DEF Push, TryForward, EnableReverse, TunnelAdded, Listen, DisableReverse, HasNextPort,
      TunnelRemoved, EnableForward
<1>2. CASE Execute \/ CreateThread \/ StartError
  BY <1>2 DEF Execute, CreateThread, StartError, Closed, DisableTunnel, TunnelRemoved
<1>3. CASE ConnectVideo \/ ConnectControl \/ CloseListening \/ Connected
  BY <1>3
  DEF ConnectVideo, CanConnect, ConnectControl, CloseListening, CloseServerSocket, Closed,
      Connected, DisableTunnel, TunnelRemoved
<1>4. CASE GivesUp \/ StopAsked \/ StopListening \/ Disconnect \/ StopTunnel
  BY <1>4
  DEF GivesUp, StopAsked, StopListening, CloseServerSocket, Closed, Disconnect,
      StopTunnel, DisableTunnel, TunnelRemoved
<1>5. CASE Watch \/ WatchdogExpires \/ SpuriousWakeup \/ Kill \/ Join
  BY <1>5 DEF Watch, WatchdogExpires, SpuriousWakeup, Kill, Join
<1>6. CASE ProcessExits \/ WaitProcess \/ TellTerminated \/ Unblock
  BY <1>6
  DEF ProcessExits, WaitProcess, TellTerminated, Unblock, CloseServerSocket, Closed
<1>7. CASE UNCHANGED server
  BY <1>7 DEF server
<1> QED BY <1>1, <1>2, <1>3, <1>4, <1>5, <1>6, <1>7
           DEF ServerNext, StartingServer, Connecting, StoppingServer, WaiterStep,
               Terminated

-------------------------------------------------------------------------------
(* The theorems about the server. *)

\* The inductive invariant holds, for any range of ports.
THEOREM ServerInvariance == ServerSpec => []ServerInv
<1>1. ServerInv /\ [ServerNext]_server => ServerInv'
  BY ServerTypeNext, TunnelNext, SocketNext, ProcessNext DEF ServerInv
<1> QED BY <1>1, ServerStarts, PTL DEF ServerSpec

\* The server socket is closed once, by either thread, the others by the main thread,
\* and no tunnel is left, whatever fails (server.c, server_start and server_stop).
THEOREM ReleasedResources == ServerSpec => []ResourcesAreReleased
<1>1. ServerInv => SocketsAreClosedOnce
  BY
  DEF ServerInv, ServerTypeOK, SocketInv, SocketsAreClosedOnce, Early, Launching, Using,
      Waiting
<1>2. ServerInv => NoTunnelIsLeft
  BY DEF ServerInv, TunnelInv, NoTunnelIsLeft, InUse, Launching
<1>3. ServerInv => ResourcesAreReleased
  BY <1>1, <1>2 DEF ServerInv, ResourcesAreReleased
<1> QED BY <1>3, ServerInvariance, PTL

\* What server_stop kills is the server: it exists and is not reaped.
THEOREM OwnProcess == ServerSpec => []KillsItsOwnProcess
<1>1. ServerInv => KillsItsOwnProcess
  BY DEF ServerInv, ProcessInv, KillsItsOwnProcess
<1> QED BY <1>1, ServerInvariance, PTL

-------------------------------------------------------------------------------
(* The sizes of the window (screen.c). *)

\* A frame is not empty.
FrameSizes == [width : Nat \ {0}, height : Nat \ {0}]

\* The minimum of two numbers.
LEMMA MinOfTwo ==
  ASSUME NEW a \in Int, NEW b \in Int
  PROVE  Min({a, b}) \in {a, b} /\ Min({a, b}) <= a /\ Min({a, b}) <= b
<1>1. \E m \in {a, b} : \A n \in {a, b} : m <= n
  <2>1. CASE a <= b
    BY <2>1
  <2>2. CASE ~(a <= b)
    BY <2>2
  <2> QED BY <2>1, <2>2
<1> QED BY <1>1 DEF Min

\* A product of naturals is one, and grows with them.
LEMMA Products ==
  ASSUME NEW a \in Nat, NEW b \in Nat, NEW c \in Nat
  PROVE  /\ a * b \in Nat /\ a * b = b * a
         /\ a <= b => a * c <= b * c
         /\ c # 0 /\ a * c < b * c => a < b
OBVIOUS

\* What is divided is not less than the quotient times the divisor.
LEMMA Quotient ==
  ASSUME NEW a \in Nat, NEW d \in Nat \ {0}, NEW b \in Nat
  PROVE  /\ a \div d \in Nat
         /\ a <= b * d => a \div d <= b
         /\ (b * d) \div d = b
<1> DEFINE q == a \div d
<1>1. q \in Nat /\ d * q <= a
  OBVIOUS
<1>2. ASSUME a <= b * d PROVE q <= b
  <2> SUFFICES ASSUME b + 1 <= q PROVE FALSE
    BY <1>1
  <2> HIDE DEF q
  <2>1. (b + 1) * d <= q * d /\ q * d = d * q
    BY <1>1, Products
  <2>2. (b + 1) * d = b * d + d
    OBVIOUS
  <2> QED BY <1>1, <1>2, <2>1, <2>2
<1>3. (b * d) \div d = b
  OBVIOUS
<1> QED BY <1>1, <1>2, <1>3

\* Cropping keeps the ratio of the content, and never enlarges (screen.c:190).
LEMMA CropFits ==
  ASSUME NEW size \in Sizes, NEW cs \in FrameSizes
  PROVE  /\ Crop(size, cs) \in Sizes /\ is_optimal_size(Crop(size, cs), cs)
         /\ Crop(size, cs).width <= size.width /\ Crop(size, cs).height <= size.height
<1> DEFINE w == size.width
           h == size.height
           cw == cs.width
           ch == cs.height
<1>1. w \in Nat /\ h \in Nat /\ cw \in Nat \ {0} /\ ch \in Nat \ {0}
  BY DEF Sizes, FrameSizes
<1>2. /\ cw * h \in Nat /\ ch * w \in Nat /\ cw * h = h * cw /\ ch * w = w * ch
  BY <1>1, Products
<1>3. size = [width |-> w, height |-> h]
  BY DEF Sizes
<1>4. CASE cw * h > ch * w
  <2>1. Crop(size, cs) = [width |-> w, height |-> (ch * w) \div cw]
    BY <1>3, <1>4 DEF Crop
  <2> HIDE DEF w, h, cw, ch
  <2>2. (ch * w) \div cw \in Nat /\ (ch * w) \div cw <= h
    BY <1>1, <1>2, <1>4, Quotient
  <2>3. ch * w = w * ch
    BY <1>2
  <2> QED BY <1>1, <2>1, <2>2, <2>3 DEF Sizes, is_optimal_size, w, h, cw, ch
<1>5. CASE ~(cw * h > ch * w)
  <2>1. Crop(size, cs) = [width |-> (cw * h) \div ch, height |-> h]
    BY <1>3, <1>5 DEF Crop
  <2> HIDE DEF w, h, cw, ch
  <2>2. (cw * h) \div ch \in Nat /\ (cw * h) \div ch <= w
    BY <1>1, <1>2, <1>5, Quotient
  <2>3. cw * h = h * cw
    BY <1>2
  <2> QED BY <1>1, <2>1, <2>2, <2>3 DEF Sizes, is_optimal_size, w, h, cw, ch
<1> QED BY <1>4, <1>5

\* The optimal size has the ratio of the content, and is never larger than the
\* current one (screen.c, get_optimal_size).
LEMMA OptimalFits ==
  ASSUME NEW size \in Sizes, NEW cs \in FrameSizes
  PROVE  /\ get_optimal_size(size, cs) \in Sizes
         /\ is_optimal_size(get_optimal_size(size, cs), cs)
         /\ get_optimal_size(size, cs).width <= size.width
         /\ get_optimal_size(size, cs).height <= size.height
<1> DEFINE fit == Size(Min({size.width, Bounds.width}), Min({size.height, Bounds.height}))
<1>1. fit \in Sizes /\ fit.width <= size.width /\ fit.height <= size.height
  <2> DEFINE w == size.width
             h == size.height
             bw == Bounds.width
             bh == Bounds.height
  <2>1. w \in Nat /\ h \in Nat /\ bw \in Nat /\ bh \in Nat
    BY WindowAssumption DEF Sizes
  <2> HIDE DEF w, h, bw, bh
  <2>2. w \in Int /\ h \in Int /\ bw \in Int /\ bh \in Int
    BY <2>1
  <2>3. /\ Min({w, bw}) \in {w, bw} /\ Min({w, bw}) <= w
        /\ Min({h, bh}) \in {h, bh} /\ Min({h, bh}) <= h
    BY <2>2, MinOfTwo
  <2>4. Min({w, bw}) \in Nat /\ Min({h, bh}) \in Nat
    BY <2>1, <2>3
  <2> QED BY <2>3, <2>4 DEF Size, Sizes, w, h, bw, bh
<1>2. get_optimal_size(size, cs) = IF is_optimal_size(fit, cs) THEN fit ELSE Crop(fit, cs)
  BY DEF get_optimal_size
<1> HIDE DEF fit
<1>3. CASE is_optimal_size(fit, cs)
  BY <1>1, <1>2, <1>3
<1>4. CASE ~is_optimal_size(fit, cs)
  <2>1. /\ Crop(fit, cs) \in Sizes /\ is_optimal_size(Crop(fit, cs), cs)
        /\ Crop(fit, cs).width <= fit.width /\ Crop(fit, cs).height <= fit.height
    BY <1>1, CropFits
  <2>2. \A s \in Sizes : s.width \in Nat /\ s.height \in Nat
    BY DEF Sizes
  <2> QED BY <1>1, <1>2, <1>4, <2>1, <2>2
<1> QED BY <1>3, <1>4

\* The content has its own ratio.
LEMMA ContentIsOptimal ==
  ASSUME NEW cs \in FrameSizes
  PROVE  cs \in Sizes /\ is_optimal_size(cs, cs)
<1>1. cs.width \in Nat \ {0} /\ cs.height \in Nat \ {0} /\ cs \in Sizes
  BY DEF FrameSizes, Sizes
<1>2. cs.width * cs.height = cs.height * cs.width
  BY <1>1, Products
<1>3. (cs.width * cs.height) \div cs.width = cs.height
  BY <1>1, <1>2, Quotient
<1> QED BY <1>1, <1>3 DEF is_optimal_size

\* The window starts with the ratio of the content, unless the user asks for both
\* dimensions.
LEMMA InitialFits ==
  ASSUME NEW cs \in FrameSizes, NEW asked \in Sizes
  PROVE  /\ get_initial_optimal_size(cs, asked) \in Sizes
         /\ asked.width = 0 \/ asked.height = 0
              => is_optimal_size(get_initial_optimal_size(cs, asked), cs)
<1> DEFINE w == asked.width
           h == asked.height
           cw == cs.width
           ch == cs.height
<1>1. w \in Nat /\ h \in Nat /\ cw \in Nat \ {0} /\ ch \in Nat \ {0} /\ cs \in Sizes
  BY DEF Sizes, FrameSizes
<1>2. asked = [width |-> w, height |-> h]
  BY DEF Sizes
<1>3. CASE asked = Size(0, 0)
  BY <1>1, <1>3, OptimalFits DEF get_initial_optimal_size
<1>4. CASE asked # Size(0, 0) /\ w = 0
  <2>1. get_initial_optimal_size(cs, asked) = [width |-> (h * cw) \div ch, height |-> h]
    BY <1>2, <1>4 DEF get_initial_optimal_size
  <2> HIDE DEF w, h, cw, ch
  <2>2. (h * cw) \div ch \in Nat
    BY <1>1, Products, Quotient
  <2> QED BY <1>1, <2>1, <2>2 DEF Sizes, is_optimal_size, w, h, cw, ch
<1>5. CASE asked # Size(0, 0) /\ w # 0 /\ h = 0
  <2>1. get_initial_optimal_size(cs, asked) = [width |-> w, height |-> (w * ch) \div cw]
    BY <1>2, <1>5 DEF get_initial_optimal_size
  <2> HIDE DEF w, h, cw, ch
  <2>2. (w * ch) \div cw \in Nat
    BY <1>1, Products, Quotient
  <2> QED BY <1>1, <2>1, <2>2 DEF Sizes, is_optimal_size, w, h, cw, ch
<1>6. CASE asked # Size(0, 0) /\ w # 0 /\ h # 0
  BY <1>1, <1>6 DEF get_initial_optimal_size
<1> QED BY <1>3, <1>4, <1>5, <1>6

\* The content that is drawn has a size, maybe an empty one.
LEMMA DrawnRect ==
  ASSUME NEW ws \in Sizes, NEW cs \in FrameSizes
  PROVE  ContentRect(ws, cs) \in [x : Int, y : Int, w : Nat, h : Nat]
<1> DEFINE r == IF is_optimal_size(ws, cs) THEN ws ELSE Crop(ws, cs)
<1>1. r \in Sizes
  BY CropFits
<1>2. /\ ws.width \in Nat /\ ws.height \in Nat /\ r.width \in Nat /\ r.height \in Nat
  BY <1>1 DEF Sizes
<1>3. ContentRect(ws, cs) = [x |-> (ws.width - r.width) \div 2, y |-> (ws.height - r.height) \div 2,
                             w |-> r.width, h |-> r.height]
  BY DEF ContentRect
<1> HIDE DEF r
<1>4. (ws.width - r.width) \div 2 \in Int /\ (ws.height - r.height) \div 2 \in Int
  BY <1>2
<1> QED BY <1>2, <1>3, <1>4

-------------------------------------------------------------------------------
(* The invariant of the interface. *)

\* The sizes of the frame and of the content are not empty, and agree.
SizesInv ==
  /\ {frame_size, content_size, windowed_content_size} \subseteq FrameSizes
  /\ content_size = get_rotated_size(frame_size, rotation)
  /\ rect \in [x : Int, y : Int, w : Nat, h : Nat]

\* While no size is pending, the content is what it was when the window was windowed.
PendingInv ==
  /\ ~fullscreen /\ ~maximized => last_windowed = content_size
  /\ ~resize_pending => last_windowed = content_size
  /\ resize_pending /\ ~overridden =>
       (fullscreen \/ maximized) /\ windowed_content_size = last_windowed

\* The window has, or will have when it is windowed, the ratio of the content.
FitInv ==
  /\ ~fullscreen /\ sdl.shape = "normal" => sdl.size = sdl.windowed
  /\ sdl.own /\ ~resize_pending => is_optimal_size(sdl.windowed, content_size)

\* The content is drawn where the window shows it, until the window changes; nothing
\* is pressed before it is shown.
DrawnInv ==
  /\ ~has_frame => held = Nothing
  /\ ~has_frame \/ ~sdl.changed => rect = ContentRect(sdl.size, content_size)

\* What the device is owed by what the user holds.
DeviceKeys == {DeviceKey[key] : key \in DOMAIN DeviceKey}
Special == user.control /\ ~user.forward_all_clicks
OwedToMouse == held \in user.buttons /\ user.control /\ ~(Special /\ held \in DOMAIN ButtonKey)
OwedToModifier(mod) ==
  /\ mod \in Modifiers \ {"alt"} /\ user.control
  /\ ~is_shortcut_mod(mods \cup {mod})
  /\ mod \in mods \/ is_shortcut_mod(mods)
OwedToKey == held \in user.keys /\ user.control /\ ~is_shortcut_mod(mods) /\ Converted(held, mods)
OwedToShortcut ==
  /\ held \in user.keys /\ held \in DOMAIN DeviceKey /\ user.control
  /\ is_shortcut_mod(mods) /\ "shift" \notin mods
OwedToButton == held \in user.buttons /\ held \in DOMAIN ButtonKey /\ Special
Accounted(thing) ==
  \/ thing = "finger"
  \/ thing = "mouse" /\ OwedToMouse
  \/ OwedToModifier(thing)
  \/ thing = held /\ OwedToKey
  \/ OwedToShortcut /\ thing = DeviceKey[held]
  \/ OwedToButton /\ thing = ButtonKey[held]
OwedInv ==
  /\ \A thing \in owed : Accounted(thing)
  /\ vfinger_down <=> "finger" \in owed
  /\ held \in user.keys \cup user.buttons \cup {Nothing}

InterfaceInv ==
  /\ InterfaceTypeOK /\ SizesInv /\ PendingInv /\ FitInv /\ DrawnInv /\ OwedInv
  /\ NothingIsSentWithoutControl

\* What a step does to the window.
Operation ==
  \/ UNCHANGED window
  \/ \E size \in FrameSizes : NewFrame(size)
  \/ \E rot \in 0..3 : SetRotation(rot)
  \/ EnterFullscreen \/ LeaveFullscreen
  \/ has_frame /\ (ResizeToFit \/ ResizeToPixelPerfect)
  \/ HandleSizeChanged \/ HandleExposed \/ HandleMaximized \/ HandleRestored
  \/ Reshape("maximized", "maximized") \/ Reshape("normal", "restored")
  \/ \E size \in Sizes : Drag(size)

-------------------------------------------------------------------------------
(* The steps of the interface. *)

\* A user has and does what the assumption says.
LEMMA UserTypes ==
  ASSUME InterfaceTypeOK
  PROVE  /\ user.sizes \subseteq FrameSizes /\ user.rotations \subseteq 0..3
         /\ user.asked \subseteq Sizes /\ user.drags \subseteq Sizes
         /\ user.mods \subseteq Modifiers /\ user.buttons \subseteq Buttons
         /\ user.keys \cap (Modifiers \cup Buttons \cup {"mouse", "finger", Nothing}) = {}
         /\ user.keys \cap DeviceKeys = {} /\ Nothing \notin user.keys \cup user.buttons
BY InterfaceAssumption DEF InterfaceTypeOK, FrameSizes, DeviceKeys, Nothing, Buttons

\* A key or a button has at most one operation on the window.
LEMMA KeyOperates ==
  ASSUME rotation \in 0..3, has_frame, NEW key, NEW down, NEW repeat, NEW m, NEW before,
         ProcessKey(key, down, repeat, m, before)
  PROVE  Operation /\ UNCHANGED <<user, vfinger_down>>
<1>1. (rotation + 1) % 4 \in 0..3 /\ (rotation + 3) % 4 \in 0..3
  OBVIOUS
<1>2. UNCHANGED window \/ WindowShortcut(key, down, repeat, m)
  BY DEF ProcessKey, Shortcut
<1>3. CASE UNCHANGED window
  BY <1>3 DEF Operation, ProcessKey
<1>4. CASE WindowShortcut(key, down, repeat, m)
  BY <1>1, <1>4 DEF WindowShortcut, Operation, ProcessKey
<1> QED BY <1>2, <1>3, <1>4

\* So has a button.
LEMMA ButtonOperates ==
  ASSUME has_frame, NEW button, NEW down, NEW times, NEW outside,
         ProcessMouseButton(button, down, times, outside)
  PROVE  Operation /\ UNCHANGED <<user, mods>>
BY DEF ProcessMouseButton, Operation

\* Each step does one operation on the window, which is observed.
LEMMA StepOperates ==
  ASSUME InterfaceTypeOK, DrawnInv, InterfaceNext
  PROVE  Operation /\ Observe /\ user' = user /\ (has_frame \/ held' = held)
<1> DEFINE Done == Operation /\ Observe /\ user' = user /\ (has_frame \/ held' = held)
<1>1. CASE KeyboardStep
  <2>1. rotation \in 0..3
    BY DEF InterfaceTypeOK
  <2>2. ASSUME NEW key \in user.keys, PressKey(key) PROVE Done
    BY <2>1, <2>2, KeyOperates DEF PressKey
  <2>3. CASE RepeatKey \/ ReleaseKey
    <3>1. has_frame
      BY <2>3, UserTypes DEF RepeatKey, ReleaseKey, DrawnInv
    <3> QED BY <2>1, <2>3, <3>1, KeyOperates DEF RepeatKey, ReleaseKey
  <2>4. CASE TypeText
    BY <2>4 DEF TypeText, TextInput, Operation
  <2>5. ASSUME NEW mod \in user.mods, ChangeModifier(mod) PROVE Done
    BY <2>1, <2>5, KeyOperates DEF ChangeModifier
  <2> QED BY <1>1, <2>2, <2>3, <2>4, <2>5 DEF KeyboardStep
<1>2. CASE MouseStep
  <2>1. ASSUME NEW button \in user.buttons, PressButton(button) PROVE Done
    BY <2>1, ButtonOperates DEF PressButton
  <2>2. CASE ReleaseButton
    <3>1. has_frame
      BY <2>2, UserTypes DEF ReleaseButton, DrawnInv
    <3> QED BY <2>2, <3>1, ButtonOperates DEF ReleaseButton
  <2>3. CASE MoveMouse \/ Wheel \/ Touch
    BY <2>3
    DEF MoveMouse, ProcessMouseMotion, Wheel, ProcessMouseWheel, Touch, ProcessTouch,
        Operation, external
  <2> QED BY <1>2, <2>1, <2>2, <2>3 DEF MouseStep
<1>3. CASE WindowStep
  <2>1. CASE Reshape("maximized", "maximized") \/ Reshape("normal", "restored")
    BY <2>1 DEF Reshape, Operation, inputManager
  <2>2. CASE \E size \in user.drags : Drag(size)
    BY <2>2, UserTypes DEF Drag, Operation, inputManager
  <2>3. CASE \E size \in user.sizes : HandleNewFrame(size)
    BY <2>3, UserTypes DEF HandleNewFrame, Operation, external
  <2>4. CASE HandleWindowEvent
    BY <2>4 DEF HandleWindowEvent, Operation, external
  <2> QED BY <1>3, <2>1, <2>2, <2>3, <2>4 DEF WindowStep
<1> QED BY <1>1, <1>2, <1>3 DEF InterfaceNext

-------------------------------------------------------------------------------
(* What is done to the window of SDL. *)

\* A rotation swaps the two dimensions.
LEMMA RotatedSize ==
  ASSUME NEW size \in FrameSizes, NEW rot
  PROVE  get_rotated_size(size, rot) \in FrameSizes
BY DEF get_rotated_size, Size, FrameSizes

\* A window that is windowed gets the size that is asked for.  A maximized one keeps
\* its own, and gets the other when it is restored, if it gets it at all.
LEMMA ResizedWindow ==
  ASSUME NEW w \in SdlWindow, NEW size \in Sizes, NEW v \in Resized(w, size)
  PROVE  /\ v \in SdlWindow /\ v.shape = w.shape
         /\ w.shape = "normal" => v.size = size /\ v.windowed = size
         /\ v.own => v.windowed = size
         /\ ~v.changed => ~w.changed /\ v.size = w.size
<1>1. CASE w.shape = "normal"
  <2>1. v = [w EXCEPT !.size = size, !.windowed = size, !.own = TRUE,
                      !.changed = @ \/ size # w.size]
    BY <1>1 DEF Resized
  <2> QED BY <1>1, <2>1 DEF SdlWindow
<1>2. CASE w.shape # "normal"
  <2>1. v = [w EXCEPT !.windowed = size, !.own = TRUE] \/ v = [w EXCEPT !.own = FALSE]
    BY <1>2 DEF Resized
  <2> QED BY <1>2, <2>1 DEF SdlWindow
<1> QED BY <1>1, <1>2

\* A window that changes shape keeps the size it has when it is windowed.
LEMMA ShapedWindow ==
  ASSUME NEW w \in SdlWindow, NEW shape \in {"normal", "maximized"}, NEW v,
         v = Shaped(w, shape, TRUE) \/ v = Shaped(w, shape, FALSE)
  PROVE  /\ v \in SdlWindow /\ v.shape = shape /\ v.windowed = w.windowed /\ v.own = w.own
         /\ v = Shaped(w, shape, FALSE) /\ shape = "normal" => v.size = w.windowed
         /\ ~v.changed => ~w.changed /\ v.size = w.size
<1>1. ASSUME NEW size \in Sizes,
             v = [w EXCEPT !.shape = shape, !.size = size, !.changed = @ \/ size # w.size]
      PROVE  /\ v \in SdlWindow /\ v.shape = shape /\ v.windowed = w.windowed
             /\ v.own = w.own /\ v.size = size /\ (~v.changed => ~w.changed /\ v.size = w.size)
  BY <1>1 DEF SdlWindow
<1>2. FullSize \in Sizes /\ w.windowed \in Sizes
  BY WindowAssumption DEF SdlWindow
<1>3. CASE v = Shaped(w, shape, TRUE)
  BY <1>1, <1>2, <1>3 DEF Shaped
<1>4. CASE v = Shaped(w, shape, FALSE)
  BY <1>1, <1>2, <1>4 DEF Shaped
<1> QED BY <1>3, <1>4

\* The window is resized to a size that has the ratio of the new content.
LEMMA ResizedForNewContent ==
  ASSUME NEW w \in SdlWindow, NEW old \in FrameSizes, NEW new \in FrameSizes,
         NEW v \in ResizedForContent(w, old, new)
  PROVE  \E size \in Sizes : is_optimal_size(size, new) /\ v \in Resized(w, size)
<1> DEFINE ww == w.size.width
           wh == w.size.height
           ow == old.width
           oh == old.height
           nw == new.width
           nh == new.height
           scaled == Size((ww * nw) \div ow, (wh * nh) \div oh)
<1>1. /\ ww \in Nat /\ wh \in Nat /\ ow \in Nat \ {0} /\ oh \in Nat \ {0}
      /\ nw \in Nat /\ nh \in Nat
  BY DEF SdlWindow, Sizes, FrameSizes
<1>2. v \in Resized(w, get_optimal_size(scaled, new))
  BY DEF ResizedForContent
<1> HIDE DEF ww, wh, ow, oh, nw, nh
<1>3. (ww * nw) \div ow \in Nat /\ (wh * nh) \div oh \in Nat
  BY <1>1, Products, Quotient
<1>4. scaled \in Sizes
  BY <1>3 DEF Size, Sizes
<1> HIDE DEF scaled
<1> QED BY <1>2, <1>4, OptimalFits

\* What set_content_size does: it keeps the window consistent with its content, or
\* remembers that it has to.
LEMMA ContentSet ==
  ASSUME InterfaceTypeOK, SizesInv, FitInv, UNCHANGED <<fullscreen, maximized>>,
         NEW new \in FrameSizes, SetContentSize(new)
  PROVE  /\ content_size' = new /\ sdl' \in SdlWindow
         /\ resize_pending' \in BOOLEAN /\ windowed_content_size' \in FrameSizes
         /\ FitInv'
<1>1. sdl \in SdlWindow /\ {content_size, windowed_content_size} \subseteq FrameSizes
  BY DEF InterfaceTypeOK, SizesInv
<1>2. CASE ~fullscreen /\ ~maximized
  <2>1. sdl' \in ResizedForContent(sdl, content_size, new) /\ UNCHANGED pendingResize
    BY <1>2 DEF SetContentSize
  <2>2. PICK size \in Sizes : is_optimal_size(size, new) /\ sdl' \in Resized(sdl, size)
    BY <1>1, <2>1, ResizedForNewContent
  <2>3. /\ sdl' \in SdlWindow /\ sdl'.shape = sdl.shape
        /\ sdl.shape = "normal" => sdl'.size = size /\ sdl'.windowed = size
        /\ sdl'.own => sdl'.windowed = size
    BY <1>1, <2>2, ResizedWindow
  <2>4. content_size' = new
    BY DEF SetContentSize
  <2>5. FitInv'
    BY <2>2, <2>3, <2>4 DEF FitInv
  <2> QED BY <1>1, <2>1, <2>3, <2>4, <2>5 DEF InterfaceTypeOK, pendingResize
<1>3. CASE fullscreen \/ maximized
  BY <1>1, <1>3 DEF SetContentSize, FitInv
<1> QED BY <1>2, <1>3

\* What apply_pending_resize does.
LEMMA PendingApplied ==
  ASSUME SizesInv, NEW w \in SdlWindow, ApplyPendingResize(w), UNCHANGED content,
         ~fullscreen' /\ w.shape = "normal" => w.size = w.windowed,
         w.own /\ ~resize_pending => is_optimal_size(w.windowed, content_size)
  PROVE  /\ sdl' \in SdlWindow /\ resize_pending' = FALSE
         /\ windowed_content_size' = windowed_content_size
         /\ FitInv'
<1>1. {content_size, windowed_content_size} \subseteq FrameSizes /\ content_size' = content_size
  BY DEF SizesInv, content
<1>2. resize_pending' = FALSE /\ windowed_content_size' = windowed_content_size
  BY DEF ApplyPendingResize
<1>3. CASE resize_pending
  <2>1. sdl' \in ResizedForContent(w, windowed_content_size, content_size)
    BY <1>3 DEF ApplyPendingResize
  <2>2. PICK size \in Sizes : is_optimal_size(size, content_size) /\ sdl' \in Resized(w, size)
    BY <1>1, <2>1, ResizedForNewContent
  <2>3. /\ sdl' \in SdlWindow /\ sdl'.shape = w.shape
        /\ w.shape = "normal" => sdl'.size = size /\ sdl'.windowed = size
        /\ sdl'.own => sdl'.windowed = size
    BY <2>2, ResizedWindow
  <2> QED BY <1>1, <1>2, <2>2, <2>3 DEF FitInv
<1>4. CASE ~resize_pending
  <2>1. sdl' = w
    BY <1>4 DEF ApplyPendingResize
  <2> QED BY <1>1, <1>2, <1>4, <2>1 DEF FitInv
<1> QED BY <1>3, <1>4

\* An operation keeps the types, the agreement of the sizes and the window consistent.
LEMMA OperationKeepsTypes ==
  ASSUME InterfaceTypeOK, SizesInv, FitInv, Operation
  PROVE  /\ sdl' \in SdlWindow /\ FitInv'
         /\ {fullscreen', maximized', has_frame', resize_pending'} \subseteq BOOLEAN
         /\ windowed_content_size' \in FrameSizes /\ rotation' \in 0..3
         /\ frame_size' \in FrameSizes /\ content_size' = get_rotated_size(frame_size', rotation')
         /\ window_events' \in Seq({"maximized", "restored"})
<1> DEFINE Sized ==
             /\ windowed_content_size' \in FrameSizes /\ rotation' \in 0..3
             /\ frame_size' \in FrameSizes
             /\ content_size' = get_rotated_size(frame_size', rotation')
           Flags == {fullscreen', maximized', has_frame', resize_pending'} \subseteq BOOLEAN
           Events == window_events' \in Seq({"maximized", "restored"})
           Kept == sdl' \in SdlWindow /\ FitInv' /\ Flags /\ Sized /\ Events
<1> USE DEF content, pendingResize, belief
<1>1. /\ sdl \in SdlWindow /\ rotation \in 0..3
      /\ {fullscreen, maximized, has_frame, resize_pending} \subseteq BOOLEAN
      /\ window_events \in Seq({"maximized", "restored"})
      /\ {frame_size, content_size, windowed_content_size} \subseteq FrameSizes
      /\ content_size = get_rotated_size(frame_size, rotation)
  BY DEF InterfaceTypeOK, SizesInv
<1>2. /\ sdl.shape \in {"normal", "maximized"} /\ sdl.size \in Sizes /\ sdl.windowed \in Sizes
      /\ content_size \in Sizes
  BY <1>1, ContentIsOptimal DEF SdlWindow
<1>3. CASE UNCHANGED window
  BY <1>1, <1>3 DEF window, FitInv
<1>4. ASSUME NEW size \in FrameSizes, NewFrame(size) PROVE Kept
  <2>1. get_rotated_size(size, rotation) \in FrameSizes
    BY RotatedSize
  <2>2. CASE size = frame_size
    BY <1>1, <1>4, <2>2 DEF NewFrame, FitInv
  <2>3. CASE size # frame_size
    <3>1. SetContentSize(get_rotated_size(size, rotation)) /\ UNCHANGED <<fullscreen, maximized>>
      BY <1>4, <2>3 DEF NewFrame
    <3>2. /\ content_size' = get_rotated_size(size, rotation) /\ sdl' \in SdlWindow
          /\ resize_pending' \in BOOLEAN /\ windowed_content_size' \in FrameSizes /\ FitInv'
      BY <2>1, <3>1, ContentSet
    <3> QED BY <1>1, <1>4, <2>3, <3>2 DEF NewFrame
  <2> QED BY <2>2, <2>3
<1>5. ASSUME NEW rot \in 0..3, SetRotation(rot) PROVE Kept
  <2>1. get_rotated_size(frame_size, rot) \in FrameSizes
    BY <1>1, RotatedSize
  <2>2. SetContentSize(get_rotated_size(frame_size, rot)) /\ UNCHANGED <<fullscreen, maximized>>
    BY <1>5 DEF SetRotation
  <2>3. /\ content_size' = get_rotated_size(frame_size, rot) /\ sdl' \in SdlWindow
        /\ resize_pending' \in BOOLEAN /\ windowed_content_size' \in FrameSizes /\ FitInv'
    BY <2>1, <2>2, ContentSet
  <2> QED BY <1>1, <1>5, <2>3 DEF SetRotation
<1>6. CASE EnterFullscreen
  <2>1. PICK shape \in {"normal", "maximized"} : sdl' = Shaped(sdl, shape, TRUE)
    BY <1>2, <1>6 DEF EnterFullscreen
  <2>2. sdl' \in SdlWindow /\ sdl'.windowed = sdl.windowed /\ sdl'.own = sdl.own
    BY <1>1, <2>1, ShapedWindow
  <2> QED BY <1>1, <1>6, <2>2 DEF EnterFullscreen, FitInv
<1>7. CASE LeaveFullscreen
  <2>0. PICK w : w = Shaped(sdl, sdl.shape, FALSE)
    OBVIOUS
  <2>1. /\ w \in SdlWindow /\ w.windowed = sdl.windowed /\ w.own = sdl.own
        /\ w.shape = "normal" => w.size = w.windowed
    <3>1. w \in SdlWindow /\ w.windowed = sdl.windowed /\ w.own = sdl.own /\ w.shape = sdl.shape
      BY <1>1, <1>2, <2>0, ShapedWindow
    <3>2. sdl.shape = "normal" => w.size = sdl.windowed
      BY <1>1, <1>2, <2>0 DEF Shaped, SdlWindow
    <3> QED BY <3>1, <3>2
  <2>2. /\ fullscreen' = FALSE /\ UNCHANGED <<content, maximized, has_frame>>
        /\ \/ ApplyPendingResize(w)
           \/ sdl' = w /\ UNCHANGED pendingResize
        /\ \/ UNCHANGED window_events
           \/ window_events' = window_events \o <<"restored", "maximized">>
    BY <1>7, <2>0 DEF LeaveFullscreen
  <2>3. w.own /\ ~resize_pending => is_optimal_size(w.windowed, content_size)
    BY <2>1 DEF FitInv
  <2>4. Events
    <3>1. <<"restored", "maximized">> \in Seq({"maximized", "restored"})
      OBVIOUS
    <3>2. \A s, t \in Seq({"maximized", "restored"}) : s \o t \in Seq({"maximized", "restored"})
      OBVIOUS
    <3> QED BY <1>1, <2>2, <3>1, <3>2
  <2>5. CASE ApplyPendingResize(w)
    <3>1. /\ sdl' \in SdlWindow /\ resize_pending' = FALSE
          /\ windowed_content_size' = windowed_content_size /\ FitInv'
      BY <2>1, <2>2, <2>3, <2>5, PendingApplied
    <3> QED BY <1>1, <2>2, <2>4, <3>1
  <2>6. CASE sdl' = w /\ UNCHANGED pendingResize
    BY <1>1, <2>1, <2>2, <2>3, <2>4, <2>6 DEF FitInv
  <2> QED BY <2>2, <2>5, <2>6
<1>8. CASE ResizeToFit
  <2>1. CASE fullscreen \/ maximized
    BY <1>1, <1>8, <2>1 DEF ResizeToFit, FitInv
  <2>2. CASE ~(fullscreen \/ maximized)
    <3> DEFINE size == get_optimal_size(sdl.size, content_size)
    <3>1. size \in Sizes /\ is_optimal_size(size, content_size)
      BY <1>1, <1>2, OptimalFits
    <3>2. sdl' \in Resized(sdl, size)
      BY <1>8, <2>2 DEF ResizeToFit
    <3> HIDE DEF size
    <3>3. /\ sdl' \in SdlWindow /\ sdl'.shape = sdl.shape
          /\ sdl.shape = "normal" => sdl'.size = size /\ sdl'.windowed = size
          /\ sdl'.own => sdl'.windowed = size
      BY <1>1, <3>1, <3>2, ResizedWindow
    <3> QED BY <1>1, <1>8, <3>1, <3>3 DEF ResizeToFit, FitInv
  <2> QED BY <2>1, <2>2
<1>9. CASE ResizeToPixelPerfect
  <2>1. /\ UNCHANGED <<content, pendingResize, fullscreen, has_frame>>
        /\ maximized' = (maximized /\ fullscreen)
    BY <1>9 DEF ResizeToPixelPerfect
  <2> window_events' \in {window_events, Append(window_events, "restored")}
    BY <1>9 DEF ResizeToPixelPerfect
  <2> Events
    BY <1>1
  <2> maximized' \in BOOLEAN
    BY <1>1, <2>1
  <2>2. is_optimal_size(content_size, content_size)
    BY <1>1, ContentIsOptimal
  <2>3. ASSUME NEW w \in SdlWindow, sdl' \in Resized(w, content_size)
        PROVE  sdl' \in SdlWindow /\ FitInv'
    <3>1. /\ sdl' \in SdlWindow /\ sdl'.shape = w.shape
          /\ w.shape = "normal" => sdl'.size = content_size /\ sdl'.windowed = content_size
          /\ sdl'.own => sdl'.windowed = content_size
      BY <1>2, <2>3, ResizedWindow
    <3> QED BY <1>2, <2>1, <2>2, <3>1 DEF FitInv
  <2>4. Shaped(sdl, "normal", FALSE) \in SdlWindow
    BY <1>1, ShapedWindow
  <2>5. CASE fullscreen /\ UNCHANGED <<sdl, window_events>>
    BY <1>1, <2>1, <2>5 DEF FitInv
  <2>6. CASE sdl' \in Resized(Shaped(sdl, "normal", FALSE), content_size)
    BY <1>1, <2>1, <2>3, <2>4, <2>6
  <2>7. CASE sdl' \in Resized(sdl, content_size)
    BY <1>1, <2>1, <2>3, <2>7
  <2> QED BY <1>9, <2>5, <2>6, <2>7 DEF ResizeToPixelPerfect
<1>10. CASE HandleSizeChanged
  <2>1. sdl' = [sdl EXCEPT !.changed = FALSE]
        /\ UNCHANGED <<content, pendingResize, belief, window_events>>
    BY <1>10 DEF HandleSizeChanged
  <2>2. sdl' \in SdlWindow /\ FitInv'
    BY <1>1, <2>1 DEF SdlWindow, FitInv
  <2> QED BY <1>1, <2>1, <2>2
<1>11. CASE HandleExposed
  BY <1>1, <1>11 DEF HandleExposed, FitInv
<1>12. CASE HandleMaximized
  <2>1. Events
    BY <1>1, <1>12 DEF HandleMaximized
  <2> QED BY <1>1, <1>12, <2>1 DEF HandleMaximized, FitInv
<1>13. CASE HandleRestored
  <2>1. Events
    BY <1>1, <1>13 DEF HandleRestored
  <2>2. CASE fullscreen
    BY <1>1, <1>13, <2>1, <2>2 DEF HandleRestored, FitInv
  <2>3. CASE ~fullscreen
    <3>1. /\ ApplyPendingResize(sdl) /\ UNCHANGED <<content, fullscreen, has_frame>>
          /\ maximized' = FALSE
      BY <1>13, <2>3 DEF HandleRestored
    <3>2. /\ sdl' \in SdlWindow /\ resize_pending' = FALSE
          /\ windowed_content_size' = windowed_content_size /\ FitInv'
      BY <1>1, <2>3, <3>1, PendingApplied DEF FitInv
    <3> QED BY <1>1, <2>1, <3>1, <3>2
  <2> QED BY <2>2, <2>3
<1>14. ASSUME NEW shape \in {"normal", "maximized"}, NEW event \in {"maximized", "restored"},
              Reshape(shape, event)
       PROVE  Kept
  <2>1. /\ sdl' = Shaped(sdl, shape, FALSE) /\ window_events' = Append(window_events, event)
        /\ UNCHANGED <<content, pendingResize, belief>> /\ ~fullscreen
    BY <1>14 DEF Reshape
  <2>2. /\ sdl' \in SdlWindow /\ sdl'.shape = shape
        /\ sdl'.windowed = sdl.windowed /\ sdl'.own = sdl.own
        /\ shape = "normal" => sdl'.size = sdl.windowed
    BY <1>1, <2>1, ShapedWindow
  <2>3. Events
    BY <1>1, <2>1
  <2> QED BY <1>1, <2>1, <2>2, <2>3 DEF FitInv
<1>15. ASSUME NEW size \in Sizes, Drag(size) PROVE Kept
  <2>1. /\ sdl' = [sdl EXCEPT !.size = size, !.windowed = size, !.own = FALSE, !.changed = TRUE]
        /\ UNCHANGED <<content, pendingResize, belief, window_events>>
    BY <1>15 DEF Drag
  <2>2. sdl' \in SdlWindow /\ FitInv'
    BY <1>1, <2>1 DEF SdlWindow, FitInv
  <2> QED BY <1>1, <2>1, <2>2
<1> QED
  BY <1>3, <1>4, <1>5, <1>6, <1>7, <1>8, <1>9, <1>10, <1>11, <1>12, <1>13, <1>14, <1>15
  DEF Operation

\* While no size is pending, the content is what it was when the window was windowed;
\* and a size that is pending is remembered.
LEMMA OperationKeepsPending ==
  ASSUME InterfaceTypeOK, PendingInv, Operation, Observe
  PROVE  PendingInv'
<1> USE DEF content, pendingResize, belief
<1>1. /\ last_windowed' = IF ~fullscreen' /\ ~maximized' THEN content_size' ELSE last_windowed
      /\ overridden' = (resize_pending' /\ (overridden \/ PixelPerfectWhilePending))
  BY DEF Observe
<1>2. ASSUME UNCHANGED <<content_size, fullscreen, maximized>>, UNCHANGED pendingResize
      PROVE  PendingInv'
  BY <1>1, <1>2 DEF PendingInv
<1>3. ASSUME NEW new, SetContentSize(new), UNCHANGED <<fullscreen, maximized>>
      PROVE  PendingInv'
  <2>1. CASE ~fullscreen /\ ~maximized
    <3>1. UNCHANGED pendingResize
      BY <1>3, <2>1 DEF SetContentSize
    <3>2. resize_pending => overridden
      BY <2>1 DEF PendingInv
    <3>3. resize_pending' => overridden'
      BY <1>1, <3>1, <3>2
    <3>4. last_windowed' = content_size'
      BY <1>1, <1>3, <2>1
    <3> QED BY <3>3, <3>4 DEF PendingInv
  <2>2. CASE fullscreen \/ maximized
    BY <1>1, <1>3, <2>2 DEF SetContentSize, PendingInv
  <2> QED BY <2>1, <2>2
<1>4. CASE UNCHANGED window
  BY <1>2, <1>4 DEF window
<1>5. CASE \E size \in FrameSizes : NewFrame(size)
  <2>1. PICK size \in FrameSizes : NewFrame(size)
    BY <1>5
  <2>2. CASE size = frame_size
    BY <1>2, <2>1, <2>2 DEF NewFrame
  <2>3. CASE size # frame_size
    BY <1>3, <2>1, <2>3 DEF NewFrame
  <2> QED BY <2>2, <2>3
<1>6. CASE \E rot \in 0..3 : SetRotation(rot)
  BY <1>3, <1>6 DEF SetRotation
<1>7. CASE EnterFullscreen
  BY <1>1, <1>7 DEF EnterFullscreen, PendingInv
<1>8. CASE LeaveFullscreen
  <2>1. CASE maximized
    <3>1. /\ UNCHANGED <<content, pendingResize>> /\ maximized' = maximized
          /\ last_windowed' = last_windowed
      BY <1>1, <1>8, <2>1 DEF LeaveFullscreen
    <3>2. resize_pending' /\ ~overridden' => resize_pending /\ ~overridden
      BY <1>1, <3>1
    <3> QED BY <2>1, <3>1, <3>2 DEF PendingInv
  <2>2. CASE ~maximized
    BY <1>1, <1>8, <2>2 DEF LeaveFullscreen, ApplyPendingResize, PendingInv
  <2> QED BY <2>1, <2>2
<1>9. CASE ResizeToFit
  BY <1>2, <1>9 DEF ResizeToFit
<1>10. CASE ResizeToPixelPerfect
  <2>1. /\ UNCHANGED <<content, pendingResize, fullscreen>>
        /\ maximized' = (maximized /\ fullscreen)
    BY <1>10 DEF ResizeToPixelPerfect
  <2>2. Len(window_events') >= Len(window_events)
    <3>1. window_events' \in {window_events, Append(window_events, "restored")}
      BY <1>10 DEF ResizeToPixelPerfect
    <3> QED BY <3>1 DEF InterfaceTypeOK
  <2>3. maximized /\ ~fullscreen => PixelPerfectWhilePending
    BY <2>1, <2>2 DEF PixelPerfectWhilePending
  <2>4. CASE maximized /\ ~fullscreen
    BY <1>1, <2>1, <2>3, <2>4 DEF PendingInv
  <2>5. CASE ~(maximized /\ ~fullscreen)
    BY <1>1, <2>1, <2>5 DEF PendingInv, InterfaceTypeOK
  <2> QED BY <2>4, <2>5
<1>11. CASE HandleSizeChanged \/ HandleExposed
  BY <1>2, <1>11 DEF HandleSizeChanged, HandleExposed
<1>12. CASE HandleMaximized
  BY <1>1, <1>12 DEF HandleMaximized, PendingInv
<1>13. CASE HandleRestored
  <2>1. CASE fullscreen
    BY <1>2, <1>13, <2>1 DEF HandleRestored
  <2>2. CASE ~fullscreen
    BY <1>1, <1>13, <2>2 DEF HandleRestored, ApplyPendingResize, PendingInv
  <2> QED BY <2>1, <2>2
<1>14. CASE Reshape("maximized", "maximized") \/ Reshape("normal", "restored")
  BY <1>2, <1>14 DEF Reshape
<1>15. CASE \E size \in Sizes : Drag(size)
  BY <1>2, <1>15 DEF Drag
<1> QED
  BY <1>4, <1>5, <1>6, <1>7, <1>8, <1>9, <1>10, <1>11, <1>12, <1>13, <1>14, <1>15
  DEF Operation

\* The content is drawn again when it, or the size of the window, changes.
LEMMA OperationKeepsDrawn ==
  ASSUME InterfaceTypeOK, SizesInv, FitInv, DrawnInv, Operation, Observe,
         has_frame \/ held' = held
  PROVE  DrawnInv' /\ rect' \in [x : Int, y : Int, w : Nat, h : Nat]
<1> DEFINE Rects == [x : Int, y : Int, w : Nat, h : Nat]
<1> USE DEF content, pendingResize, belief
<1>1. /\ sdl \in SdlWindow /\ sdl.shape \in {"normal", "maximized"} /\ rect \in Rects
      /\ {has_frame, has_frame'} \subseteq BOOLEAN
      /\ content_size \in FrameSizes /\ content_size \in Sizes
  BY OperationKeepsTypes, ContentIsOptimal DEF InterfaceTypeOK, SizesInv, SdlWindow
<1>2. sdl' \in SdlWindow /\ sdl'.size \in Sizes /\ content_size' \in FrameSizes
  BY OperationKeepsTypes, RotatedSize DEF SdlWindow
<1>3. has_frame => has_frame'
  BY
  DEF Operation, window, NewFrame, SetRotation, EnterFullscreen, LeaveFullscreen,
      ResizeToFit, ResizeToPixelPerfect, HandleSizeChanged, HandleExposed,
      HandleMaximized, HandleRestored, Reshape, Drag
<1>4. ~has_frame' => held' = Nothing
  BY <1>3 DEF DrawnInv
<1>5. ASSUME Render PROVE DrawnInv' /\ rect' \in Rects
  <2>1. ContentRect(sdl'.size, content_size') \in Rects
    BY <1>2, DrawnRect
  <2> QED BY <1>4, <1>5, <2>1 DEF Render, DrawnInv
<1>6. ASSUME UNCHANGED <<rect, content_size, has_frame>>,
             has_frame => (~sdl'.changed => ~sdl.changed /\ sdl'.size = sdl.size),
             ~has_frame => sdl'.size = sdl.size
      PROVE  DrawnInv' /\ rect' \in Rects
  BY <1>1, <1>4, <1>6 DEF DrawnInv
<1>7. ASSUME NEW w \in SdlWindow, ~w.changed => ~sdl.changed /\ w.size = sdl.size,
             sdl' \in Resized(w, content_size)
      PROVE  ~sdl'.changed => ~sdl.changed /\ sdl'.size = sdl.size
  BY <1>1, <1>7, ResizedWindow
<1>8. CASE UNCHANGED window
  BY <1>6, <1>8 DEF window
<1>9. CASE \E size \in FrameSizes : NewFrame(size)
  <2>1. PICK size \in FrameSizes : NewFrame(size)
    BY <1>9
  <2>2. CASE size = frame_size
    <3>1. UNCHANGED <<content_size, rect, sdl>> /\ has_frame' = TRUE
      BY <2>1, <2>2 DEF NewFrame
    <3>2. ~sdl.changed \/ ~has_frame => rect = ContentRect(sdl.size, content_size)
      BY DEF DrawnInv
    <3> QED BY <1>1, <3>1, <3>2 DEF DrawnInv
  <2>3. CASE size # frame_size
    BY <1>5, <2>1, <2>3 DEF NewFrame
  <2> QED BY <2>2, <2>3
<1>10. CASE \E rot \in 0..3 : SetRotation(rot)
  BY <1>5, <1>10 DEF SetRotation
<1>11. CASE EnterFullscreen \/ LeaveFullscreen
  BY <1>5, <1>11 DEF EnterFullscreen, LeaveFullscreen
<1>12. CASE has_frame /\ ResizeToFit
  <2>1. CASE fullscreen \/ maximized
    BY <1>6, <1>12, <2>1 DEF ResizeToFit
  <2>2. CASE ~(fullscreen \/ maximized)
    <3>1. sdl' \in Resized(sdl, get_optimal_size(sdl.size, content_size))
      BY <1>12, <2>2 DEF ResizeToFit
    <3>2. sdl.size \in Sizes
      BY <1>1 DEF SdlWindow
    <3>3. get_optimal_size(sdl.size, content_size) \in Sizes
      BY <1>1, <3>2, OptimalFits
    <3>4. ~sdl'.changed => ~sdl.changed /\ sdl'.size = sdl.size
      BY <1>1, <3>1, <3>3, ResizedWindow
    <3> QED BY <1>6, <1>12, <3>4 DEF ResizeToFit
  <2> QED BY <2>1, <2>2
<1>13. CASE has_frame /\ ResizeToPixelPerfect
  <2>1. PICK w : w = Shaped(sdl, "normal", FALSE)
    OBVIOUS
  <2>2. w \in SdlWindow /\ (~w.changed => ~sdl.changed /\ w.size = sdl.size)
    BY <1>1, <2>1, ShapedWindow
  <2>3. sdl' = sdl \/ sdl' \in Resized(w, content_size) \/ sdl' \in Resized(sdl, content_size)
    BY <1>13, <2>1 DEF ResizeToPixelPerfect
  <2>4. ~sdl'.changed => ~sdl.changed /\ sdl'.size = sdl.size
    BY <1>1, <1>7, <2>2, <2>3
  <2> QED BY <1>6, <1>13, <2>4 DEF ResizeToPixelPerfect
<1>14. CASE HandleSizeChanged
  <2>1. CASE has_frame
    BY <1>5, <1>14, <2>1 DEF HandleSizeChanged
  <2>2. CASE ~has_frame
    <3>1. sdl'.size = sdl.size
      BY <1>1, <1>14 DEF HandleSizeChanged, SdlWindow
    <3> QED BY <1>6, <1>14, <2>2, <3>1 DEF HandleSizeChanged
  <2> QED BY <2>1, <2>2
<1>15. CASE HandleExposed
  BY <1>5, <1>15 DEF HandleExposed
<1>16. CASE HandleMaximized
  BY <1>6, <1>16 DEF HandleMaximized
<1>17. CASE HandleRestored
  BY <1>5, <1>6, <1>17 DEF HandleRestored
<1>18. ASSUME NEW shape \in {"normal", "maximized"}, NEW event, Reshape(shape, event)
       PROVE  DrawnInv' /\ rect' \in Rects
  <2>1. sdl' = Shaped(sdl, shape, FALSE) /\ UNCHANGED <<content, belief, rect>> /\ has_frame
    BY <1>18 DEF Reshape
  <2>2. ~sdl'.changed => ~sdl.changed /\ sdl'.size = sdl.size
    BY <1>1, <2>1, ShapedWindow
  <2> QED BY <1>6, <2>1, <2>2
<1>19. CASE \E size \in Sizes : Drag(size)
  <2>1. sdl'.changed = TRUE /\ UNCHANGED <<content, belief, rect>> /\ has_frame
    BY <1>1, <1>19 DEF Drag, SdlWindow
  <2> QED BY <1>6, <2>1
<1> QED
  BY <1>8, <1>9, <1>10, <1>11, <1>12, <1>13, <1>14, <1>15, <1>16, <1>17, <1>18, <1>19
  DEF Operation

-------------------------------------------------------------------------------
(* What is owed to the device. *)

\* The names of the keys of the device are names of nothing else, and the shortcuts
\* are distinct.
LEMMA Names ==
  /\ DeviceKeys \cap (Modifiers \cup Buttons \cup {"mouse", "finger", Nothing}) = {}
  /\ DOMAIN DeviceKey \cap (Modifiers \cup OnceKeys \cup WindowKeys) = {}
  /\ Modifiers \cap (OnceKeys \cup WindowKeys \cup {"mouse", "finger", "v"}) = {}
  /\ \A key \in DOMAIN DeviceKey : DeviceKey[key] \in DeviceKeys
  /\ \A button \in DOMAIN ButtonKey : button \in Buttons /\ ButtonKey[button] \in DeviceKeys
  /\ "LEFT_BUTTON" \notin DOMAIN ButtonKey /\ "X2_BUTTON" \notin DOMAIN ButtonKey
  /\ Modifiers \cap Buttons = {}
<1>1. DOMAIN DeviceKey = {"h", "b", "BACKSPACE", "s", "m", "p", "c", "x", "DOWN", "UP"}
  BY DEF DeviceKey
<1>2. DeviceKeys = {"HOME", "BACK", "APP_SWITCH", "MENU", "POWER", "COPY", "CUT",
                    "VOLUME_DOWN", "VOLUME_UP"}
  <2>1. \A key \in DOMAIN DeviceKey :
          DeviceKey[key] \in {"HOME", "BACK", "APP_SWITCH", "MENU", "POWER", "COPY", "CUT",
                              "VOLUME_DOWN", "VOLUME_UP"}
    BY <1>1 DEF DeviceKey
  <2>2. /\ DeviceKey["h"] = "HOME" /\ DeviceKey["b"] = "BACK" /\ DeviceKey["s"] = "APP_SWITCH"
        /\ DeviceKey["m"] = "MENU" /\ DeviceKey["p"] = "POWER" /\ DeviceKey["c"] = "COPY"
        /\ DeviceKey["x"] = "CUT" /\ DeviceKey["DOWN"] = "VOLUME_DOWN"
        /\ DeviceKey["UP"] = "VOLUME_UP"
    BY DEF DeviceKey
  <2> QED BY <1>1, <2>1, <2>2 DEF DeviceKeys
<1>3. /\ DOMAIN ButtonKey = {"RIGHT_BUTTON", "MIDDLE_BUTTON", "X1_BUTTON"}
      /\ ButtonKey["RIGHT_BUTTON"] = "BACK" /\ ButtonKey["MIDDLE_BUTTON"] = "HOME"
      /\ ButtonKey["X1_BUTTON"] = "APP_SWITCH"
  BY DEF ButtonKey
<1>4. DeviceKeys \cap (Modifiers \cup Buttons \cup {"mouse", "finger", Nothing}) = {}
  BY <1>2 DEF Modifiers, Buttons, Nothing
<1>5. \A key \in DOMAIN DeviceKey : DeviceKey[key] \in DeviceKeys
  BY DEF DeviceKeys
<1>6. \A button \in DOMAIN ButtonKey : button \in Buttons /\ ButtonKey[button] \in DeviceKeys
  BY <1>2, <1>3 DEF Buttons
<1> QED BY <1>1, <1>3, <1>4, <1>5, <1>6 DEF Modifiers, OnceKeys, WindowKeys, Buttons

\* A message that is accepted presses or releases one thing, and one that is refused
\* releases it.
LEMMA PushedKey ==
  ASSUME NEW before, NEW thing, NEW down, NEW kinds, PushKey(before, thing, down, kinds)
  PROVE  /\ owed' = before \cup {thing} \/ owed' = before \ {thing}
         /\ ~down => owed' = before \ {thing}
BY DEF PushKey

\* What is owed depends on nothing else than these.
LEMMA OwedUnchanged ==
  ASSUME OwedInv, UNCHANGED <<user, vfinger_down, mods, owed, held>>
  PROVE  OwedInv'
<1>1. /\ OwedToMouse => OwedToMouse'
      /\ OwedToKey => OwedToKey'
      /\ OwedToShortcut => OwedToShortcut'
      /\ OwedToButton => OwedToButton'
  BY
  DEF OwedToMouse, OwedToKey, OwedToShortcut, OwedToButton, Special, is_shortcut_mod,
      Converted
<1>2. \A thing : OwedToModifier(thing) => OwedToModifier(thing)'
  BY DEF OwedToModifier, is_shortcut_mod
<1>3. \A thing : Accounted(thing) => Accounted(thing)'
  BY <1>1, <1>2 DEF Accounted
<1> QED BY <1>3 DEF OwedInv

\* While nothing is held, only the modifiers and the virtual finger are owed.
LEMMA OwedToNothingHeld ==
  ASSUME InterfaceTypeOK, OwedInv, held = Nothing
  PROVE  \A thing \in owed : thing = "finger" \/ OwedToModifier(thing)
<1>1. Nothing \notin user.keys \cup user.buttons
  BY UserTypes
<1> QED BY <1>1
           DEF OwedInv, Accounted, OwedToMouse, OwedToKey, OwedToShortcut, OwedToButton

\* A key that is pressed or repeated is owed what it pressed on the device.
LEMMA KeyDownIsOwed ==
  ASSUME InterfaceTypeOK, NEW key \in user.keys, NEW repeat,
         ProcessKey(key, TRUE, repeat, mods, owed), UNCHANGED mods, held' = key
  PROVE  /\ \A thing \in owed' : thing \in owed \/ Accounted(thing)'
         /\ "finger" \in owed' <=> "finger" \in owed
         /\ sent' # {} => user.control
<1>1. /\ key # "finger" /\ key \notin Modifiers
      /\ \A thing \in DeviceKeys : thing # "finger"
  BY UserTypes, Names
<1>2. UNCHANGED user
  BY DEF ProcessKey
<1>3. CASE owed' = owed /\ (sent' # {} => user.control)
  BY <1>3
<1>4. CASE is_shortcut_mod(mods)
  <2>1. Shortcut(key, TRUE, repeat, mods, owed)
    BY <1>4 DEF ProcessKey
  <2>2. ASSUME key \in DOMAIN DeviceKey, user.control, "shift" \notin mods,
               PushKey(owed, DeviceKey[key], TRUE, {})
        PROVE  /\ \A thing \in owed' : thing \in owed \/ Accounted(thing)'
               /\ "finger" \in owed' <=> "finger" \in owed
    <3>1. owed' = owed \cup {DeviceKey[key]} \/ owed' = owed \ {DeviceKey[key]}
      BY <2>2, PushedKey
    <3>2. Accounted(DeviceKey[key])'
      BY <1>2, <1>4, <2>2 DEF Accounted, OwedToShortcut, is_shortcut_mod
    <3>3. DeviceKey[key] # "finger"
      BY <1>1, <2>2, Names
    <3> QED BY <3>1, <3>2, <3>3
  <2>3. \/ owed' = owed /\ (sent' # {} => user.control)
        \/ key \in DOMAIN DeviceKey /\ user.control /\ "shift" \notin mods
           /\ PushKey(owed, DeviceKey[key], TRUE, {})
    BY <2>1 DEF Shortcut, ForwardShortcut, OnceShortcut, PushOnce, Quiet
  <2> QED BY <1>3, <2>2, <2>3
<1>5. CASE ~is_shortcut_mod(mods)
  <2>1. ForwardKey(key, TRUE, repeat, mods, owed)
    BY <1>5 DEF ProcessKey
  <2>2. ASSUME user.control, Converted(key, mods), NEW kinds, PushKey(owed, key, TRUE, kinds)
        PROVE  /\ \A thing \in owed' : thing \in owed \/ Accounted(thing)'
               /\ "finger" \in owed' <=> "finger" \in owed
    <3>1. owed' = owed \cup {key} \/ owed' = owed \ {key}
      BY <2>2, PushedKey
    <3>2. Accounted(key)'
      BY <1>2, <1>5, <2>2 DEF Accounted, OwedToKey, is_shortcut_mod, Converted
    <3> QED BY <1>1, <3>1, <3>2
  <2>3. \/ owed' = owed /\ (sent' # {} => user.control)
        \/ /\ user.control /\ Converted(key, mods)
           /\ \E kinds : PushKey(owed, key, TRUE, kinds)
    BY <2>1 DEF ForwardKey
  <2> QED BY <1>3, <2>2, <2>3
<1> QED BY <1>4, <1>5

\* A key that is released is owed nothing.
LEMMA KeyUpIsNotOwed ==
  ASSUME InterfaceTypeOK, OwedInv, ReleaseKey
  PROVE  /\ owed' \subseteq owed
         /\ \A thing \in owed' : ~(thing = held /\ OwedToKey)
                                 /\ ~(OwedToShortcut /\ thing = DeviceKey[held])
         /\ "finger" \in owed' <=> "finger" \in owed
         /\ sent' # {} => user.control
<1>1. /\ held \in user.keys /\ held # "finger" /\ held \notin Modifiers
      /\ \A thing \in DeviceKeys : thing # "finger"
      /\ ProcessKey(held, FALSE, FALSE, mods, owed)
  BY UserTypes, Names DEF ReleaseKey
<1>2. CASE is_shortcut_mod(mods)
  <2>1. Shortcut(held, FALSE, FALSE, mods, owed)
    BY <1>1, <1>2 DEF ProcessKey
  <2>2. CASE OwedToShortcut
    <3>1. /\ held \in DOMAIN DeviceKey /\ user.control /\ "shift" \notin mods
          /\ held \notin OnceKeys \cup WindowKeys
      BY <2>2, Names DEF OwedToShortcut
    <3>2. PushKey(owed, DeviceKey[held], FALSE, {})
      BY <2>1, <3>1 DEF Shortcut, ForwardShortcut
    <3>3. owed' = owed \ {DeviceKey[held]}
      BY <3>2, PushedKey
    <3>4. DeviceKey[held] # "finger"
      BY <1>1, <3>1, Names
    <3> QED BY <1>2, <3>1, <3>3, <3>4 DEF OwedToKey
  <2>3. CASE ~OwedToShortcut
    <3>1. \/ owed' = owed /\ (sent' # {} => user.control)
          \/ /\ held \in DOMAIN DeviceKey /\ user.control
             /\ PushKey(owed, DeviceKey[held], FALSE, {})
      BY <2>1 DEF Shortcut, ForwardShortcut, OnceShortcut, PushOnce, Quiet
    <3>2. CASE owed' = owed /\ (sent' # {} => user.control)
      BY <1>2, <2>3, <3>2 DEF OwedToKey
    <3>3. CASE /\ held \in DOMAIN DeviceKey /\ user.control
               /\ PushKey(owed, DeviceKey[held], FALSE, {})
      <4>1. owed' = owed \ {DeviceKey[held]}
        BY <3>3, PushedKey
      <4>2. DeviceKey[held] # "finger"
        BY <1>1, <3>3, Names
      <4> QED BY <1>2, <2>3, <3>3, <4>1, <4>2 DEF OwedToKey
    <3> QED BY <3>1, <3>2, <3>3
  <2> QED BY <2>2, <2>3
<1>3. CASE ~is_shortcut_mod(mods)
  <2>1. ForwardKey(held, FALSE, FALSE, mods, owed)
    BY <1>1, <1>3 DEF ProcessKey
  <2>2. \/ owed' = owed /\ sent' = {} /\ (~user.control \/ ~Converted(held, mods))
        \/ user.control /\ \E kinds : PushKey(owed, held, FALSE, kinds)
    BY <2>1 DEF ForwardKey
  <2>3. CASE owed' = owed /\ sent' = {} /\ (~user.control \/ ~Converted(held, mods))
    BY <1>3, <2>3 DEF OwedToKey, OwedToShortcut
  <2>4. CASE user.control /\ \E kinds : PushKey(owed, held, FALSE, kinds)
    <3>1. owed' = owed \ {held}
      BY <2>4, PushedKey
    <3> QED BY <1>1, <1>3, <2>4, <3>1 DEF OwedToShortcut
  <2> QED BY <2>2, <2>3, <2>4
<1> QED BY <1>2, <1>3

\* What is owed to a modifier is owed to it whatever is held.
LEMMA ModifierIsStillOwed ==
  ASSUME NEW thing, OwedToModifier(thing), UNCHANGED <<user, mods>>
  PROVE  Accounted(thing)'
BY DEF Accounted, OwedToModifier, is_shortcut_mod

\* A modifier that changes is owed if it is pressed on the device, and nothing else is
\* but the mouse and the finger.
LEMMA ModifierIsOwed ==
  ASSUME InterfaceTypeOK, OwedInv, NEW mod \in user.mods, ChangeModifier(mod)
  PROVE  OwedInv' /\ (sent' # {} => user.control)
<1> DEFINE down == mod \notin mods
           m == IF down THEN mods \cup {mod} ELSE mods \ {mod}
           before == owed \cap {"mouse", "finger", mod}
<1>1. /\ mod \in Modifiers /\ mod \notin user.keys \cup user.buttons
      /\ mod \notin DeviceKeys /\ mod # "mouse" /\ mod # "finger" /\ mod # "v"
      /\ mod \notin DOMAIN DeviceKey \cup OnceKeys \cup WindowKeys
  <2>1. mod \in Modifiers /\ mod \notin user.keys /\ user.buttons \subseteq Buttons
    BY UserTypes
  <2> QED BY <2>1, Names
<1>2. /\ mods' = m /\ UNCHANGED <<held, user, vfinger_down>>
      /\ ProcessKey(mod, down, FALSE, m, before)
  BY DEF ChangeModifier, ProcessKey, external
<1>3. ASSUME mod \in owed PROVE OwedToModifier(mod)
  <2>1. Accounted(mod)
    BY <1>3 DEF OwedInv
  <2>2. OwedToKey => mod # held
    BY <1>1 DEF OwedToKey
  <2>3. OwedToShortcut => mod # DeviceKey[held]
    BY <1>1, Names DEF OwedToShortcut
  <2>4. OwedToButton => mod # ButtonKey[held]
    BY <1>1, Names DEF OwedToButton
  <2> QED BY <1>1, <2>1, <2>2, <2>3, <2>4 DEF Accounted
<1>4. "mouse" \in owed => OwedToMouse
  <2>1. ASSUME "mouse" \in owed PROVE OwedToMouse
    <3>1. Accounted("mouse")
      BY <2>1 DEF OwedInv
    <3>2. "mouse" \notin DeviceKeys /\ "mouse" \notin Modifiers /\ "mouse" \notin user.keys
      BY Names, UserTypes
    <3>3. OwedToKey => "mouse" # held
      BY <3>2 DEF OwedToKey
    <3>4. OwedToShortcut => "mouse" # DeviceKey[held]
      BY <3>2, Names DEF OwedToShortcut
    <3>5. OwedToButton => "mouse" # ButtonKey[held]
      BY <3>2, Names DEF OwedToButton
    <3> QED BY <3>1, <3>2, <3>3, <3>4, <3>5 DEF Accounted, OwedToModifier
  <2> QED BY <2>1
<1>5. OwedToMouse => OwedToMouse'
  BY <1>2 DEF OwedToMouse, Special
<1>6. m \cup {mod} = mods \cup {mod} /\ (down => m = mods \cup {mod})
  OBVIOUS
<1> HIDE DEF down, m, before
<1>7. /\ owed' \subseteq before \cup {mod}
      /\ mod \in owed' => OwedToModifier(mod)'
      /\ "finger" \in owed' <=> "finger" \in before
      /\ sent' # {} => user.control
  <2>1. CASE is_shortcut_mod(m)
    <3>1. owed' = before /\ sent' = {}
      BY <1>1, <1>2, <2>1 DEF ProcessKey, Shortcut
    <3>2. mod \in before => OwedToModifier(mod)
      BY <1>3 DEF before
    <3>3. OwedToModifier(mod) => OwedToModifier(mod)'
      BY <1>2, <1>6, <2>1 DEF OwedToModifier, is_shortcut_mod
    <3> QED BY <3>1, <3>2, <3>3
  <2>2. CASE ~is_shortcut_mod(m)
    <3>1. ForwardKey(mod, down, FALSE, m, before)
      BY <1>2, <2>2 DEF ProcessKey
    <3>2. \/ owed' = before /\ sent' = {} /\ (~user.control \/ ~Converted(mod, m))
          \/ user.control /\ Converted(mod, m) /\ \E kinds : PushKey(before, mod, down, kinds)
      BY <1>1, <3>1 DEF ForwardKey
    <3>3. CASE owed' = before /\ sent' = {} /\ (~user.control \/ ~Converted(mod, m))
      <4>1. mod # "alt" => Converted(mod, m)
        BY <1>1 DEF Converted, Letter, Modifiers
      <4>2. mod \notin before
        BY <1>3, <3>3, <4>1 DEF OwedToModifier, before
      <4> QED BY <3>3, <4>2
    <3>4. CASE user.control /\ Converted(mod, m) /\ \E kinds : PushKey(before, mod, down, kinds)
      <4>1. /\ owed' = before \cup {mod} \/ owed' = before \ {mod}
            /\ ~down => owed' = before \ {mod}
        BY <3>4, PushedKey
      <4>2. ASSUME down PROVE OwedToModifier(mod)'
        <5>1. mod \in mods' /\ mods' \cup {mod} = m
          BY <1>2, <1>6, <4>2
        <5> QED BY <1>1, <1>2, <2>2, <3>4, <5>1
                   DEF OwedToModifier, is_shortcut_mod, Converted
      <4> QED BY <1>1, <3>4, <4>1, <4>2
    <3> QED BY <3>2, <3>3, <3>4
  <2> QED BY <2>1, <2>2
<1>8. \A thing \in owed' : Accounted(thing)'
  <2>1. \A thing \in owed' : thing \in {"mouse", "finger", mod} /\ (thing = "mouse" => thing \in owed)
    BY <1>1, <1>7 DEF before
  <2> QED BY <1>4, <1>5, <1>7, <2>1 DEF Accounted
<1>9. "finger" \in before <=> "finger" \in owed
  BY DEF before
<1> QED BY <1>2, <1>7, <1>8, <1>9 DEF OwedInv

\* What a button does on the device, when it is pressed or released: one of its keys,
\* or the mouse and the finger.
LEMMA ButtonDoes ==
  ASSUME NEW button, NEW down, NEW times, NEW outside,
         ProcessMouseButton(button, down, times, outside)
  PROVE  /\ sent' # {} => user.control
         /\ \/ /\ Special /\ button \in DOMAIN ButtonKey /\ UNCHANGED vfinger_down
               /\ PushKey(owed, ButtonKey[button], down, {})
            \/ /\ owed' = owed /\ UNCHANGED vfinger_down
               /\ ~user.control \/ (down /\ button = "X2_BUTTON")
            \/ /\ owed' = owed \ {"mouse"} /\ UNCHANGED vfinger_down
               /\ (button = "LEFT_BUTTON" \/ ~(Special /\ button \in DOMAIN ButtonKey))
            \/ /\ user.control /\ ~(Special /\ button \in DOMAIN ButtonKey) /\ Click(down)
BY DEF ProcessMouseButton, Special, Click, VirtualFinger, Quiet, PushOnce, OnBorders

\* A click presses or releases the mouse, and maybe the finger.
LEMMA ClickDoes ==
  ASSUME NEW down \in BOOLEAN, vfinger_down \in BOOLEAN, vfinger_down <=> "finger" \in owed,
         Click(down)
  PROVE  /\ owed' \ {"mouse", "finger"} = owed \ {"mouse", "finger"}
         /\ ~down => "mouse" \notin owed'
         /\ vfinger_down' \in BOOLEAN /\ (vfinger_down' <=> "finger" \in owed')
<1>1. CASE owed' = owed \ {"mouse"} /\ UNCHANGED vfinger_down
  BY <1>1
<1>2. CASE UNCHANGED vfinger_down /\ owed' = IF down THEN owed \cup {"mouse"} ELSE owed \ {"mouse"}
  BY <1>2
<1>3. CASE vfinger_down' = down
           /\ owed' = IF down THEN owed \cup {"mouse", "finger"} ELSE owed \ {"mouse", "finger"}
  BY <1>3
<1> QED BY <1>1, <1>2, <1>3 DEF Click, VirtualFinger

\* A button that is pressed is owed what it pressed.
LEMMA ButtonDownIsOwed ==
  ASSUME InterfaceTypeOK, OwedInv, NEW button \in user.buttons, PressButton(button)
  PROVE  OwedInv' /\ vfinger_down' \in BOOLEAN /\ (sent' # {} => user.control)
<1> DEFINE AllAccounted == \A thing \in owed' : thing = "finger" \/ Accounted(thing)'
           FingerAgrees == vfinger_down' \in BOOLEAN /\ (vfinger_down' <=> "finger" \in owed')
<1>1. /\ held = Nothing /\ held' = button /\ UNCHANGED <<user, mods>>
      /\ \E times, outside : ProcessMouseButton(button, TRUE, times, outside)
  BY DEF PressButton, ProcessMouseButton
<1>2. \A thing \in owed : thing = "finger" \/ Accounted(thing)'
  BY <1>1, OwedToNothingHeld, ModifierIsStillOwed
<1>3. vfinger_down \in BOOLEAN /\ (vfinger_down <=> "finger" \in owed)
  BY DEF OwedInv, InterfaceTypeOK
<1>4. PICK times, outside : ProcessMouseButton(button, TRUE, times, outside)
  BY <1>1
<1>5. AllAccounted /\ FingerAgrees => OwedInv' /\ vfinger_down' \in BOOLEAN
  <2>1. Accounted("finger")'
    BY DEF Accounted
  <2> QED BY <1>1, <2>1 DEF OwedInv
<1>6. ASSUME /\ Special /\ button \in DOMAIN ButtonKey /\ UNCHANGED vfinger_down
             /\ PushKey(owed, ButtonKey[button], TRUE, {})
      PROVE  AllAccounted /\ FingerAgrees
  <2>1. owed' = owed \cup {ButtonKey[button]} \/ owed' = owed \ {ButtonKey[button]}
    BY <1>6, PushedKey
  <2>2. ButtonKey[button] # "finger"
    BY <1>6, Names
  <2>3. Accounted(ButtonKey[button])'
    BY <1>1, <1>6 DEF Accounted, OwedToButton, Special
  <2>4. AllAccounted
    BY <1>2, <2>1, <2>3
  <2>5. FingerAgrees
    BY <1>3, <1>6, <2>1, <2>2
  <2> QED BY <2>4, <2>5
<1>7. ASSUME UNCHANGED vfinger_down /\ (owed' = owed \/ owed' = owed \ {"mouse"})
      PROVE  AllAccounted /\ FingerAgrees
  <2>1. AllAccounted
    BY <1>2, <1>7
  <2>2. FingerAgrees
    BY <1>3, <1>7
  <2> QED BY <2>1, <2>2
<1>8. ASSUME user.control /\ ~(Special /\ button \in DOMAIN ButtonKey) /\ Click(TRUE)
      PROVE  AllAccounted /\ FingerAgrees
  <2>1. /\ owed' \ {"mouse", "finger"} = owed \ {"mouse", "finger"}
        /\ vfinger_down' \in BOOLEAN /\ (vfinger_down' <=> "finger" \in owed')
    BY <1>3, <1>8, ClickDoes, TRUE \in BOOLEAN
  <2>2. Accounted("mouse")'
    BY <1>1, <1>8 DEF Accounted, OwedToMouse, Special
  <2>3. AllAccounted
    BY <1>2, <2>1, <2>2
  <2> QED BY <2>1, <2>3
<1>9. /\ sent' # {} => user.control
      /\ \/ /\ Special /\ button \in DOMAIN ButtonKey /\ UNCHANGED vfinger_down
            /\ PushKey(owed, ButtonKey[button], TRUE, {})
         \/ UNCHANGED vfinger_down /\ (owed' = owed \/ owed' = owed \ {"mouse"})
         \/ user.control /\ ~(Special /\ button \in DOMAIN ButtonKey) /\ Click(TRUE)
  BY <1>4, ButtonDoes
<1> QED BY <1>5, <1>6, <1>7, <1>8, <1>9

\* A button that is released is owed nothing.
LEMMA ButtonUpIsNotOwed ==
  ASSUME InterfaceTypeOK, OwedInv, ReleaseButton
  PROVE  OwedInv' /\ vfinger_down' \in BOOLEAN /\ (sent' # {} => user.control)
<1> DEFINE AllAccounted == \A thing \in owed' : thing = "finger" \/ Accounted(thing)'
           FingerAgrees == vfinger_down' \in BOOLEAN /\ (vfinger_down' <=> "finger" \in owed')
<1>1. /\ held \in user.buttons /\ held' = Nothing /\ UNCHANGED <<user, mods>>
      /\ \E times, outside : ProcessMouseButton(held, FALSE, times, outside)
  BY DEF ReleaseButton, ProcessMouseButton
<1>2. held \in Buttons /\ held \notin user.keys
  BY <1>1, UserTypes
<1>3. \A thing \in owed : \/ thing = "finger" \/ (thing = "mouse" /\ OwedToMouse)
                          \/ Accounted(thing)'
                          \/ OwedToButton /\ thing = ButtonKey[held]
  BY <1>1, <1>2, ModifierIsStillOwed DEF OwedInv, Accounted, OwedToKey, OwedToShortcut
<1>4. vfinger_down \in BOOLEAN /\ (vfinger_down <=> "finger" \in owed)
  BY DEF OwedInv, InterfaceTypeOK
<1>5. PICK times, outside : ProcessMouseButton(held, FALSE, times, outside)
  BY <1>1
<1>6. AllAccounted /\ FingerAgrees => OwedInv' /\ vfinger_down' \in BOOLEAN
  <2>1. Accounted("finger")'
    BY DEF Accounted
  <2> QED BY <1>1, <2>1 DEF OwedInv
<1>7. ASSUME /\ Special /\ held \in DOMAIN ButtonKey /\ UNCHANGED vfinger_down
             /\ PushKey(owed, ButtonKey[held], FALSE, {})
      PROVE  AllAccounted /\ FingerAgrees
  <2>1. owed' = owed \ {ButtonKey[held]}
    BY <1>7, PushedKey
  <2>2. ButtonKey[held] # "finger" /\ ButtonKey[held] # "mouse"
    BY <1>7, Names
  <2>3. ~OwedToMouse
    BY <1>7 DEF OwedToMouse
  <2>4. AllAccounted
    BY <1>3, <2>1, <2>3
  <2>5. FingerAgrees
    BY <1>4, <1>7, <2>1, <2>2
  <2> QED BY <2>4, <2>5
<1>8. ASSUME owed' = owed /\ UNCHANGED vfinger_down /\ ~user.control
      PROVE  AllAccounted /\ FingerAgrees
  <2>1. ~OwedToMouse /\ ~OwedToButton
    BY <1>8 DEF OwedToMouse, OwedToButton, Special
  <2>2. AllAccounted
    BY <1>3, <1>8, <2>1
  <2>3. FingerAgrees
    BY <1>4, <1>8
  <2> QED BY <2>2, <2>3
<1>9. ASSUME /\ owed' = owed \ {"mouse"} /\ UNCHANGED vfinger_down
             /\ held = "LEFT_BUTTON" \/ ~(Special /\ held \in DOMAIN ButtonKey)
      PROVE  AllAccounted /\ FingerAgrees
  <2>1. ~OwedToButton
    BY <1>9, Names DEF OwedToButton
  <2>2. AllAccounted
    BY <1>3, <1>9, <2>1
  <2>3. FingerAgrees
    BY <1>4, <1>9
  <2> QED BY <2>2, <2>3
<1>10. ASSUME user.control /\ ~(Special /\ held \in DOMAIN ButtonKey) /\ Click(FALSE)
      PROVE  AllAccounted /\ FingerAgrees
  <2>1. /\ owed' \ {"mouse", "finger"} = owed \ {"mouse", "finger"}
        /\ "mouse" \notin owed'
        /\ vfinger_down' \in BOOLEAN /\ (vfinger_down' <=> "finger" \in owed')
    BY <1>4, <1>10, ClickDoes, FALSE \in BOOLEAN
  <2>2. ~OwedToButton
    BY <1>10 DEF OwedToButton
  <2>3. AllAccounted
    BY <1>3, <2>1, <2>2
  <2> QED BY <2>1, <2>3
<1>11. /\ sent' # {} => user.control
       /\ \/ /\ Special /\ held \in DOMAIN ButtonKey /\ UNCHANGED vfinger_down
             /\ PushKey(owed, ButtonKey[held], FALSE, {})
          \/ owed' = owed /\ UNCHANGED vfinger_down /\ ~user.control
          \/ /\ owed' = owed \ {"mouse"} /\ UNCHANGED vfinger_down
             /\ held = "LEFT_BUTTON" \/ ~(Special /\ held \in DOMAIN ButtonKey)
          \/ user.control /\ ~(Special /\ held \in DOMAIN ButtonKey) /\ Click(FALSE)
  BY <1>5, ButtonDoes
<1> QED BY <1>6, <1>7, <1>8, <1>9, <1>10, <1>11

\* Whatever the step, what is owed to the device is accounted for, and without control
\* nothing but touches is sent.
LEMMA StepOwes ==
  ASSUME InterfaceTypeOK, OwedInv, NothingIsSentWithoutControl, InterfaceNext
  PROVE  OwedInv' /\ NothingIsSentWithoutControl' /\ mods' \subseteq Modifiers
         /\ vfinger_down' \in BOOLEAN
<1> DEFINE Done == /\ OwedInv' /\ NothingIsSentWithoutControl'
                   /\ mods' \subseteq Modifiers /\ vfinger_down' \in BOOLEAN
<1> USE DEF NothingIsSentWithoutControl, external
<1>1. mods \subseteq Modifiers /\ vfinger_down \in BOOLEAN
  BY DEF InterfaceTypeOK
<1>2. ASSUME UNCHANGED <<user, vfinger_down, mods, owed, held>>,
             sent' = sent \/ sent' \subseteq {"touch"} \/ user.control
      PROVE  Done
  BY <1>1, <1>2, OwedUnchanged
<1>3. ASSUME NEW key \in user.keys, PressKey(key) PROVE Done
  <2>1. /\ ProcessKey(key, TRUE, FALSE, mods, owed) /\ held = Nothing /\ held' = key
        /\ UNCHANGED <<user, vfinger_down, mods>>
    BY <1>3 DEF PressKey, ProcessKey
  <2>2. /\ \A thing \in owed' : thing \in owed \/ Accounted(thing)'
        /\ "finger" \in owed' <=> "finger" \in owed
        /\ sent' # {} => user.control
    BY <2>1, KeyDownIsOwed
  <2>3. \A thing \in owed : Accounted(thing)'
    <3>1. Accounted("finger")'
      BY DEF Accounted
    <3> QED BY <2>1, <3>1, OwedToNothingHeld, ModifierIsStillOwed
  <2> QED BY <1>1, <2>1, <2>2, <2>3 DEF OwedInv
<1>4. CASE RepeatKey
  <2>1. /\ held \in user.keys /\ ProcessKey(held, TRUE, TRUE, mods, owed) /\ held' = held
        /\ UNCHANGED <<user, vfinger_down, mods>>
    BY <1>4 DEF RepeatKey, ProcessKey
  <2>2. /\ \A thing \in owed' : thing \in owed \/ Accounted(thing)'
        /\ "finger" \in owed' <=> "finger" \in owed
        /\ sent' # {} => user.control
    BY <2>1, KeyDownIsOwed
  <2>3. \A thing \in owed : Accounted(thing)'
    BY <2>1
    DEF OwedInv, Accounted, OwedToMouse, OwedToModifier, OwedToKey, OwedToShortcut,
        OwedToButton, Special, is_shortcut_mod, Converted
  <2> QED BY <1>1, <2>1, <2>2, <2>3 DEF OwedInv
<1>5. CASE ReleaseKey
  <2>1. /\ held \in user.keys /\ held' = Nothing /\ UNCHANGED <<user, vfinger_down, mods>>
    BY <1>5 DEF ReleaseKey, ProcessKey
  <2>2. /\ owed' \subseteq owed
        /\ \A thing \in owed' : ~(thing = held /\ OwedToKey)
                                /\ ~(OwedToShortcut /\ thing = DeviceKey[held])
        /\ "finger" \in owed' <=> "finger" \in owed
        /\ sent' # {} => user.control
    BY <1>5, KeyUpIsNotOwed
  <2>3. ~OwedToMouse /\ ~OwedToButton
    <3>1. user.buttons \subseteq Buttons /\ user.keys \cap Buttons = {}
      BY UserTypes
    <3> QED BY <2>1, <3>1 DEF OwedToMouse, OwedToButton
  <2>4. \A thing \in owed' : thing = "finger" \/ OwedToModifier(thing)
    BY <2>2, <2>3 DEF OwedInv, Accounted
  <2>5. \A thing \in owed' : Accounted(thing)'
    <3>1. Accounted("finger")'
      BY DEF Accounted
    <3> QED BY <2>1, <2>4, <3>1, ModifierIsStillOwed
  <2> QED BY <1>1, <2>1, <2>2, <2>5 DEF OwedInv
<1>6. CASE TypeText
  BY <1>2, <1>6 DEF TypeText, TextInput, PushOnce
<1>7. ASSUME NEW mod \in user.mods, ChangeModifier(mod) PROVE Done
  <2>1. OwedInv' /\ (sent' # {} => user.control)
    BY <1>7, ModifierIsOwed
  <2>2. mod \in Modifiers
    BY UserTypes
  <2> QED BY <1>1, <1>7, <2>1, <2>2 DEF ChangeModifier, ProcessKey
<1>8. ASSUME NEW button \in user.buttons, PressButton(button) PROVE Done
  <2>1. OwedInv' /\ vfinger_down' \in BOOLEAN /\ (sent' # {} => user.control)
    BY <1>8, ButtonDownIsOwed
  <2>2. UNCHANGED <<user, mods>>
    BY <1>8 DEF PressButton, ProcessMouseButton
  <2> QED BY <1>1, <2>1, <2>2
<1>9. CASE ReleaseButton
  <2>1. OwedInv' /\ vfinger_down' \in BOOLEAN /\ (sent' # {} => user.control)
    BY <1>9, ButtonUpIsNotOwed
  <2>2. UNCHANGED <<user, mods>>
    BY <1>9 DEF ReleaseButton, ProcessMouseButton
  <2> QED BY <1>1, <2>1, <2>2
<1>10. CASE MoveMouse \/ Wheel \/ Touch
  BY <1>2, <1>10
  DEF MoveMouse, ProcessMouseMotion, Wheel, ProcessMouseWheel, Touch, ProcessTouch,
      PushOnce
<1>11. CASE WindowStep
  <2>1. CASE Reshape("maximized", "maximized") \/ Reshape("normal", "restored")
    BY <1>2, <2>1 DEF Reshape, inputManager
  <2>2. CASE \E size \in user.drags : Drag(size)
    BY <1>2, <2>2 DEF Drag, inputManager
  <2>3. CASE (\E size \in user.sizes : HandleNewFrame(size)) \/ HandleWindowEvent
    BY <1>2, <2>3 DEF HandleNewFrame, HandleWindowEvent
  <2> QED BY <1>11, <2>1, <2>2, <2>3 DEF WindowStep
<1> QED
  BY <1>3, <1>4, <1>5, <1>6, <1>7, <1>8, <1>9, <1>10, <1>11
  DEF InterfaceNext, KeyboardStep, MouseStep

-------------------------------------------------------------------------------
(* The theorems about the interface. *)

\* The window is shown, at first, with its content.
LEMMA InterfaceStarts == InterfaceInit => InterfaceInv
<1> SUFFICES ASSUME InterfaceInit PROVE InterfaceInv
  OBVIOUS
<1>1. PICK size \in user.sizes, rot \in user.rotations, asked \in user.asked, full \in BOOLEAN :
        WindowInit(size, rot, asked, full)
  BY DEF InterfaceInit
<1>2. /\ user \in Users /\ vfinger_down = FALSE /\ mods = {} /\ sent = {} /\ owed = {}
      /\ held = Nothing /\ last_windowed = content_size /\ overridden = FALSE
  BY DEF InterfaceInit
<1>3. size \in FrameSizes /\ rot \in 0..3 /\ asked \in Sizes
  BY <1>1, <1>2, InterfaceAssumption DEF FrameSizes
<1> DEFINE cs == get_rotated_size(size, rot)
           ws == get_initial_optimal_size(cs, asked)
           w == [shape |-> "normal", size |-> ws, windowed |-> ws, changed |-> TRUE,
                 own |-> asked.width = 0 \/ asked.height = 0]
<1>4. /\ frame_size = size /\ rotation = rot /\ content_size = cs
      /\ resize_pending = FALSE /\ windowed_content_size = cs
      /\ fullscreen = full /\ maximized = FALSE /\ has_frame = FALSE
      /\ sdl = Shaped(w, "normal", full)
      /\ rect = ContentRect(sdl.size, cs)
      /\ window_events = <<>>
  BY <1>1 DEF WindowInit
<1>5. cs \in FrameSizes
  BY <1>3, RotatedSize
<1>6. ws \in Sizes /\ (asked.width = 0 \/ asked.height = 0 => is_optimal_size(ws, cs))
  BY <1>3, <1>5, InitialFits
<1>7. w \in SdlWindow /\ w.windowed = ws /\ w.own = (asked.width = 0 \/ asked.height = 0)
  BY <1>6 DEF SdlWindow
<1>8. cs = get_rotated_size(size, rot) /\ cs \in Sizes /\ size \in Sizes
  BY <1>3, <1>5, ContentIsOptimal
<1> HIDE DEF w, ws, cs
<1>9. sdl = Shaped(w, "normal", TRUE) \/ sdl = Shaped(w, "normal", FALSE)
  BY <1>4
<1>10. /\ sdl \in SdlWindow /\ sdl.windowed = ws /\ sdl.own = w.own
       /\ sdl = Shaped(w, "normal", FALSE) => sdl.size = ws
  BY <1>7, <1>9, ShapedWindow
<1>11. sdl.size \in Sizes
  BY <1>10 DEF SdlWindow
<1>12. rect \in [x : Int, y : Int, w : Nat, h : Nat]
  BY <1>4, <1>5, <1>11, DrawnRect
<1>13. InterfaceTypeOK
  <2>1. {fullscreen, maximized, has_frame, resize_pending, vfinger_down} \subseteq BOOLEAN
    BY <1>2, <1>4
  <2>2. window_events \in Seq({"maximized", "restored"}) /\ mods \subseteq Modifiers
    BY <1>2, <1>4
  <2>3. {frame_size, content_size, windowed_content_size} \subseteq Sizes
    BY <1>4, <1>8
  <2> QED BY <1>2, <1>3, <1>4, <1>10, <2>1, <2>2, <2>3 DEF InterfaceTypeOK
<1>14. SizesInv
  BY <1>3, <1>4, <1>5, <1>8, <1>12 DEF SizesInv
<1>15. PendingInv
  BY <1>2, <1>4 DEF PendingInv
<1>16. FitInv
  BY <1>4, <1>6, <1>7, <1>10 DEF FitInv
<1>17. DrawnInv /\ OwedInv /\ NothingIsSentWithoutControl
  BY <1>2, <1>4 DEF DrawnInv, OwedInv, NothingIsSentWithoutControl
<1> QED BY <1>13, <1>14, <1>15, <1>16, <1>17 DEF InterfaceInv

\* Every step keeps the invariant.
LEMMA InterfaceSteps == InterfaceInv /\ [InterfaceNext]_interface => InterfaceInv'
<1> SUFFICES ASSUME InterfaceInv, [InterfaceNext]_interface PROVE InterfaceInv'
  OBVIOUS
<1>1. CASE UNCHANGED interface
  <2>1. /\ UNCHANGED <<frame_size, content_size, rotation, resize_pending, windowed_content_size>>
        /\ UNCHANGED <<fullscreen, maximized, has_frame, rect, sdl, window_events>>
        /\ UNCHANGED <<user, vfinger_down, mods, sent, owed, held, last_windowed, overridden>>
    BY <1>1
    DEF interface, window, content, pendingResize, belief, inputManager, external, history
  <2>2. InterfaceTypeOK' /\ SizesInv'
    BY <2>1 DEF InterfaceInv, InterfaceTypeOK, SizesInv
  <2>3. PendingInv' /\ FitInv' /\ DrawnInv' /\ NothingIsSentWithoutControl'
    BY <2>1 DEF InterfaceInv, PendingInv, FitInv, DrawnInv, NothingIsSentWithoutControl
  <2>4. OwedInv'
    BY <2>1, OwedUnchanged DEF InterfaceInv
  <2> QED BY <2>2, <2>3, <2>4 DEF InterfaceInv
<1>2. CASE InterfaceNext
  <2> USE DEF InterfaceInv
  <2>1. Operation /\ Observe /\ user' = user /\ (has_frame \/ held' = held)
    BY <1>2, StepOperates
  <2>2. /\ sdl' \in SdlWindow /\ FitInv'
        /\ {fullscreen', maximized', has_frame', resize_pending'} \subseteq BOOLEAN
        /\ windowed_content_size' \in FrameSizes /\ rotation' \in 0..3
        /\ frame_size' \in FrameSizes
        /\ content_size' = get_rotated_size(frame_size', rotation')
        /\ window_events' \in Seq({"maximized", "restored"})
    BY <2>1, OperationKeepsTypes
  <2>3. PendingInv'
    BY <2>1, OperationKeepsPending
  <2>4. DrawnInv' /\ rect' \in [x : Int, y : Int, w : Nat, h : Nat]
    BY <2>1, OperationKeepsDrawn
  <2>5. /\ OwedInv' /\ NothingIsSentWithoutControl'
        /\ mods' \subseteq Modifiers /\ vfinger_down' \in BOOLEAN
    BY <1>2, StepOwes
  <2>6. content_size' \in FrameSizes
    BY <2>2, RotatedSize
  <2>7. FrameSizes \subseteq Sizes
    BY ContentIsOptimal
  <2>8. SizesInv'
    BY <2>2, <2>4, <2>6 DEF SizesInv
  <2>9. InterfaceTypeOK'
    BY <2>1, <2>2, <2>5, <2>6, <2>7 DEF InterfaceTypeOK
  <2> QED BY <2>2, <2>3, <2>4, <2>5, <2>8, <2>9
<1> QED BY <1>1, <1>2

\* The invariant of the interface (screen.c, input_manager.c).
THEOREM InterfaceInvariance == InterfaceSpec => []InterfaceInv
<1> QED BY InterfaceStarts, InterfaceSteps, PTL DEF InterfaceSpec

\* The size that is pending is the one the window had when it was windowed
\* (set_content_size, apply_pending_resize).
THEOREM PendingSize == InterfaceSpec => []PendingSizeIsKept
<1>1. InterfaceInv => PendingSizeIsKept
  BY DEF InterfaceInv, PendingInv, PendingSizeIsKept
<1> QED BY <1>1, InterfaceInvariance, PTL

\* The window has no borders unless the user or the window manager wants them
\* (resize_for_content, screen_resize_to_fit).
THEOREM NoBorders == InterfaceSpec => []WindowFits
<1>1. ASSUME InterfaceInv PROVE WindowFits
  <2>1. /\ FitInv /\ sdl.size \in Sizes /\ content_size \in FrameSizes
    BY <1>1 DEF InterfaceInv, InterfaceTypeOK, SizesInv, SdlWindow
  <2>2. /\ get_optimal_size(sdl.size, content_size).width <= sdl.size.width
        /\ get_optimal_size(sdl.size, content_size).height <= sdl.size.height
    BY <2>1, OptimalFits
  <2> QED BY <2>1, <2>2 DEF FitInv, WindowFits
<1> QED BY <1>1, InterfaceInvariance, PTL

\* A point of what is drawn is scaled to a point of the content, never past its end.
LEMMA ScaledPoint ==
  ASSUME NEW p \in Int, NEW origin \in Int, NEW drawn \in Nat, NEW extent \in Nat \ {0},
         p \in origin .. origin + drawn - 1
  PROVE  ((p - origin) * extent) \div drawn \in 0..extent - 1
<1>1. PICK d \in Nat : p - origin = d /\ d < drawn
  OBVIOUS
<1>2. drawn \in Nat \ {0} /\ extent \in Nat
  BY <1>1
<1> DEFINE a == d * extent
           q == a \div drawn
<1>3. a \in Nat /\ a < drawn * extent
  <2>1. d + 1 <= drawn
    BY <1>1
  <2>2. (d + 1) * extent <= drawn * extent
    BY <1>1, <2>1, Products
  <2>3. (d + 1) * extent = d * extent + extent /\ d * extent \in Nat /\ drawn * extent \in Nat
    BY <1>1
  <2> QED BY <2>2, <2>3
<1> HIDE DEF a
<1>4. q \in Nat /\ drawn * q <= a
  BY <1>2, <1>3
<1> HIDE DEF q
<1>5. q < extent
  <2>1. drawn * q = q * drawn /\ drawn * extent = extent * drawn
    BY <1>2, <1>4
  <2>2. q * drawn < extent * drawn
    <3>1. drawn * q \in Nat /\ drawn * extent \in Nat
      BY <1>2, <1>4
    <3> QED BY <1>3, <1>4, <2>1, <3>1
  <2> QED BY <1>2, <1>4, <2>2, Products
<1> QED BY <1>1, <1>4, <1>5 DEF a, q

\* A click on what is drawn is on a pixel of the frame, one too far along the sides that
\* the rotation reverses (screen_convert_drawable_to_frame_coords).
THEOREM ClicksAreOnTheFrame == InterfaceSpec => []ClicksHitTheFrame
<1>1. ASSUME InterfaceInv PROVE ClicksHitTheFrame
  <2>1. /\ frame_size \in FrameSizes /\ content_size = get_rotated_size(frame_size, rotation)
        /\ rotation \in 0..3 /\ rect \in [x : Int, y : Int, w : Nat, h : Nat]
        /\ content_size \in FrameSizes
        /\ has_frame /\ ~sdl.changed => rect = ContentRect(sdl.size, content_size)
    BY <1>1 DEF InterfaceInv, InterfaceTypeOK, SizesInv, DrawnInv
  <2>2. ASSUME NEW px \in rect.x .. rect.x + rect.w - 1, NEW py \in rect.y .. rect.y + rect.h - 1
        PROVE  /\ FrameCoords(px, py).x \in Reached(frame_size.width, rotation \in {1, 2})
               /\ FrameCoords(px, py).y \in Reached(frame_size.height, rotation \in {2, 3})
    <3> DEFINE w == content_size.width
               h == content_size.height
               x == ((px - rect.x) * w) \div rect.w
               y == ((py - rect.y) * h) \div rect.h
    <3>1. /\ rect.x \in Int /\ rect.y \in Int /\ rect.w \in Nat /\ rect.h \in Nat
          /\ w \in Nat \ {0} /\ h \in Nat \ {0} /\ px \in Int /\ py \in Int
      BY <2>1 DEF FrameSizes
    <3>2. x \in 0..w - 1 /\ y \in 0..h - 1
      BY <3>1, ScaledPoint
    <3>3. FrameCoords(px, py) = CASE rotation = 0 -> [x |-> x, y |-> y]
                                  [] rotation = 1 -> [x |-> h - y, y |-> x]
                                  [] rotation = 2 -> [x |-> w - x, y |-> h - y]
                                  [] rotation = 3 -> [x |-> y, y |-> w - x]
      BY DEF FrameCoords
    <3> HIDE DEF x, y
    <3>4. /\ rotation \in {0, 2} => w = frame_size.width /\ h = frame_size.height
          /\ rotation \in {1, 3} => w = frame_size.height /\ h = frame_size.width
      BY <2>1 DEF get_rotated_size, Size
    <3> HIDE DEF w, h
    <3>5. CASE rotation = 0
      BY <3>1, <3>2, <3>3, <3>4, <3>5 DEF Reached
    <3>6. CASE rotation = 1
      BY <3>1, <3>2, <3>3, <3>4, <3>6 DEF Reached
    <3>7. CASE rotation = 2
      BY <3>1, <3>2, <3>3, <3>4, <3>7 DEF Reached
    <3>8. CASE rotation = 3
      BY <3>1, <3>2, <3>3, <3>4, <3>8 DEF Reached
    <3> QED BY <2>1, <3>5, <3>6, <3>7, <3>8
  <2> QED BY <2>1, <2>2 DEF ClicksHitTheFrame, Drawn
<1> QED BY <1>1, InterfaceInvariance, PTL

\* Nothing stays pressed on the device once it is released, but what a shortcut's
\* modifiers hide (input_manager_process_key, input_manager_process_mouse_button).
THEOREM NothingStaysPressed == InterfaceSpec => []NothingSticks
<1>1. ASSUME InterfaceInv PROVE NothingSticks
  <2>1. OwedInv /\ user.buttons \subseteq Buttons
    BY <1>1, UserTypes DEF InterfaceInv
  <2>2. ASSUME NEW thing \in owed
        PROVE  thing \in Presses(held) \cup {"finger"}
                           \cup (IF is_shortcut_mod(mods) THEN Modifiers ELSE mods)
    <3>1. CASE thing = "finger" \/ thing = held
      BY <3>1 DEF Presses
    <3>2. CASE thing = "mouse" /\ OwedToMouse
      BY <2>1, <3>2 DEF OwedToMouse, Presses
    <3>3. CASE OwedToModifier(thing)
      BY <3>3 DEF OwedToModifier
    <3>4. CASE OwedToShortcut /\ thing = DeviceKey[held]
      BY <3>4 DEF OwedToShortcut, Presses
    <3>5. CASE OwedToButton /\ thing = ButtonKey[held]
      BY <3>5 DEF OwedToButton, Presses
    <3> QED BY <2>1, <3>1, <3>2, <3>3, <3>4, <3>5 DEF OwedInv, Accounted
  <2> QED BY <2>1, <2>2 DEF OwedInv, NothingSticks
<1> QED BY <1>1, InterfaceInvariance, PTL

\* Without control, the device gets nothing but the touches (input_manager.c:844).
THEOREM NothingWithoutControl == InterfaceSpec => []NothingIsSentWithoutControl
<1>1. InterfaceInv => NothingIsSentWithoutControl
  BY DEF InterfaceInv
<1> QED BY <1>1, InterfaceInvariance, PTL
===============================================================================
