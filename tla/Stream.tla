-------------------------------- MODULE Stream --------------------------------
(****************************************************************************)
(* The stream thread (stream.c) and the decoder it calls (decoder.c).  It   *)
(* receives packets and pushes them to the packet sinks: the decoder, that  *)
(* pushes the frames to its own sinks, and the recorder.                    *)
(*                                                                          *)
(* A packet is the sequence of the numbers of the device packets its data   *)
(* is made of.  The sinks are opened, pushed to and closed one step at a    *)
(* time: frame sinks may be added meanwhile.                                *)
(****************************************************************************)
EXTENDS Naturals, Sequences, SequencesExt, FiniteSetsExt

CONSTANTS MaxPackets,   \* bound: how many packets the device sends
          External      \* the sinks the client of the library may add

ASSUME StreamAssumption ==
  MaxPackets \in Nat /\ External \cap {"decoder", "recorder", "screen", "v4l2", "unset"} = {}

VARIABLES
  thread,        \* where the stream thread is
  packetSinks,   \* stream->sinks
  frameSinks,    \* decoder->sinks
  i,             \* the packet sink to open, to push to, or the last to close
  j,             \* the same in the frame sinks
  received,      \* how many packets were received
  packet,        \* the packet being pushed, NoPacket if there is none
  isConfig,      \* whether it is a config packet
  pending,       \* stream->pending, NoPacket if there is none
  decoded,       \* what the codec was sent
  status,        \* what happened to each sink
  strays         \* the sinks that were called while they were not open

stream == <<thread, packetSinks, frameSinks, i, j, received, packet, isConfig,
            pending, decoded, status, strays>>
loop == <<i, j>>
data == <<received, packet, isConfig, pending, decoded>>
sinks == <<packetSinks, frameSinks>>

NoPacket == <<>>
Unset == "unset"     \* a slot of decoder->sinks that is counted but not written
FrameSink == {"screen", "v4l2"} \cup External
Sink == {"decoder", "recorder"} \cup FrameSink

\* stream_init, decoder_init; the sinks are added before the thread starts.
StreamInit ==
  /\ thread = "none" /\ packetSinks = <<>> /\ frameSinks = <<>>
  /\ i = 0 /\ j = 0
  /\ received = 0 /\ packet = NoPacket /\ isConfig = FALSE /\ pending = NoPacket
  /\ decoded = <<>>
  /\ status = [s \in Sink |-> "new"] /\ strays = {}

\* A sink becomes open, refused (its open() failed) or closed.
Becomes(sink, state) == status' = [status EXCEPT ![sink] = state]

\* The sink is pushed to or closed: a stray call if it is not open.
Calls(sink) == strays' = strays \cup (IF status[sink] = "open" THEN {} ELSE {sink})

\* The thread calls through a slot that was never written.
CallUnset ==
  /\ \/ thread \in {"openFrameSinks", "pushFrame"} /\ j <= Len(frameSinks)
     \/ thread = "closeFrameSinks" /\ j > 0
  /\ frameSinks[j] = Unset
  /\ thread' = "crashed"
  /\ UNCHANGED <<sinks, loop, data, status, strays>>

-------------------------------------------------------------------------------
(* Opening the sinks. *)

\* The codec or its context is missing: the end of the stream is announced.
CodecMissing ==
  /\ thread = "start"
  /\ thread' = "eos"
  /\ UNCHANGED <<sinks, loop, data, status, strays>>

OpenSinks ==
  /\ thread = "start"
  /\ thread' = "openSinks" /\ i' = 1
  /\ UNCHANGED <<sinks, j, data, status, strays>>

\* decoder_open: its codec and its frame, then the frame sinks.
OpenDecoder ==
  /\ thread = "openSinks" /\ i <= Len(packetSinks) /\ packetSinks[i] = "decoder"
  /\ thread' = "openFrameSinks" /\ j' = 1
  /\ UNCHANGED <<sinks, i, data, status, strays>>

\* Faulty: a frame sink that does not open leaves the previous ones open.
OpenFrameSinkLeaving ==
  /\ thread = "openFrameSinks" /\ j <= Len(frameSinks) /\ frameSinks[j] # Unset
  /\ \/ Becomes(frameSinks[j], "open") /\ j' = j + 1 /\ UNCHANGED <<thread, i>>
     \/ /\ frameSinks[j] # "screen"
        /\ status' = [status EXCEPT ![frameSinks[j]] = "refused", !["decoder"] = "refused"]
        /\ thread' = "closeFrameSinks" /\ j' = 0 /\ i' = i - 1
  /\ UNCHANGED <<sinks, data, strays>>

\* decoder_open_sinks: one that does not open closes those before it, and the
\* decoder does not open.
OpenFrameSink ==
  /\ thread = "openFrameSinks" /\ j <= Len(frameSinks) /\ frameSinks[j] # Unset
  /\ \/ Becomes(frameSinks[j], "open") /\ j' = j + 1 /\ UNCHANGED <<thread, i>>
     \/ /\ frameSinks[j] # "screen"
        /\ status' = [status EXCEPT ![frameSinks[j]] = "refused", !["decoder"] = "refused"]
        /\ thread' = "closeFrameSinks" /\ j' = j - 1 /\ i' = i - 1
  /\ UNCHANGED <<sinks, data, strays>>

DecoderOpened ==
  /\ thread = "openFrameSinks" /\ j > Len(frameSinks)
  /\ Becomes("decoder", "open")
  /\ thread' = "openSinks" /\ i' = i + 1 /\ j' = 0
  /\ UNCHANGED <<sinks, data, strays>>

OpenRecorder ==
  /\ thread = "openSinks" /\ i <= Len(packetSinks) /\ packetSinks[i] = "recorder"
  /\ Becomes("recorder", "open")
  /\ i' = i + 1
  /\ UNCHANGED <<thread, sinks, j, data, strays>>

\* A packet sink does not open: those before it are closed.
OpenFails ==
  /\ thread = "openSinks" /\ i <= Len(packetSinks)
  /\ Becomes(packetSinks[i], "refused")
  /\ thread' = "closeSinks" /\ i' = i - 1
  /\ UNCHANGED <<sinks, j, data, strays>>

\* The sinks are open: the parser and the packet are allocated, or not.
SinksOpened ==
  /\ thread = "openSinks" /\ i > Len(packetSinks)
  /\ \/ thread' = "recv" /\ i' = 0
     \/ thread' = "closeSinks" /\ i' = Len(packetSinks)
  /\ UNCHANGED <<sinks, j, data, status, strays>>

-------------------------------------------------------------------------------
(* Receiving a packet and pushing it. *)

\* Faulty: the config packet replaces the one that is pending.
JoinedReplacing(number) == <<number>>

\* The data of the packet, behind the data that is pending.
Joined(number) == Append(pending, number)

\* A config packet is added to the pending one, and pushed as it is.
RecvConfig ==
  /\ thread = "recv" /\ received < MaxPackets
  /\ received' = received + 1 /\ packet' = <<received'>> /\ isConfig' = TRUE
  /\ pending' = Joined(received')
  /\ thread' = "push" /\ i' = 1
  /\ UNCHANGED <<sinks, j, decoded, status, strays>>

\* A data packet is pushed behind the pending one, if there is one.
RecvData ==
  /\ thread = "recv" /\ received < MaxPackets
  /\ received' = received + 1 /\ isConfig' = FALSE
  /\ packet' = Joined(received')
  /\ pending' = (IF pending = NoPacket THEN NoPacket ELSE packet')
  /\ thread' = "push" /\ i' = 1
  /\ UNCHANGED <<sinks, j, decoded, status, strays>>

\* The end of the stream, or a packet that cannot be joined to the pending one.
RecvFails ==
  /\ thread = "recv"
  /\ received' \in {received} \cup (IF received < MaxPackets THEN {received + 1} ELSE {})
  /\ thread' = "end"
  /\ UNCHANGED <<sinks, loop, packet, isConfig, pending, decoded, status, strays>>

\* decoder_push does nothing of a config packet.
DecodeConfig ==
  /\ thread = "push" /\ i <= Len(packetSinks) /\ packetSinks[i] = "decoder"
  /\ isConfig
  /\ Calls("decoder") /\ i' = i + 1
  /\ UNCHANGED <<thread, sinks, j, data, status>>

\* The codec is sent the packet, and may have a frame for the frame sinks.
Decode ==
  /\ thread = "push" /\ i <= Len(packetSinks) /\ packetSinks[i] = "decoder"
  /\ ~isConfig
  /\ Calls("decoder") /\ decoded' = decoded \o packet
  /\ \/ thread' = "pushFrame" /\ j' = 1 /\ UNCHANGED i
     \/ i' = i + 1 /\ UNCHANGED <<thread, j>>
  /\ UNCHANGED <<sinks, received, packet, isConfig, pending, status>>

\* push_frame_to_sinks: the sinks after one that fails miss the frame, and the
\* failure is ignored.
PushFrame ==
  /\ thread = "pushFrame" /\ j <= Len(frameSinks) /\ frameSinks[j] # Unset
  /\ Calls(frameSinks[j])
  /\ \/ j' = j + 1 /\ UNCHANGED <<thread, i>>
     \/ thread' = "push" /\ i' = i + 1 /\ j' = 0
  /\ UNCHANGED <<sinks, data, status>>

FramePushed ==
  /\ thread = "pushFrame" /\ j > Len(frameSinks)
  /\ thread' = "push" /\ i' = i + 1 /\ j' = 0
  /\ UNCHANGED <<sinks, data, status, strays>>

Record ==
  /\ thread = "push" /\ i <= Len(packetSinks) /\ packetSinks[i] = "recorder"
  /\ Calls("recorder") /\ i' = i + 1
  /\ UNCHANGED <<thread, sinks, j, data, status>>

\* A packet sink fails: the stream ends.  A data packet was the pending one.
PushFails ==
  /\ thread = "push" /\ i <= Len(packetSinks)
  /\ packetSinks[i] = "decoder" => ~isConfig
  /\ Calls(packetSinks[i])
  /\ packet' = NoPacket /\ isConfig' = FALSE
  /\ pending' = (IF isConfig THEN pending ELSE NoPacket)
  /\ thread' = "end" /\ i' = 0
  /\ UNCHANGED <<sinks, j, received, decoded, status>>

\* Faulty: the pending packet is kept after it was pushed.
PushedKeepingPending ==
  /\ thread = "push" /\ i > Len(packetSinks)
  /\ packet' = NoPacket /\ isConfig' = FALSE
  /\ thread' = "recv" /\ i' = 0
  /\ UNCHANGED <<sinks, j, received, pending, decoded, status, strays>>

\* The packet was pushed: the pending one is freed with the data packet.
Pushed ==
  /\ thread = "push" /\ i > Len(packetSinks)
  /\ packet' = NoPacket /\ isConfig' = FALSE
  /\ pending' = (IF isConfig THEN pending ELSE NoPacket)
  /\ thread' = "recv" /\ i' = 0
  /\ UNCHANGED <<sinks, j, received, decoded, status, strays>>

-------------------------------------------------------------------------------
(* Closing the sinks. *)

EndOfFrames ==
  /\ thread = "end"
  /\ pending' = NoPacket
  /\ thread' = "closeSinks" /\ i' = Len(packetSinks)
  /\ UNCHANGED <<sinks, j, received, packet, isConfig, decoded, status, strays>>

\* decoder_close: all its sinks are closed, the last one first.
CloseDecoder ==
  /\ thread = "closeSinks" /\ i > 0 /\ packetSinks[i] = "decoder"
  /\ Calls("decoder") /\ Becomes("decoder", "closed")
  /\ thread' = "closeFrameSinks" /\ j' = Len(frameSinks) /\ i' = i - 1
  /\ UNCHANGED <<sinks, data>>

CloseFrameSink ==
  /\ thread = "closeFrameSinks" /\ j > 0 /\ frameSinks[j] # Unset
  /\ Calls(frameSinks[j]) /\ Becomes(frameSinks[j], "closed")
  /\ j' = j - 1
  /\ UNCHANGED <<thread, sinks, i, data>>

FrameSinksClosed ==
  /\ thread = "closeFrameSinks" /\ j = 0
  /\ thread' = "closeSinks"
  /\ UNCHANGED <<sinks, loop, data, status, strays>>

CloseRecorder ==
  /\ thread = "closeSinks" /\ i > 0 /\ packetSinks[i] = "recorder"
  /\ Calls("recorder") /\ Becomes("recorder", "closed")
  /\ i' = i - 1
  /\ UNCHANGED <<thread, sinks, j, data>>

SinksClosed ==
  /\ thread = "closeSinks" /\ i = 0
  /\ thread' = "eos"
  /\ UNCHANGED <<sinks, loop, data, status, strays>>

\* on_eos, the last thing the thread does; the session says what it does.
EndOfStream ==
  /\ thread = "eos"
  /\ thread' = "done"
  /\ UNCHANGED <<sinks, loop, data, status, strays>>

-------------------------------------------------------------------------------
Opening == CodecMissing \/ OpenSinks \/ OpenDecoder \/ OpenFrameSink \/ DecoderOpened
             \/ OpenRecorder \/ OpenFails \/ SinksOpened
Receiving == RecvConfig \/ RecvData \/ RecvFails
Pushing == DecodeConfig \/ Decode \/ PushFrame \/ FramePushed \/ Record \/ PushFails
             \/ Pushed
Closing == EndOfFrames \/ CloseDecoder \/ CloseFrameSink \/ FrameSinksClosed
             \/ CloseRecorder \/ SinksClosed

StreamTypeOK ==
  /\ thread \in {"none", "start", "openSinks", "openFrameSinks", "recv", "push",
                 "pushFrame", "end", "closeSinks", "closeFrameSinks", "eos", "done",
                 "crashed"}
  /\ packetSinks \in Seq({"decoder", "recorder"})
  /\ frameSinks \in Seq(FrameSink \cup {Unset})
  /\ i \in 0..Len(packetSinks) + 1 /\ j \in 0..Len(frameSinks) + 1
  /\ received \in 0..MaxPackets /\ isConfig \in BOOLEAN
  /\ {packet, pending, decoded} \subseteq Seq(1..MaxPackets)
  /\ status \in [Sink -> {"new", "open", "refused", "closed"}]
  /\ strays \subseteq Sink
===============================================================================
