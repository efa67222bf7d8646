------------------------------- MODULE Recorder -------------------------------
(****************************************************************************)
(* The recorder (recorder.c): the stream thread opens it, pushes packets to *)
(* it and closes it; a thread of its own writes them to a file.  The two    *)
(* share a queue, guarded by a mutex and a condition variable, and the      *)
(* flags `stopped' and `failed'.                                            *)
(*                                                                          *)
(* A critical section is one step: nothing in it blocks.  What the code     *)
(* does between two critical sections is a step of its own.                 *)
(****************************************************************************)
EXTENDS Integers, Sequences

CONSTANTS Pts,          \* the presentation timestamps of the frames
          NoPts,        \* the timestamp of a config packet: AV_NOPTS_VALUE
          NoPacket,     \* the null packet
          MaxPackets    \* bound: how many packets the stream pushes

ASSUME RecorderAssumption ==
  /\ Pts \subseteq Int
  /\ NoPts \notin Int
  /\ MaxPackets \in Nat
  /\ NoPacket \notin [id : 1..MaxPackets, pts : Pts \cup {NoPts}, duration : Int]

VARIABLES
  stream,         \* where the stream thread is
  thread,         \* where the recorder thread is
  queue,          \* the packets pushed and not yet taken
  stopped,        \* set by recorder_close
  failed,         \* set by the recorder thread
  headerWritten,
  previous,       \* the last packet taken: written when the next one is known
  writing,        \* the local `previous' of run_recorder, being written
  file,           \* the frames written to the file
  trailerWritten, \* avformat wrote the trailer: the file is complete
  accepted,       \* history: the timestamps of the packets queued, in order
  live            \* history: the packets allocated and not yet deleted

shared == <<queue, stopped, failed>>
output == <<file, headerWritten, trailerWritten>>
vars == <<stream, thread, shared, previous, writing, output, accepted, live>>

Packet == [id : 1..MaxPackets, pts : Pts \cup {NoPts}, duration : Int]

\* Faulty: the last packet is left without a duration.
LastDurationUnset == NoPts

\* An arbitrary duration for the last packet.
LastDuration == 100000

Init ==
  /\ stream = "open" /\ thread = "none"
  /\ queue = <<>> /\ stopped = FALSE /\ failed = FALSE
  /\ previous = NoPacket /\ writing = NoPacket
  /\ file = <<>> /\ headerWritten = FALSE /\ trailerWritten = FALSE
  /\ accepted = <<>> /\ live = {}

-------------------------------------------------------------------------------
(* The stream thread. *)

\* Faulty: the condition is not signalled.
SignalForgotten == UNCHANGED thread

\* sc_cond_signal: the only thread that may wait is the recorder thread.
Signal == thread' = IF thread = "wait" THEN "lock" ELSE thread

\* recorder_open: the output file, then the thread.
Open ==
  /\ stream = "open"
  /\ stream' = "push" /\ thread' = "lock"
  /\ UNCHANGED <<shared, previous, writing, output, accepted, live>>

\* Any step of recorder_open fails: all is undone, the stream ends at once.
OpenFails ==
  /\ stream = "open"
  /\ stream' = "eos"
  /\ UNCHANGED <<thread, shared, previous, writing, output, accepted, live>>

\* Faulty: recorder_push does not test `failed'.
PushThoughFailed ==
  /\ stream = "push" /\ Len(accepted) < MaxPackets
  /\ \E p \in Pts \cup {NoPts} :
       /\ queue' = Append(queue, [id |-> Len(accepted) + 1, pts |-> p, duration |-> 0])
       /\ accepted' = Append(accepted, p)
  /\ live' = live \cup {Len(accepted) + 1}
  /\ Signal
  /\ UNCHANGED <<stream, stopped, failed, previous, writing, output>>

\* recorder_push accepts a packet.
Push ==
  /\ stream = "push" /\ ~failed
  /\ Len(accepted) < MaxPackets
  /\ \E p \in Pts \cup {NoPts} :
       LET id == Len(accepted) + 1 IN
       /\ queue' = Append(queue, [id |-> id, pts |-> p, duration |-> 0])
       /\ accepted' = Append(accepted, p)
       /\ live' = live \cup {id}
  /\ Signal
  /\ UNCHANGED <<stream, stopped, failed, previous, writing, output>>

\* recorder_push returns false, because the recorder failed or a packet could
\* not be allocated: the stream stops.  The stream also stops at its end, or
\* when another sink fails.
StreamEnds ==
  /\ stream = "push"
  /\ stream' = "close"
  /\ UNCHANGED <<thread, shared, previous, writing, output, accepted, live>>

Close ==
  /\ stream = "close"
  /\ stream' = "join"
  /\ stopped' = TRUE
  /\ Signal
  /\ UNCHANGED <<queue, failed, previous, writing, output, accepted, live>>

\* sc_thread_join returns; the file and the context are closed.
Join ==
  /\ stream = "join" /\ thread = "done"
  /\ stream' = "eos"
  /\ UNCHANGED <<thread, shared, previous, writing, output, accepted, live>>

-------------------------------------------------------------------------------
(* The recorder thread. *)

\* recorder_write: `ok' is what it returns.  The first packet must be a config
\* packet and becomes the header; later config packets are ignored.
Written(packet, ok) ==
  /\ \/ /\ ~headerWritten /\ packet.pts # NoPts
        /\ ~ok
        /\ UNCHANGED <<file, headerWritten>>
     \/ /\ ~headerWritten /\ packet.pts = NoPts
        /\ headerWritten' = ok
        /\ UNCHANGED file
     \/ /\ headerWritten /\ packet.pts = NoPts
        /\ ok
        /\ UNCHANGED <<file, headerWritten>>
     \/ /\ headerWritten /\ packet.pts # NoPts
        /\ file' = (IF ok THEN Append(file, packet) ELSE file)
        /\ UNCHANGED headerWritten
  /\ UNCHANGED trailerWritten

\* sc_cond_wait releases the mutex and waits.
Wait ==
  /\ thread = "lock" /\ ~stopped /\ queue = <<>>
  /\ thread' = "wait"
  /\ UNCHANGED <<stream, shared, previous, writing, output, accepted, live>>

\* A condition variable may wake up without a signal.
SpuriousWakeup ==
  /\ thread = "wait"
  /\ thread' = "lock"
  /\ UNCHANGED <<stream, shared, previous, writing, output, accepted, live>>

\* The duration of `packet' is known when `next' is: a config packet has none.
Lasting(packet, duration) ==
  [id |-> packet.id, pts |-> packet.pts, duration |-> duration]
\* Faulty: the timestamps are swapped.
WithDurationSwapped(packet, next) ==
  IF next.pts # NoPts /\ packet.pts # NoPts
  THEN Lasting(packet, packet.pts - next.pts)
  ELSE packet

WithDuration(packet, next) ==
  IF next.pts # NoPts /\ packet.pts # NoPts
  THEN Lasting(packet, next.pts - packet.pts)
  ELSE packet

\* The head of the queue is taken and kept, the packet kept before is written.
Take ==
  /\ thread = "lock" /\ queue # <<>>
  /\ queue' = Tail(queue)
  /\ previous' = Head(queue)
  /\ IF previous = NoPacket
     THEN writing' = NoPacket /\ thread' = "lock"
     ELSE writing' = WithDuration(previous, Head(queue)) /\ thread' = "write"
  /\ UNCHANGED <<stream, stopped, failed, output, accepted, live>>

WriteOk ==
  /\ thread = "write"
  /\ Written(writing, TRUE)
  /\ live' = live \ {writing.id} /\ writing' = NoPacket
  /\ thread' = "lock"
  /\ UNCHANGED <<stream, shared, previous, accepted>>

\* Faulty: the thread goes on after a failure.
WriteFailsUnnoticed ==
  /\ thread = "write"
  /\ Written(writing, FALSE)
  /\ live' = live \ {writing.id} /\ writing' = NoPacket
  /\ thread' = "lock"
  /\ UNCHANGED <<stream, shared, previous, accepted>>

WriteFails ==
  /\ thread = "write"
  /\ Written(writing, FALSE)
  /\ live' = live \ {writing.id} /\ writing' = NoPacket
  /\ thread' = "fail"
  /\ UNCHANGED <<stream, shared, previous, accepted>>

\* Faulty: the queue is emptied but its packets are not deleted.
SetFailedLeaking ==
  /\ thread = "fail"
  /\ failed' = TRUE
  /\ queue' = <<>>
  /\ thread' = "trailer"
  /\ UNCHANGED <<stream, stopped, previous, writing, output, accepted, live>>

\* The packets queued are deleted, the one in `previous' is not.
SetFailed ==
  /\ thread = "fail"
  /\ failed' = TRUE
  /\ live' = live \ {queue[i].id : i \in 1..Len(queue)}
  /\ queue' = <<>>
  /\ thread' = "trailer"
  /\ UNCHANGED <<stream, stopped, previous, writing, output, accepted>>

\* Faulty: the thread stops at once, whatever is queued.
DrainedEarly ==
  /\ thread = "lock" /\ stopped
  /\ thread' = IF previous = NoPacket THEN "trailer" ELSE "last"
  /\ UNCHANGED <<stream, shared, previous, writing, output, accepted, live>>

\* Stopped, and all that was queued has been taken.
Drained ==
  /\ thread = "lock" /\ stopped /\ queue = <<>>
  /\ thread' = IF previous = NoPacket THEN "trailer" ELSE "last"
  /\ UNCHANGED <<stream, shared, previous, writing, output, accepted, live>>

\* The last packet is written and deleted; a failure to write it is ignored.
WriteLast ==
  /\ thread = "last"
  /\ \E ok \in BOOLEAN : Written(Lasting(previous, LastDuration), ok)
  /\ live' = live \ {previous.id}
  /\ thread' = "trailer"
  /\ UNCHANGED <<stream, shared, previous, writing, accepted>>

\* An empty recording is a failed one.
WriteTrailer ==
  /\ thread = "trailer"
  /\ \E ok \in BOOLEAN :
       /\ trailerWritten' = (~failed /\ headerWritten /\ ok)
       /\ failed' = ~trailerWritten'
  /\ thread' = "done"
  /\ UNCHANGED <<stream, queue, stopped, previous, writing, file, headerWritten,
                 accepted, live>>

-------------------------------------------------------------------------------
StreamStep == Open \/ OpenFails \/ Push \/ StreamEnds \/ Close \/ Join

ThreadStep ==
  \/ Wait \/ Take \/ WriteOk \/ WriteFails \/ SetFailed
  \/ Drained \/ WriteLast \/ WriteTrailer

\* The stream ended: both threads are over.
Terminated == stream = "eos" /\ UNCHANGED vars

Next == StreamStep \/ ThreadStep \/ SpuriousWakeup \/ Terminated

\* Both threads run; the stream itself may last for ever, and no wakeup comes
\* unasked for.
Fairness == WF_vars(ThreadStep) /\ WF_vars(Close) /\ WF_vars(Join)

Spec == Init /\ [][Next]_vars /\ Fairness

-------------------------------------------------------------------------------
(* Properties. *)

TypeOK ==
  /\ stream \in {"open", "push", "close", "join", "eos"}
  /\ thread \in {"none", "lock", "wait", "write", "fail", "last", "trailer", "done"}
  /\ queue \in Seq(Packet)
  /\ stopped \in BOOLEAN /\ failed \in BOOLEAN
  /\ previous \in Packet \cup {NoPacket}
  /\ writing \in Packet \cup {NoPacket}
  /\ file \in Seq(Packet)
  /\ headerWritten \in BOOLEAN /\ trailerWritten \in BOOLEAN
  /\ accepted \in Seq(Pts \cup {NoPts}) /\ Len(accepted) <= MaxPackets
  /\ live \subseteq 1..MaxPackets

\* The recorder thread never waits while there is something to do: no signal of
\* recorder_push or recorder_close is lost between its test and its wait.
NoLostWakeup == thread = "wait" => queue = <<>> /\ ~stopped

\* The packets that the file must hold: all but the header and config packets.
IsFrame(k) == k > 1 /\ accepted[k] # NoPts

LastId == IF file = <<>> THEN 1 ELSE file[Len(file)].id

\* The file holds the accepted frames up to some point: none is lost, reordered,
\* repeated or changed, whatever fails and whenever the stream stops.
FileHasNoGap ==
  \A i \in 1..Len(file) :
    LET before == IF i = 1 THEN 1 ELSE file[i - 1].id
    IN  /\ file[i].id \in (before + 1)..Len(accepted)
        /\ IsFrame(file[i].id) /\ file[i].pts = accepted[file[i].id]
        /\ \A k \in (before + 1)..(file[i].id - 1) : ~IsFrame(k)

\* A frame lasts until the next one: the packet written is always given its
\* duration from the packet that follows it in the stream, and only the last
\* packet of a closed recording has the arbitrary one.
FramesHaveTheirDuration ==
  \A i \in 1..Len(file) :
    LET k == file[i].id IN
    file[i].duration =
      IF k = Len(accepted) THEN LastDuration
      ELSE IF accepted[k + 1] = NoPts THEN 0 ELSE accepted[k + 1] - accepted[k]

\* A recording announced as complete misses at most the last frame: stopping
\* does not discard what is queued.
CompleteFileHasEveryFrame ==
  trailerWritten =>
    /\ ~failed /\ accepted[1] = NoPts
    /\ \A k \in (LastId + 1)..(Len(accepted) - 1) : ~IsFrame(k)

\* Whatever fails and whenever the stream stops, the file is the start of the
\* stream, each frame with its duration, and complete if it is said to be
\* (recorder.c, run_recorder and recorder_write).
FileIsFaithful ==
  /\ TypeOK
  /\ FileHasNoGap
  /\ FramesHaveTheirDuration
  /\ CompleteFileHasEveryFrame

\* Every packet is deleted once: it belongs to the queue, to `previous' or to
\* `writing' until it is deleted, and at the end nothing is left, except for
\* the packet in `previous' when writing failed.
Owned(packet) == IF packet = NoPacket THEN {} ELSE {packet.id}
Queued == {queue[i].id : i \in 1..Len(queue)}
PacketsAreOwned ==
  /\ thread \notin {"trailer", "done"} =>
       /\ live = Queued \cup Owned(previous) \cup Owned(writing)
       /\ Queued \cap (Owned(previous) \cup Owned(writing)) = {}
       /\ previous # NoPacket => writing # previous
  /\ thread \in {"trailer", "done"} => live \subseteq Owned(previous)
  /\ trailerWritten => live = {}

\* Once the recorder failed nothing more is recorded or queued: what recorder_push
\* would accept then would be deleted by nobody.
FailureIsFinal == [][failed => UNCHANGED <<failed, file, accepted, live>>]_vars

\* The recorder keeps up: a frame is in the file once a packet follows it, or the
\* recorder failed; and recorder_close returns: the thread ends when it is told
\* to, after what it still has to write.
InFile(k) == \E i \in 1..Len(file) : file[i].id = k
FramesReachTheFile ==
  /\ \A k \in 1..MaxPackets :
       (k < Len(accepted) /\ IsFrame(k)) ~> (InFile(k) \/ failed)
  /\ stream = "close" ~> stream = "eos"

\* The recorder implements the recording the stream may rely on.
status ==
  IF failed THEN "failed"
  ELSE IF trailerWritten THEN "complete"
  ELSE IF stopped THEN "closing" ELSE "open"
Promise == INSTANCE Recording
ImplementsRecording == Promise!Spec
===============================================================================
