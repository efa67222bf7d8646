------------------------------ MODULE Recording ------------------------------
(****************************************************************************)
(* What a recording promises to the stream that feeds it.  Packets are      *)
(* accepted one at a time while the recording is open.  The file holds an   *)
(* initial part of the accepted frames, in order and without a gap, each    *)
(* with its duration.  A recording either completes, and then only its very *)
(* last frame may be missing, or fails, and then the file never grows       *)
(* again.  Recorder.tla is shown to implement this module.                  *)
(****************************************************************************)
EXTENDS Integers, Sequences

CONSTANTS Pts,          \* the presentation timestamps of the frames
          NoPts,        \* the timestamp of a config packet: AV_NOPTS_VALUE
          LastDuration, \* the arbitrary duration given to the last frame
          MaxPackets    \* bound: how many packets a recording accepts

VARIABLES accepted,     \* the timestamps of the packets accepted, in order
          file,         \* the frames in the file: [id, pts, duration]
          status        \* "open", "closing", "complete" or "failed"

vars == <<accepted, file, status>>

\* The first packet becomes the header of the file; a config packet that
\* follows is not written.
IsFrame(k) == k > 1 /\ accepted[k] # NoPts

\* A frame lasts until the frame that follows it.  Nothing is known of a frame
\* followed by a config packet: its duration stays 0.
DurationOf(k) ==
  IF accepted[k + 1] # NoPts THEN accepted[k + 1] - accepted[k] ELSE 0

LastId == IF file = <<>> THEN 1 ELSE file[Len(file)].id

\* Frame k is the next frame to write.
NextFrame(k) ==
  /\ k \in (LastId + 1)..Len(accepted)
  /\ IsFrame(k)
  /\ \A j \in (LastId + 1)..(k - 1) : ~IsFrame(j)

Write(k, duration) ==
  file' = Append(file, [id |-> k, pts |-> accepted[k], duration |-> duration])

Init == accepted = <<>> /\ file = <<>> /\ status = "open"

Accept ==
  /\ status = "open"
  /\ Len(accepted) < MaxPackets
  /\ \E p \in Pts \cup {NoPts} : accepted' = Append(accepted, p)
  /\ UNCHANGED <<file, status>>

\* A frame is written once the packet after it is known.
WriteFrame ==
  /\ status \in {"open", "closing"}
  /\ \E k \in 1..(Len(accepted) - 1) : NextFrame(k) /\ Write(k, DurationOf(k))
  /\ UNCHANGED <<accepted, status>>

\* The last frame is written when no more packets can come.
WriteLast ==
  /\ status = "closing"
  /\ NextFrame(Len(accepted))
  /\ Write(Len(accepted), LastDuration)
  /\ UNCHANGED <<accepted, status>>

Close ==
  /\ status = "open"
  /\ status' = "closing"
  /\ UNCHANGED <<accepted, file>>

\* Only the last frame may be missing from a complete recording, and only a
\* recording that begins with a config packet can be complete.
Complete ==
  /\ status = "closing"
  /\ accepted # <<>> /\ accepted[1] = NoPts
  /\ \A k \in (LastId + 1)..(Len(accepted) - 1) : ~IsFrame(k)
  /\ status' = "complete"
  /\ UNCHANGED <<accepted, file>>

Fail ==
  /\ status \in {"open", "closing"}
  /\ status' = "failed"
  /\ UNCHANGED <<accepted, file>>

Next == Accept \/ WriteFrame \/ WriteLast \/ Close \/ Complete \/ Fail

Spec == Init /\ [][Next]_vars
==============================================================================
