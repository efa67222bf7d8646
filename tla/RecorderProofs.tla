---------------------------- MODULE RecorderProofs ----------------------------
(****************************************************************************)
(* Proofs about the recorder, for any timestamps and any number of packets. *)
(****************************************************************************)
EXTENDS Recorder, SequenceTheorems, TLAPS

\* How many packets the recorder thread took from the queue.
Taken == Len(accepted) - Len(queue)

\* Where the threads may be together, and what the flags say of it.
ThreadsInv ==
  /\ thread = "none" => stream \in {"open", "eos"} /\ accepted = <<>>
  /\ stream = "open" => thread = "none"
  /\ stopped => stream \in {"join", "eos"}
  /\ stream = "eos" => thread \in {"none", "done"}
  /\ thread = "wait" => queue = <<>> /\ ~stopped
  /\ failed => thread \in {"trailer", "done"}
  /\ thread = "last" => stopped /\ queue = <<>>
  /\ thread \in {"trailer", "done"} => queue = <<>> /\ (stopped \/ failed)
  /\ trailerWritten => thread = "done" /\ ~failed /\ headerWritten

\* The queue holds the packets accepted and not taken.
QueueInv ==
  /\ Taken \in 0..Len(accepted)
  /\ \A i \in 1..Len(queue) :
       queue[i] = [id |-> Taken + i, pts |-> accepted[Taken + i], duration |-> 0]

\* What the recorder thread holds: the last packet taken, and the one before it
\* while it writes it.
HeldInv ==
  /\ thread \notin {"trailer", "done"} =>
       IF previous = NoPacket THEN Taken = 0
       ELSE /\ Taken > 0
            /\ previous = [id |-> Taken, pts |-> accepted[Taken], duration |-> 0]
  /\ thread \in {"write", "fail", "last"} => previous # NoPacket
  /\ thread = "write" =>
       /\ Taken > 1
       /\ writing # NoPacket
       /\ writing.id = Taken - 1
       /\ writing.pts = accepted[Taken - 1]
       /\ writing.duration =
            IF accepted[Taken] # NoPts /\ accepted[Taken - 1] # NoPts
            THEN accepted[Taken] - accepted[Taken - 1] ELSE 0

\* All packets up to k are dealt with: the first one is the header, the frames
\* after it are in the file.
WrittenUpTo(k) ==
  /\ headerWritten <=> k > 0
  /\ file # <<>> => LastId <= k
  /\ \A j \in (LastId + 1)..k : ~IsFrame(j)

FileInv ==
  /\ FileHasNoGap
  /\ FramesHaveTheirDuration
  /\ thread \notin {"trailer", "done"} =>
       \A i \in 1..Len(file) : file[i].id < Taken
  /\ ~headerWritten => file = <<>>
  /\ headerWritten => accepted # <<>> /\ accepted[1] = NoPts
  /\ thread \in {"lock", "wait", "last"} => WrittenUpTo(Taken - 1)
  /\ thread = "write" => WrittenUpTo(Taken - 2)
  /\ thread = "none" => ~headerWritten
  /\ thread \in {"trailer", "done"} /\ ~failed =>
       \A k \in (LastId + 1)..(Len(accepted) - 1) : ~IsFrame(k)

IInv == TypeOK /\ ThreadsInv /\ QueueInv /\ HeldInv /\ FileInv

-------------------------------------------------------------------------------
\* A packet carries a small number and is never the null packet.
LEMMA PacketFacts ==
  /\ NoPacket \notin Packet
  /\ Pts \subseteq Int /\ NoPts \notin Int /\ MaxPackets \in Nat
  BY RecorderAssumption DEF Packet

\* A packet stays a packet when it is given its duration.
LEMMA WithDurationType ==
  ASSUME NEW p \in Packet, NEW n \in Packet
  PROVE  WithDuration(p, n) \in Packet
  <1>1. p.pts # NoPts => p.pts \in Int
    BY PacketFacts DEF Packet
  <1>2. n.pts # NoPts => n.pts \in Int
    BY PacketFacts DEF Packet
  <1> QED
    BY <1>1, <1>2 DEF WithDuration, Lasting, Packet

\* What recorder_write does to the file is well typed.
LEMMA WrittenType ==
  ASSUME TypeOK, NEW p \in Packet, NEW ok \in BOOLEAN, Written(p, ok)
  PROVE  /\ file' \in Seq(Packet)
         /\ headerWritten' \in BOOLEAN /\ trailerWritten' \in BOOLEAN
  <1>1. Append(file, p) \in Seq(Packet)
    BY AppendProperties DEF TypeOK
  <1>2. file' \in {file, Append(file, p)}
    BY DEF Written
  <1>3. headerWritten' \in {headerWritten, ok} /\ trailerWritten' = trailerWritten
    BY DEF Written
  <1> QED
    BY <1>1, <1>2, <1>3 DEF TypeOK

\* The variables always have their types (Recorder.tla, TypeOK).
LEMMA TypeInit == Init => TypeOK
  <1> SUFFICES ASSUME Init PROVE TypeOK
    OBVIOUS
  <1>1. queue \in Seq(Packet) /\ file \in Seq(Packet)
    BY EmptySeq DEF Init
  <1>2. accepted \in Seq(Pts \cup {NoPts}) /\ Len(accepted) = 0
    BY EmptySeq DEF Init
  <1>3. live \subseteq 1..MaxPackets
    BY DEF Init
  <1>4. Len(accepted) <= MaxPackets
    BY <1>2, PacketFacts
  <1> QED
    BY <1>1, <1>2, <1>3, <1>4 DEF Init, TypeOK

\* Every step keeps the types.
LEMMA TypeNext == TypeOK /\ HeldInv /\ [Next]_vars => TypeOK'
  <1> SUFFICES ASSUME TypeOK, HeldInv, [Next]_vars PROVE TypeOK'
    OBVIOUS
  <1> USE PacketFacts DEF TypeOK
  <1>1. CASE Open
    BY <1>1 DEF Open, shared, output
  <1>2. CASE OpenFails
    BY <1>2 DEF OpenFails, shared, output
  <1>3. CASE Push
    <2>1. PICK p \in Pts \cup {NoPts} :
            /\ queue' = Append(queue, [id |-> Len(accepted) + 1, pts |-> p, duration |-> 0])
            /\ accepted' = Append(accepted, p)
            /\ live' = live \cup {Len(accepted) + 1}
      BY <1>3 DEF Push
    <2>2. Len(accepted) + 1 \in 1..MaxPackets
      BY <1>3, LenProperties DEF Push
    <2>3. [id |-> Len(accepted) + 1, pts |-> p, duration |-> 0] \in Packet
      BY <2>2 DEF Packet
    <2>4. queue' \in Seq(Packet)
      BY <2>1, <2>3, AppendProperties
    <2>5. live' \subseteq 1..MaxPackets
      BY <2>1, <2>2
    <2>6. accepted' \in Seq(Pts \cup {NoPts}) /\ Len(accepted') <= MaxPackets
      BY <2>1, <2>2, AppendProperties
    <2> QED
      BY <1>3, <2>4, <2>5, <2>6 DEF Push, Signal, output
  <1>4. CASE StreamEnds
    BY <1>4 DEF StreamEnds, shared, output
  <1>5. CASE Close
    BY <1>5 DEF Close, Signal, output
  <1>6. CASE Join
    BY <1>6 DEF Join, shared, output
  <1>7. CASE Wait
    BY <1>7 DEF Wait, shared, output
  <1>8. CASE Take
    <2>1. Head(queue) \in Packet /\ Tail(queue) \in Seq(Packet)
      BY <1>8, HeadTailProperties DEF Take
    <2>2. previous # NoPacket => WithDuration(previous, Head(queue)) \in Packet
      BY <2>1, WithDurationType
    <2> QED
      BY <1>8, <2>1, <2>2 DEF Take, output
  <1>9. CASE WriteOk
    <2>1. writing \in Packet
      BY <1>9 DEF WriteOk, HeldInv
    <2>2. /\ file' \in Seq(Packet)
          /\ headerWritten' \in BOOLEAN /\ trailerWritten' \in BOOLEAN
      BY <1>9, <2>1, WrittenType DEF WriteOk
    <2> QED
      BY <1>9, <2>2 DEF WriteOk, shared
  <1>10. CASE WriteFails
    <2>1. writing \in Packet
      BY <1>10 DEF WriteFails, HeldInv
    <2>2. /\ file' \in Seq(Packet)
          /\ headerWritten' \in BOOLEAN /\ trailerWritten' \in BOOLEAN
      BY <1>10, <2>1, WrittenType DEF WriteFails
    <2> QED
      BY <1>10, <2>2 DEF WriteFails, shared
  <1>11. CASE SetFailed
    <2>1. queue' \in Seq(Packet)
      BY <1>11, EmptySeq DEF SetFailed
    <2> QED
      BY <1>11, <2>1 DEF SetFailed, output
  <1>12. CASE Drained
    BY <1>12 DEF Drained, shared, output
  <1>13. CASE WriteLast
    <2>1. previous \in Packet
      BY <1>13 DEF WriteLast, HeldInv
    <2>2. Lasting(previous, LastDuration) \in Packet
      BY <2>1 DEF Lasting, Packet, LastDuration
    <2>3. /\ file' \in Seq(Packet)
          /\ headerWritten' \in BOOLEAN /\ trailerWritten' \in BOOLEAN
      BY <1>13, <2>2, WrittenType DEF WriteLast
    <2> QED
      BY <1>13, <2>3 DEF WriteLast, shared
  <1>14. CASE WriteTrailer
    BY <1>14 DEF WriteTrailer
  <1>15. CASE SpuriousWakeup
    BY <1>15 DEF SpuriousWakeup, shared, output
  <1>16. CASE UNCHANGED vars
    BY <1>16 DEF vars, shared, output
  <1> QED
    BY <1>1, <1>2, <1>3, <1>4, <1>5, <1>6, <1>7, <1>8, <1>9, <1>10, <1>11,
       <1>12, <1>13, <1>14, <1>15, <1>16
       DEF Next, StreamStep, ThreadStep, Terminated

-------------------------------------------------------------------------------
\* The flags agree with where the threads are.
LEMMA ThreadsNext ==
  TypeOK /\ ThreadsInv /\ HeldInv /\ FileInv /\ [Next]_vars => ThreadsInv'
  <1> SUFFICES ASSUME TypeOK, ThreadsInv, HeldInv, FileInv, [Next]_vars
               PROVE  ThreadsInv'
    OBVIOUS
  <1> USE DEF ThreadsInv
  <1>1. CASE Open
    BY <1>1 DEF Open, shared, output
  <1>2. CASE OpenFails
    BY <1>2 DEF OpenFails, shared, output
  <1>3. CASE Push
    BY <1>3 DEF Push, Signal, output
  <1>4. CASE StreamEnds
    BY <1>4 DEF StreamEnds, shared, output
  <1>5. CASE Close
    BY <1>5 DEF Close, Signal, output
  <1>6. CASE Join
    BY <1>6 DEF Join, shared, output
  <1>7. CASE Wait
    BY <1>7 DEF Wait, shared, output
  <1>8. CASE Take
    BY <1>8 DEF Take, output
  <1>9. CASE WriteOk
    BY <1>9 DEF WriteOk, Written, shared
  <1>10. CASE WriteFails
    BY <1>10 DEF WriteFails, Written, shared
  <1>11. CASE SetFailed
    BY <1>11 DEF SetFailed, output
  <1>12. CASE Drained
    BY <1>12 DEF Drained, shared, output
  <1>13. CASE WriteLast
    BY <1>13 DEF WriteLast, Written, shared
  <1>14. CASE WriteTrailer
    BY <1>14 DEF WriteTrailer, TypeOK
  <1>15. CASE SpuriousWakeup
    BY <1>15 DEF SpuriousWakeup, shared, output
  <1>16. CASE UNCHANGED vars
    BY <1>16 DEF vars, shared, output
  <1> QED
    BY <1>1, <1>2, <1>3, <1>4, <1>5, <1>6, <1>7, <1>8, <1>9, <1>10, <1>11,
       <1>12, <1>13, <1>14, <1>15, <1>16
       DEF Next, StreamStep, ThreadStep, Terminated

\* The queue stays the tail of what was accepted.
LEMMA QueueNext == TypeOK /\ ThreadsInv /\ QueueInv /\ [Next]_vars => QueueInv'
  <1> SUFFICES ASSUME TypeOK, ThreadsInv, QueueInv, [Next]_vars PROVE QueueInv'
    OBVIOUS
  <1>1. CASE Push
    <2>1. PICK p \in Pts \cup {NoPts} :
            /\ queue' = Append(queue, [id |-> Len(accepted) + 1, pts |-> p, duration |-> 0])
            /\ accepted' = Append(accepted, p)
      BY <1>1 DEF Push
    <2>2. Len(accepted) \in Nat /\ Len(queue) \in Nat
      BY LenProperties DEF TypeOK
    <2>3. /\ Len(accepted') = Len(accepted) + 1
          /\ accepted'[Len(accepted) + 1] = p
          /\ \A i \in 1..Len(accepted) : accepted'[i] = accepted[i]
      BY <2>1, AppendProperties DEF TypeOK
    <2>4. [id |-> Len(accepted) + 1, pts |-> p, duration |-> 0] \in Packet
      BY <1>1, <2>2, PacketFacts DEF Push, Packet
    <2>5. /\ Len(queue') = Len(queue) + 1
          /\ queue'[Len(queue) + 1]
               = [id |-> Len(accepted) + 1, pts |-> p, duration |-> 0]
          /\ \A i \in 1..Len(queue) : queue'[i] = queue[i]
      BY <2>1, <2>4, AppendProperties DEF TypeOK
    <2>6. Taken' = Taken
      BY <2>2, <2>3, <2>5 DEF Taken
    <2>7. \A i \in 1..Len(queue') :
            queue'[i] = [id |-> Taken' + i, pts |-> accepted'[Taken' + i], duration |-> 0]
      <3> SUFFICES ASSUME NEW i \in 1..Len(queue')
                   PROVE  queue'[i] = [id |-> Taken' + i, pts |-> accepted'[Taken' + i],
                                       duration |-> 0]
        OBVIOUS
      <3>1. CASE i \in 1..Len(queue)
        <4>1. Taken + i \in 1..Len(accepted)
          BY <2>2, <3>1 DEF QueueInv, Taken
        <4> QED
          BY <2>3, <2>5, <2>6, <3>1, <4>1 DEF QueueInv
      <3>2. CASE i = Len(queue) + 1
        <4>1. Taken + i = Len(accepted) + 1
          BY <2>2, <3>2 DEF Taken
        <4> QED
          BY <2>3, <2>5, <2>6, <3>2, <4>1
      <3> QED
        BY <2>2, <2>5, <3>1, <3>2
    <2>8. Taken' \in 0..Len(accepted')
      BY <2>2, <2>3, <2>6 DEF QueueInv
    <2> QED
      BY <2>7, <2>8 DEF QueueInv
  <1>2. CASE Take
    <2>1. Len(accepted) \in Nat /\ Len(queue) \in Nat
      BY LenProperties DEF TypeOK
    <2>2. /\ Len(queue') = Len(queue) - 1
          /\ \A i \in 1..Len(queue') : queue'[i] = queue[i + 1]
      BY <1>2, HeadTailProperties DEF Take, TypeOK
    <2>3. accepted' = accepted /\ Taken' = Taken + 1 /\ Len(queue) > 0
      BY <1>2, <2>1, <2>2, EmptySeq DEF Take, Taken, TypeOK
    <2>4. \A i \in 1..Len(queue') :
            queue'[i] = [id |-> Taken' + i, pts |-> accepted'[Taken' + i], duration |-> 0]
      <3> SUFFICES ASSUME NEW i \in 1..Len(queue')
                   PROVE  queue'[i] = [id |-> Taken' + i, pts |-> accepted'[Taken' + i],
                                       duration |-> 0]
        OBVIOUS
      <3>1. i + 1 \in 1..Len(queue) /\ queue'[i] = queue[i + 1]
        BY <2>1, <2>2
      <3>2. Taken + (i + 1) = Taken' + i
        BY <2>1, <2>2, <2>3 DEF Taken
      <3> QED
        BY <2>3, <3>1, <3>2 DEF QueueInv
    <2> QED
      BY <2>1, <2>2, <2>3, <2>4 DEF QueueInv, Taken
  <1>3. CASE SetFailed
    <2>1. queue' = <<>> /\ accepted' = accepted /\ Len(queue') = 0
      BY <1>3, EmptySeq DEF SetFailed
    <2>2. Len(accepted) \in Nat
      BY LenProperties DEF TypeOK
    <2> QED
      BY <2>1, <2>2 DEF QueueInv, Taken
  <1>4. CASE UNCHANGED <<queue, accepted>>
    BY <1>4 DEF QueueInv, Taken
  <1> QED
    BY <1>1, <1>2, <1>3, <1>4
       DEF Next, StreamStep, ThreadStep, Terminated, Open, OpenFails, StreamEnds,
           Close, Join, Wait, WriteOk, WriteFails, Drained, WriteLast, WriteTrailer,
           SpuriousWakeup, vars, shared

\* What a step does to the number of packets taken, and to the packets that were
\* already accepted.
LEMMA TakenNext ==
  ASSUME TypeOK, ThreadsInv, QueueInv, [Next]_vars
  PROVE  /\ Push => Taken' = Taken /\ Len(accepted') = Len(accepted) + 1
         /\ Take => Taken' = Taken + 1
         /\ ~Push => accepted' = accepted
         /\ ~Push /\ ~Take /\ ~SetFailed => Taken' = Taken
         /\ \A i \in 1..Len(accepted) : accepted'[i] = accepted[i]
         /\ Len(accepted) \in Nat /\ Taken \in 0..Len(accepted)
  <1>1. Len(accepted) \in Nat /\ Len(queue) \in Nat /\ Taken \in 0..Len(accepted)
    BY LenProperties DEF TypeOK, QueueInv
  <1>2. Push => Len(accepted') = Len(accepted) + 1
    BY AppendProperties DEF Push, TypeOK
  <1>3. CASE Push
    <2>1. PICK p \in Pts \cup {NoPts} :
            /\ queue' = Append(queue, [id |-> Len(accepted) + 1, pts |-> p, duration |-> 0])
            /\ accepted' = Append(accepted, p)
      BY <1>3 DEF Push
    <2>2. /\ Len(accepted') = Len(accepted) + 1
          /\ \A i \in 1..Len(accepted) : accepted'[i] = accepted[i]
      BY <2>1, AppendProperties DEF TypeOK
    <2>3. [id |-> Len(accepted) + 1, pts |-> p, duration |-> 0] \in Packet
      BY <1>1, <1>3, PacketFacts DEF Push, Packet
    <2>4. Len(queue') = Len(queue) + 1
      BY <2>1, <2>3, AppendProperties DEF TypeOK
    <2> QED
      BY <1>1, <1>3, <2>2, <2>4 DEF Taken, Push, Take
  <1>4. CASE Take
    <2>1. Len(queue') = Len(queue) - 1 /\ accepted' = accepted
      BY <1>4, HeadTailProperties DEF Take, TypeOK
    <2> QED
      BY <1>1, <1>4, <1>2, <2>1 DEF Taken, SetFailed
  <1>5. CASE SetFailed
    BY <1>1, <1>5 DEF SetFailed, Push, Take
  <1>6. CASE UNCHANGED <<queue, accepted>>
    <2>1. ~Push /\ ~Take
      <3>1. Take => Len(queue') = Len(queue) - 1
        BY HeadTailProperties DEF Take, TypeOK
      <3> QED
        BY <1>1, <1>6, <1>2, <3>1
    <2> QED
      BY <1>1, <1>6, <2>1 DEF Taken
  <1> QED
    BY <1>3, <1>4, <1>5, <1>6
       DEF Next, StreamStep, ThreadStep, Terminated, Open, OpenFails, StreamEnds,
           Close, Join, Wait, WriteOk, WriteFails, Drained, WriteLast, WriteTrailer,
           SpuriousWakeup, vars, shared

\* The packet taken from the queue is the next of those accepted.
LEMMA HeadOfQueue ==
  ASSUME TypeOK, QueueInv, Take
  PROVE  /\ Taken + 1 \in 1..Len(accepted)
         /\ Head(queue) = [id |-> Taken + 1, pts |-> accepted[Taken + 1], duration |-> 0]
  <1>1. Len(queue) \in Nat \ {0} /\ Len(accepted) \in Nat
    BY LenProperties, EmptySeq DEF Take, TypeOK
  <1>2. Head(queue) = queue[1]
    BY <1>1 DEF TypeOK
  <1>3. queue[1] = [id |-> Taken + 1, pts |-> accepted[Taken + 1], duration |-> 0]
    BY <1>1 DEF QueueInv
  <1> QED
    BY <1>1, <1>2, <1>3 DEF QueueInv, Taken

\* The recorder thread goes on holding the last packet taken, with what is known
\* of the one before.
LEMMA HeldNext ==
  TypeOK /\ ThreadsInv /\ QueueInv /\ HeldInv /\ [Next]_vars => HeldInv'
  <1> SUFFICES ASSUME TypeOK, ThreadsInv, QueueInv, HeldInv, [Next]_vars
               PROVE  HeldInv'
    OBVIOUS
  <1>1. CASE Push
    <2>1. Taken' = Taken /\ \A i \in 1..Len(accepted) : accepted'[i] = accepted[i]
      BY <1>1, TakenNext
    <2>2. Len(accepted) \in Nat /\ Taken \in 0..Len(accepted)
      BY TakenNext
    <2>3. /\ UNCHANGED <<previous, writing>>
          /\ thread' = thread \/ (thread = "wait" /\ thread' = "lock")
      BY <1>1 DEF Push, Signal
    <2>4. Taken > 0 => accepted'[Taken] = accepted[Taken]
      BY <2>1, <2>2
    <2>5. Taken > 1 => accepted'[Taken - 1] = accepted[Taken - 1]
      BY <2>1, <2>2
    <2> QED
      BY <2>1, <2>2, <2>3, <2>4, <2>5 DEF HeldInv
  <1>2. CASE Take
    <2>1. Taken' = Taken + 1 /\ accepted' = accepted
      BY <1>2, TakenNext DEF Take
    <2>2. /\ Taken + 1 \in 1..Len(accepted) /\ Taken \in Nat
          /\ Head(queue) = [id |-> Taken + 1, pts |-> accepted[Taken + 1], duration |-> 0]
      BY <1>2, HeadOfQueue, TakenNext
    <2>3. previous' = Head(queue) /\ thread = "lock"
      BY <1>2 DEF Take
    <2>4. previous' # NoPacket
      BY <1>2, <2>3, HeadTailProperties, PacketFacts DEF Take, TypeOK
    <2>5. CASE previous = NoPacket
      BY <1>2, <2>1, <2>2, <2>3, <2>4, <2>5 DEF HeldInv, Take
    <2>6. CASE previous # NoPacket
      <3>1. /\ thread' = "write" /\ writing' = WithDuration(previous, Head(queue))
            /\ previous = [id |-> Taken, pts |-> accepted[Taken], duration |-> 0]
            /\ Taken > 0
        BY <1>2, <2>3, <2>6 DEF Take, HeldInv
      <3>2. writing' # NoPacket
        <4>1. Head(queue) \in Packet /\ previous \in Packet
          BY <1>2, <2>6, HeadTailProperties DEF Take, TypeOK
        <4> QED
          BY <3>1, <4>1, WithDurationType, PacketFacts
      <3> QED
        BY <2>1, <2>2, <2>3, <2>4, <3>1, <3>2 DEF HeldInv, WithDuration, Lasting
    <2> QED
      BY <2>5, <2>6
  <1>3. CASE SetFailed
    BY <1>3 DEF SetFailed, HeldInv
  <1>4. CASE ~Push /\ ~Take /\ ~SetFailed
    <2>1. Taken' = Taken /\ accepted' = accepted /\ previous' = previous
      BY <1>4, TakenNext
         DEF Next, StreamStep, ThreadStep, Terminated, Open, OpenFails, StreamEnds,
             Close, Join, Wait, WriteOk, WriteFails, Drained, WriteLast, WriteTrailer,
             SpuriousWakeup, vars
    <2>2. \/ thread' = thread /\ writing' = writing
          \/ /\ thread' \in {"lock", "wait", "trailer", "done", "fail", "last"}
             /\ thread \in {"trailer", "done"} => thread' \in {"trailer", "done"}
             /\ thread' = "fail" => thread = "write"
             /\ thread' = "last" => previous # NoPacket
      BY <1>4
         DEF Next, StreamStep, ThreadStep, Terminated, Open, OpenFails, StreamEnds,
             Close, Join, Wait, WriteOk, WriteFails, Drained, WriteLast, WriteTrailer,
             SpuriousWakeup, vars, Signal, ThreadsInv
    <2> QED
      BY <2>1, <2>2 DEF HeldInv
  <1> QED
    BY <1>1, <1>2, <1>3, <1>4

-------------------------------------------------------------------------------
\* The next frame, with its duration, may be written.
LEMMA FileAppend ==
  ASSUME TypeOK, FileHasNoGap, FramesHaveTheirDuration, NEW p \in Packet,
         p.id \in (LastId + 1)..Len(accepted), IsFrame(p.id), p.pts = accepted[p.id],
         \A k \in (LastId + 1)..(p.id - 1) : ~IsFrame(k),
         p.duration = IF p.id = Len(accepted) THEN LastDuration
                      ELSE IF accepted[p.id + 1] = NoPts THEN 0
                      ELSE accepted[p.id + 1] - accepted[p.id],
         file' = Append(file, p), accepted' = accepted
  PROVE  FileHasNoGap' /\ FramesHaveTheirDuration' /\ LastId' = p.id /\ file' # <<>>
  <1>1. Len(file) \in Nat /\ Len(accepted) \in Nat /\ p.id \in Nat
    BY LenProperties DEF TypeOK, Packet
  <1>2. /\ Len(file') = Len(file) + 1 /\ file'[Len(file) + 1] = p
        /\ \A i \in 1..Len(file) : file'[i] = file[i]
        /\ file' # <<>>
    BY AppendProperties DEF TypeOK
  <1>3. \A k : IsFrame(k)' <=> IsFrame(k)
    BY DEF IsFrame
  <1>4. LastId' = p.id
    BY <1>1, <1>2 DEF LastId
  <1>5. FileHasNoGap'
    <2> SUFFICES ASSUME NEW i \in 1..Len(file')
                 PROVE  LET before == IF i = 1 THEN 1 ELSE file'[i - 1].id
                        IN  /\ file'[i].id \in (before + 1)..Len(accepted)
                            /\ IsFrame(file'[i].id) /\ file'[i].pts = accepted[file'[i].id]
                            /\ \A k \in (before + 1)..(file'[i].id - 1) : ~IsFrame(k)
      BY <1>3 DEF FileHasNoGap
    <2>1. CASE i \in 1..Len(file)
      <3>1. file'[i] = file[i] /\ (i # 1 => file'[i - 1] = file[i - 1])
        BY <1>1, <1>2, <2>1
      <3> QED
        BY <2>1, <3>1 DEF FileHasNoGap
    <2>2. CASE i = Len(file) + 1
      <3>1. file'[i] = p
        BY <1>2, <2>2
      <3>2. LastId = IF i = 1 THEN 1 ELSE file'[i - 1].id
        BY <1>1, <1>2, <2>2, EmptySeq DEF LastId, TypeOK
      <3> QED
        BY <3>1, <3>2
    <2> QED
      BY <1>1, <1>2, <2>1, <2>2
  <1>6. FramesHaveTheirDuration'
    BY <1>1, <1>2 DEF FramesHaveTheirDuration
  <1> QED
    BY <1>2, <1>4, <1>5, <1>6

\* Accepting packets leaves what is in the file as it should be.
LEMMA FileStays ==
  ASSUME TypeOK, FileHasNoGap, FramesHaveTheirDuration, file' = file,
         Len(accepted') \in Nat, Len(accepted) <= Len(accepted'),
         \A i \in 1..Len(accepted) : accepted'[i] = accepted[i],
         \/ accepted' = accepted
         \/ \A i \in 1..Len(file) : file[i].id < Len(accepted)
  PROVE  FileHasNoGap' /\ FramesHaveTheirDuration'
  <1>1. CASE accepted' = accepted
    BY <1>1 DEF FileHasNoGap, FramesHaveTheirDuration, IsFrame
  <1>2. CASE \A i \in 1..Len(file) : file[i].id < Len(accepted)
    <2>1. Len(accepted) \in Nat /\ Len(file) \in Nat
      BY LenProperties DEF TypeOK
    <2>2. \A k \in 1..Len(accepted) : IsFrame(k)' <=> IsFrame(k)
      BY DEF IsFrame
    <2>3. \A i \in 1..Len(file) : file[i].id \in Nat \ {0}
      <3>1. \A i \in 1..Len(file) : file[i] \in Packet
        BY ElementOfSeq DEF TypeOK
      <3>2. \A p \in Packet : p.id \in Nat \ {0}
        BY PacketFacts DEF Packet
      <3> QED
        BY <3>1, <3>2
    <2>4. FileHasNoGap'
      <3> SUFFICES ASSUME NEW i \in 1..Len(file)
                   PROVE  LET before == IF i = 1 THEN 1 ELSE file[i - 1].id
                          IN  /\ file[i].id \in (before + 1)..Len(accepted')
                              /\ IsFrame(file[i].id)'
                              /\ file[i].pts = accepted'[file[i].id]
                              /\ \A k \in (before + 1)..(file[i].id - 1) : ~IsFrame(k)'
        BY DEF FileHasNoGap
      <3> DEFINE before == IF i = 1 THEN 1 ELSE file[i - 1].id
      <3>1. before \in Nat \ {0}
        BY <2>1, <2>3
      <3>2. /\ file[i].id \in (before + 1)..Len(accepted)
            /\ IsFrame(file[i].id)
            /\ file[i].pts = accepted[file[i].id]
            /\ \A k \in (before + 1)..(file[i].id - 1) : ~IsFrame(k)
        BY DEF FileHasNoGap
      <3>3. file[i].id \in 1..Len(accepted)
        BY <2>1, <3>1, <3>2
      <3>4. \A k \in (before + 1)..(file[i].id - 1) : k \in 1..Len(accepted)
        BY <2>1, <3>1, <3>3
      <3> QED
        BY <2>1, <2>2, <3>1, <3>2, <3>3, <3>4
    <2>5. FramesHaveTheirDuration'
      <3> SUFFICES ASSUME NEW i \in 1..Len(file)
                   PROVE  LET k == file[i].id IN
                          file[i].duration =
                            IF k = Len(accepted') THEN LastDuration
                            ELSE IF accepted'[k + 1] = NoPts THEN 0
                            ELSE accepted'[k + 1] - accepted'[k]
        BY DEF FramesHaveTheirDuration
      <3>1. file[i].id \in 1..(Len(accepted) - 1)
        BY <1>2, <2>1, <2>3
      <3>2. /\ accepted'[file[i].id] = accepted[file[i].id]
            /\ accepted'[file[i].id + 1] = accepted[file[i].id + 1]
        BY <2>1, <3>1
      <3>3. file[i].duration =
              IF file[i].id = Len(accepted) THEN LastDuration
              ELSE IF accepted[file[i].id + 1] = NoPts THEN 0
              ELSE accepted[file[i].id + 1] - accepted[file[i].id]
        BY DEF FramesHaveTheirDuration
      <3> QED
        BY <2>1, <3>1, <3>2, <3>3
    <2> QED
      BY <2>4, <2>5
  <1> QED
    BY <1>1, <1>2

\* recorder_write deals with the packet after those already dealt with: the first
\* one becomes the header, a frame goes to the file with its duration.
LEMMA WrittenNext ==
  ASSUME TypeOK, FileHasNoGap, FramesHaveTheirDuration, NEW p \in Packet,
         NEW ok \in BOOLEAN, Written(p, ok), accepted' = accepted,
         p.id \in 1..Len(accepted), p.pts = accepted[p.id],
         WrittenUpTo(p.id - 1), ~headerWritten => file = <<>>,
         headerWritten => accepted # <<>> /\ accepted[1] = NoPts,
         IsFrame(p.id) =>
           p.duration = IF p.id = Len(accepted) THEN LastDuration
                        ELSE IF accepted[p.id + 1] = NoPts THEN 0
                        ELSE accepted[p.id + 1] - accepted[p.id]
  PROVE  /\ FileHasNoGap' /\ FramesHaveTheirDuration'
         /\ ok => WrittenUpTo(p.id)'
         /\ ~headerWritten' => file' = <<>>
         /\ headerWritten' => accepted # <<>> /\ accepted[1] = NoPts
         /\ \/ file' = file
            \/ file' = Append(file, p)
         /\ \A k \in (LastId' + 1)..(p.id - 1) : ~IsFrame(k)'
  <1>1. Len(accepted) \in Nat /\ Len(file) \in Nat /\ accepted # <<>>
    BY LenProperties, EmptySeq DEF TypeOK
  <1>2. \A k : IsFrame(k)' <=> IsFrame(k)
    BY DEF IsFrame
  <1>3. headerWritten <=> p.id > 1
    BY <1>1 DEF WrittenUpTo
  <1>4. LastId \in Int
    <2>1. CASE file = <<>>
      BY <2>1 DEF LastId
    <2>2. CASE file # <<>>
      <3>1. Len(file) \in 1..Len(file) /\ LastId = file[Len(file)].id
        BY <1>1, <2>2, EmptySeq DEF LastId, TypeOK
      <3>2. file[Len(file)] \in Packet
        BY <3>1, ElementOfSeq DEF TypeOK
      <3> QED
        BY <3>1, <3>2, PacketFacts DEF Packet
    <2> QED
      BY <2>1, <2>2
  <1>5. CASE file' = file
    <2>1. FileHasNoGap' /\ FramesHaveTheirDuration' /\ LastId' = LastId
      BY <1>1, <1>5, FileStays DEF LastId
    <2>2. \A k \in (LastId' + 1)..(p.id - 1) : ~IsFrame(k)'
      BY <1>2, <2>1 DEF WrittenUpTo
    <2>3. /\ ~headerWritten' => file' = <<>>
          /\ headerWritten' => accepted[1] = NoPts
      BY <1>3, <1>5, <1>1 DEF Written
    <2>4. ASSUME ok PROVE WrittenUpTo(p.id)'
      <3>1. headerWritten' /\ ~IsFrame(p.id)
        <4>1. Len(Append(file, p)) = Len(file) + 1
          BY AppendProperties DEF TypeOK
        <4>2. Append(file, p) # file
          BY <1>1, <4>1
        <4>3. headerWritten => p.pts = NoPts /\ headerWritten' = headerWritten
          BY <1>5, <2>4, <4>2 DEF Written
        <4>4. ~headerWritten => headerWritten' = ok
          BY <2>4, Zenon DEF Written
        <4> QED
          BY <1>3, <2>4, <4>3, <4>4 DEF IsFrame
      <3>2. \A k \in (LastId' + 1)..p.id : ~IsFrame(k)'
        BY <1>1, <1>2, <2>2, <3>1
      <3>3. file' # <<>> => LastId' <= p.id
        BY <1>1, <1>5, <1>4, <2>1 DEF WrittenUpTo
      <3> QED
        BY <1>1, <3>1, <3>2, <3>3 DEF WrittenUpTo
    <2> QED
      BY <1>1, <1>5, <2>1, <2>2, <2>3, <2>4
  <1>6. CASE file' = Append(file, p) /\ headerWritten /\ p.pts # NoPts
    <2>1. IsFrame(p.id) /\ p.id > 1 /\ headerWritten' = headerWritten
      BY <1>3, <1>6 DEF IsFrame, Written
    <2>2. LastId + 1 <= p.id
      BY <1>1, <1>4, <2>1 DEF LastId, WrittenUpTo
    <2>3. FileHasNoGap' /\ FramesHaveTheirDuration' /\ LastId' = p.id /\ file' # <<>>
      BY <1>1, <1>6, <2>1, <2>2, FileAppend DEF WrittenUpTo
    <2>4. WrittenUpTo(p.id)' /\ \A k \in (LastId' + 1)..(p.id - 1) : ~IsFrame(k)'
      BY <1>1, <1>6, <2>1, <2>3 DEF WrittenUpTo
    <2> QED
      BY <1>1, <1>6, <2>1, <2>3, <2>4
  <1> QED
    BY <1>5, <1>6 DEF Written

\* The file stays as it should be: an initial part of what was accepted.
LEMMA FileNext ==
  TypeOK /\ ThreadsInv /\ QueueInv /\ HeldInv /\ FileInv /\ [Next]_vars => FileInv'
  <1> SUFFICES ASSUME TypeOK, ThreadsInv, QueueInv, HeldInv, FileInv, [Next]_vars
               PROVE  FileInv'
    OBVIOUS
  <1>1. /\ Len(accepted) \in Nat /\ Taken \in 0..Len(accepted)
        /\ FileHasNoGap /\ FramesHaveTheirDuration
    BY TakenNext DEF FileInv
  <1>2. CASE Push
    <2>1. /\ Taken' = Taken /\ Len(accepted') = Len(accepted) + 1
          /\ \A i \in 1..Len(accepted) : accepted'[i] = accepted[i]
      BY <1>2, TakenNext
    <2>2. /\ UNCHANGED <<file, headerWritten, failed>>
          /\ thread' = thread \/ (thread = "wait" /\ thread' = "lock")
          /\ stream = "push" /\ ~failed
      BY <1>2 DEF Push, Signal, output
    <2>3. thread \notin {"trailer", "done"} /\ thread' \notin {"trailer", "done"}
      BY <2>2 DEF ThreadsInv
    <2>4. \A i \in 1..Len(file) : file[i].id < Taken
      BY <2>3 DEF FileInv
    <2>5. \A i \in 1..Len(file) : file[i].id < Len(accepted)
      <3> SUFFICES ASSUME NEW i \in 1..Len(file) PROVE file[i].id < Len(accepted)
        OBVIOUS
      <3>1. file[i].id < Taken /\ file[i].id \in Int
        BY <2>4 DEF FileInv, FileHasNoGap
      <3> QED
        BY <1>1, <3>1
    <2>6. FileHasNoGap' /\ FramesHaveTheirDuration'
      BY <1>1, <2>1, <2>2, <2>5, FileStays
    <2>7. ASSUME NEW k \in Int, k < Len(accepted), WrittenUpTo(k) PROVE WrittenUpTo(k)'
      <3>1. \A j \in (LastId + 1)..k : j \in 1..Len(accepted) => ~IsFrame(j)'
        BY <2>1, <2>7 DEF WrittenUpTo, IsFrame
      <3>2. \A j \in Int : IsFrame(j)' => j > 1
        BY DEF IsFrame
      <3>3. \A j \in (LastId + 1)..k : ~IsFrame(j)'
        BY <1>1, <2>7, <3>1, <3>2
      <3> QED
        BY <2>2, <2>7, <3>3 DEF WrittenUpTo, LastId
    <2>8. headerWritten' => accepted' # <<>> /\ accepted'[1] = NoPts
      <3>1. ASSUME headerWritten PROVE 1 \in 1..Len(accepted) /\ accepted[1] = NoPts
        BY <1>1, <3>1, EmptySeq DEF FileInv, TypeOK
      <3>2. accepted' # <<>>
        BY <1>1, <2>1, EmptySeq
      <3> QED
        BY <2>1, <2>2, <3>1, <3>2
    <2>9. thread' \in {"lock", "wait", "last"} => WrittenUpTo(Taken - 1)'
      BY <1>1, <2>1, <2>2, <2>7 DEF FileInv
    <2>10. thread' = "write" => WrittenUpTo(Taken - 2)'
      BY <1>1, <2>1, <2>2, <2>7 DEF FileInv
    <2> QED
      BY <2>1, <2>2, <2>3, <2>4, <2>6, <2>8, <2>9, <2>10 DEF FileInv
  <1>3. CASE Take
    <2>1. Taken' = Taken + 1 /\ accepted' = accepted
      BY <1>3, TakenNext DEF Take
    <2>2. /\ UNCHANGED <<file, headerWritten, failed>> /\ thread = "lock"
          /\ thread' = IF previous = NoPacket THEN "lock" ELSE "write"
      BY <1>3 DEF Take, output
    <2>3. FileHasNoGap' /\ FramesHaveTheirDuration'
      BY <1>1, <2>1, <2>2, FileStays
    <2>4. \A i \in 1..Len(file) : file[i].id < Taken'
      <3> SUFFICES ASSUME NEW i \in 1..Len(file) PROVE file[i].id < Taken'
        OBVIOUS
      <3>1. file[i].id < Taken /\ file[i].id \in Int
        BY <2>2 DEF FileInv, FileHasNoGap
      <3> QED
        BY <1>1, <2>1, <3>1
    <2>5. WrittenUpTo(Taken - 1)
      BY <2>2 DEF FileInv
    <2>6. thread' = "write" => WrittenUpTo(Taken - 2)'
      BY <1>1, <2>1, <2>2, <2>5 DEF WrittenUpTo, LastId, IsFrame
    <2>7. thread' = "lock" => WrittenUpTo(Taken - 1)'
      <3> SUFFICES ASSUME thread' = "lock" PROVE WrittenUpTo(Taken - 1)'
        OBVIOUS
      <3>1. Taken = 0 /\ Taken' = 1
        BY <2>1, <2>2 DEF HeldInv
      <3>2. ~headerWritten /\ file = <<>> /\ LastId = 1
        BY <2>5, <3>1 DEF WrittenUpTo, FileInv, LastId
      <3> QED
        BY <2>2, <3>1, <3>2 DEF WrittenUpTo, LastId
    <2> QED
      BY <2>1, <2>2, <2>3, <2>4, <2>6, <2>7 DEF FileInv
  <1>4. CASE WriteOk \/ WriteFails
    <2>1. PICK ok \in BOOLEAN : Written(writing, ok) /\ ok = (thread' = "lock")
      BY <1>4 DEF WriteOk, WriteFails
    <2>2. /\ accepted' = accepted /\ Taken' = Taken /\ thread = "write"
          /\ thread' \in {"lock", "fail"} /\ failed' = failed
      BY <1>4, TakenNext DEF WriteOk, WriteFails, shared, Taken
    <2>3. /\ Taken > 1 /\ writing \in Packet /\ writing.id = Taken - 1
          /\ writing.pts = accepted[Taken - 1]
          /\ writing.duration =
               IF accepted[Taken] # NoPts /\ accepted[Taken - 1] # NoPts
               THEN accepted[Taken] - accepted[Taken - 1] ELSE 0
      BY <2>2 DEF HeldInv, TypeOK
    <2>4. PICK p \in Packet :
            /\ p = writing /\ p.id = Taken - 1 /\ p.pts = accepted[Taken - 1]
            /\ p.duration =
                 IF accepted[Taken] # NoPts /\ accepted[Taken - 1] # NoPts
                 THEN accepted[Taken] - accepted[Taken - 1] ELSE 0
      BY <2>3
    <2>5. WrittenUpTo(p.id - 1)
      BY <1>1, <2>2, <2>3, <2>4 DEF FileInv
    <2>6. IsFrame(p.id) =>
            p.duration = IF p.id = Len(accepted) THEN LastDuration
                         ELSE IF accepted[p.id + 1] = NoPts THEN 0
                         ELSE accepted[p.id + 1] - accepted[p.id]
      BY <1>1, <2>3, <2>4 DEF IsFrame
    <2>7. /\ FileHasNoGap' /\ FramesHaveTheirDuration'
          /\ ok => WrittenUpTo(p.id)'
          /\ ~headerWritten' => file' = <<>>
          /\ headerWritten' => accepted # <<>> /\ accepted[1] = NoPts
          /\ file' = file \/ file' = Append(file, p)
      <3>1. Written(p, ok) /\ p.id \in 1..Len(accepted) /\ p.pts = accepted[p.id]
        BY <1>1, <2>1, <2>3, <2>4
      <3> QED
        BY <2>2, <2>5, <2>6, <3>1, WrittenNext DEF FileInv
    <2>8. \A i \in 1..Len(file') : file'[i].id < Taken'
      <3>1. \A i \in 1..Len(file) : file[i].id < Taken
        BY <2>2 DEF FileInv
      <3>2. CASE file' = file
        BY <2>2, <3>1, <3>2
      <3>3. CASE file' = Append(file, p)
        <4>1. /\ Len(file') = Len(file) + 1 /\ file'[Len(file) + 1] = p
              /\ \A i \in 1..Len(file) : file'[i] = file[i]
              /\ Len(file) \in Nat
          BY <2>4, <3>3, AppendProperties, LenProperties DEF TypeOK
        <4> QED
          BY <1>1, <2>2, <2>4, <3>1, <4>1
      <3> QED
        BY <2>7, <3>2, <3>3
    <2>9. thread' = "lock" => WrittenUpTo(Taken - 1)'
      BY <2>1, <2>2, <2>4, <2>7 DEF WrittenUpTo
    <2> QED
      BY <2>2, <2>7, <2>8, <2>9 DEF FileInv
  <1>5. CASE SetFailed
    <2>1. /\ UNCHANGED <<file, headerWritten, accepted>>
          /\ failed' = TRUE /\ thread' = "trailer"
      BY <1>5 DEF SetFailed, output
    <2>2. FileHasNoGap' /\ FramesHaveTheirDuration'
      BY <1>1, <2>1, FileStays
    <2> QED
      BY <2>1, <2>2 DEF FileInv
  <1>6. CASE WriteLast
    <2>1. PICK ok \in BOOLEAN : Written(Lasting(previous, LastDuration), ok)
      BY <1>6 DEF WriteLast
    <2>2. /\ accepted' = accepted /\ thread = "last" /\ thread' = "trailer"
          /\ queue = <<>> /\ failed' = failed
      BY <1>6 DEF WriteLast, ThreadsInv, shared
    <2>3. Taken = Len(accepted)
      BY <1>1, <2>2, EmptySeq DEF Taken
    <2>4. previous \in Packet
      BY <2>2 DEF HeldInv, TypeOK
    <2>5. /\ Taken > 0
          /\ previous = [id |-> Taken, pts |-> accepted[Taken], duration |-> 0]
      BY <2>2, <2>4, PacketFacts DEF HeldInv
    <2> DEFINE p == Lasting(previous, LastDuration)
    <2>6. /\ p \in Packet /\ p.id = Taken /\ p.pts = accepted[Taken]
          /\ p.duration = LastDuration
      BY <2>4, <2>5 DEF Lasting, Packet, LastDuration
    <2>7. WrittenUpTo(p.id - 1)
      BY <2>2, <2>6 DEF FileInv
    <2> HIDE DEF p
    <2>8. /\ FileHasNoGap' /\ FramesHaveTheirDuration'
          /\ ~headerWritten' => file' = <<>>
          /\ headerWritten' => accepted # <<>> /\ accepted[1] = NoPts
          /\ \A k \in (LastId' + 1)..(p.id - 1) : ~IsFrame(k)'
      <3>1. Written(p, ok)
        BY <2>1 DEF p
      <3> QED
        BY <1>1, <2>2, <2>3, <2>5, <2>6, <2>7, <3>1, WrittenNext DEF FileInv
    <2> QED
      BY <2>2, <2>3, <2>6, <2>8 DEF FileInv
  <1>7. CASE Drained
    <2>1. /\ UNCHANGED <<file, headerWritten, accepted, failed, queue>>
          /\ thread = "lock" /\ queue = <<>>
          /\ thread' = IF previous = NoPacket THEN "trailer" ELSE "last"
      BY <1>7 DEF Drained, output, shared
    <2>2. Taken' = Taken /\ Taken = Len(accepted)
      BY <1>1, <2>1, EmptySeq DEF Taken
    <2>3. FileHasNoGap' /\ FramesHaveTheirDuration'
      BY <1>1, <2>1, FileStays
    <2>4. WrittenUpTo(Taken - 1)
      BY <2>1 DEF FileInv
    <2>5. \A k \in (LastId + 1)..(Len(accepted) - 1) : ~IsFrame(k)
      BY <2>2, <2>4 DEF WrittenUpTo
    <2>6. WrittenUpTo(Taken - 1)'
      BY <2>1, <2>2, <2>4 DEF WrittenUpTo, LastId, IsFrame
    <2> QED
      BY <2>1, <2>2, <2>3, <2>5, <2>6 DEF FileInv, LastId, IsFrame
  <1>8. CASE WriteTrailer
    <2>1. /\ UNCHANGED <<file, headerWritten, accepted>>
          /\ thread = "trailer" /\ thread' = "done" /\ (~failed' => ~failed)
      BY <1>8 DEF WriteTrailer
    <2>2. FileHasNoGap' /\ FramesHaveTheirDuration'
      BY <1>1, <2>1, FileStays
    <2> QED
      BY <2>1, <2>2 DEF FileInv, LastId, IsFrame
  <1>9. CASE /\ UNCHANGED <<file, headerWritten, accepted, queue, failed>>
             /\ \/ thread' = thread
                \/ thread \in {"none", "lock", "wait"} /\ thread' \in {"lock", "wait"}
    <2>1. FileHasNoGap' /\ FramesHaveTheirDuration'
      BY <1>1, <1>9, FileStays
    <2>2. Taken' = Taken /\ (thread = "none" => accepted = <<>> /\ Taken = 0)
      BY <1>1, <1>9, EmptySeq DEF Taken, ThreadsInv
    <2>3. thread = "none" => WrittenUpTo(Taken - 1)
      BY <2>2 DEF FileInv, WrittenUpTo, LastId
    <2>4. thread \in {"none", "lock", "wait", "last"} => WrittenUpTo(Taken - 1)'
      BY <1>9, <2>2, <2>3 DEF FileInv, WrittenUpTo, LastId, IsFrame
    <2>5. thread = "write" => WrittenUpTo(Taken - 2)'
      BY <1>9, <2>2 DEF FileInv, WrittenUpTo, LastId, IsFrame
    <2> QED
      BY <1>9, <2>1, <2>2, <2>4, <2>5 DEF FileInv, LastId, IsFrame
  <1> QED
    BY <1>2, <1>3, <1>4, <1>5, <1>6, <1>7, <1>8, <1>9
       DEF Next, StreamStep, ThreadStep, Terminated, Open, OpenFails, StreamEnds,
           Close, Join, Wait, SpuriousWakeup, Signal, ThreadsInv, vars, shared, output

-------------------------------------------------------------------------------
\* The recorder starts with nothing queued, held or written.
LEMMA IInvInit == Init => IInv
  <1> SUFFICES ASSUME Init PROVE IInv
    OBVIOUS
  <1>1. TypeOK
    BY TypeInit
  <1>2. Len(accepted) = 0 /\ Len(queue) = 0 /\ Len(file) = 0 /\ Taken = 0
    BY EmptySeq DEF Init, Taken
  <1>3. ThreadsInv
    BY DEF Init, ThreadsInv
  <1>4. QueueInv /\ HeldInv
    BY <1>2 DEF Init, QueueInv, HeldInv
  <1>5. FileInv
    BY <1>2 DEF Init, FileInv, FileHasNoGap, FramesHaveTheirDuration
  <1> QED
    BY <1>1, <1>3, <1>4, <1>5 DEF IInv

\* The inductive invariant: what the queue, the thread and the file hold is always
\* the packets accepted, each once and in order.
THEOREM Invariance == Spec => []IInv
  <1>1. IInv /\ [Next]_vars => IInv'
    BY TypeNext, ThreadsNext, QueueNext, HeldNext, FileNext DEF IInv
  <1> QED
    BY IInvInit, <1>1, PTL DEF Spec

\* The variables of the recorder always have their types.
THEOREM TypeCorrect == Spec => []TypeOK
  <1>1. IInv => TypeOK
    BY DEF IInv
  <1> QED
    BY Invariance, <1>1, PTL

\* The recorder thread never sleeps on work: the wakeup by recorder_push and
\* recorder_close cannot be lost.
THEOREM WakeupsAreNotLost == Spec => []NoLostWakeup
  <1>1. IInv => NoLostWakeup
    BY DEF IInv, ThreadsInv, NoLostWakeup
  <1> QED
    BY Invariance, <1>1, PTL

\* A recording that the code announces as complete misses at most its last frame.
THEOREM CompleteFile == Spec => []CompleteFileHasEveryFrame
  <1>1. IInv => CompleteFileHasEveryFrame
    BY DEF IInv, ThreadsInv, FileInv, CompleteFileHasEveryFrame
  <1> QED
    BY Invariance, <1>1, PTL

\* Whatever fails and whenever the stream stops, the file holds the first frames
\* accepted, in order and without a gap, each with the duration the code knows,
\* and all of them, but at most the last, if the recording is complete.
THEOREM FaithfulFile == Spec => []FileIsFaithful
  <1>1. IInv => TypeOK /\ FileHasNoGap /\ FramesHaveTheirDuration
    BY DEF IInv, FileInv
  <1> QED
    BY Invariance, CompleteFile, <1>1, PTL DEF FileIsFaithful

\* After a failure nothing more is queued, written or left to delete, until the end.
THEOREM FailureStops == Spec => FailureIsFinal
  <1>1. IInv /\ [Next]_vars => (failed => UNCHANGED <<failed, file, accepted, live>>)
    <2> SUFFICES ASSUME ThreadsInv, [Next]_vars, TypeOK, failed
                 PROVE  UNCHANGED <<failed, file, accepted, live>>
      BY DEF IInv
    <2>1. thread \in {"trailer", "done"}
      BY DEF ThreadsInv
    <2>2. CASE WriteTrailer
      BY <2>2 DEF WriteTrailer, TypeOK
    <2> QED
      BY <2>1, <2>2
         DEF Next, StreamStep, ThreadStep, Terminated, Open, OpenFails, StreamEnds,
             Push, Take, SetFailed, Close, Join, Wait, WriteOk, WriteFails, Drained,
             WriteLast, SpuriousWakeup, vars, shared, output
  <1> QED
    BY Invariance, <1>1, PTL DEF Spec, FailureIsFinal

-------------------------------------------------------------------------------
(* Who owns the packets. *)

\* The oldest packet that the thread holds.
Oldest == IF thread = "write" THEN Taken - 1 ELSE Taken

\* The packets not yet deleted are the last ones accepted; in the end there is at most
\* the one in hand when a write failed.
LiveInv ==
  /\ writing # NoPacket <=> thread = "write"
  /\ thread \notin {"trailer", "done"} => live = {k \in 1..Len(accepted) : k >= Oldest}
  /\ thread \in {"trailer", "done"} => live \subseteq Owned(previous)
  /\ thread = "trailer" /\ ~failed => live = {}
  /\ trailerWritten => live = {}

\* The packets queued are those accepted and not taken.
LEMMA QueuedPackets ==
  ASSUME TypeOK, QueueInv
  PROVE  /\ Len(accepted) \in Nat /\ Taken \in 0..Len(accepted)
         /\ Queued = {k \in 1..Len(accepted) : k > Taken}
  <1>1. Len(queue) \in Nat /\ Len(accepted) \in Nat /\ Taken \in 0..Len(accepted)
    BY LenProperties DEF TypeOK, QueueInv
  <1>2. ASSUME NEW i \in 1..Len(queue) PROVE queue[i].id = Taken + i
    <2>1. queue[i] = [id |-> Taken + i, pts |-> accepted[Taken + i], duration |-> 0]
      BY DEF QueueInv
    <2> QED
      BY <2>1
  <1>3. ASSUME NEW k \in 1..Len(accepted), k > Taken PROVE k \in Queued
    <2>1. k - Taken \in 1..Len(queue) /\ Taken + (k - Taken) = k
      BY <1>1, <1>3 DEF Taken
    <2>2. queue[k - Taken].id = k
      BY <1>2, <2>1
    <2> QED
      BY <2>1, <2>2 DEF Queued
  <1>4. ASSUME NEW k \in Queued PROVE k \in 1..Len(accepted) /\ k > Taken
    <2>1. PICK i \in 1..Len(queue) : k = queue[i].id
      BY <1>4 DEF Queued
    <2>2. k = Taken + i
      BY <1>2, <2>1
    <2> QED
      BY <1>1, <2>2 DEF Taken
  <1> QED
    BY <1>1, <1>3, <1>4

\* Every packet is deleted by the step that takes it away from its owner.
LEMMA LiveNext == IInv /\ LiveInv /\ [Next]_vars => LiveInv'
  <1> SUFFICES ASSUME TypeOK, ThreadsInv, QueueInv, HeldInv, LiveInv, [Next]_vars
               PROVE  LiveInv'
    BY DEF IInv
  <1>1. Len(accepted) \in Nat /\ Taken \in 0..Len(accepted)
    BY TakenNext
  <1>2. CASE Push
    <2>1. Taken' = Taken /\ Len(accepted') = Len(accepted) + 1
      BY <1>2, TakenNext
    <2>2. /\ live' = live \cup {Len(accepted) + 1}
          /\ UNCHANGED <<previous, writing, failed, trailerWritten>>
          /\ thread' = thread \/ (thread = "wait" /\ thread' = "lock")
          /\ thread \notin {"trailer", "done"} /\ ~trailerWritten
      BY <1>2 DEF Push, Signal, ThreadsInv, output
    <2>3. Oldest' = Oldest /\ Oldest \in Int /\ Oldest <= Len(accepted)
      BY <1>1, <2>1, <2>2 DEF Oldest
    <2>4. live = {k \in 1..Len(accepted) : k >= Oldest}
      BY <2>2 DEF LiveInv
    <2>5. live' = {k \in 1..(Len(accepted) + 1) : k >= Oldest}
      BY <1>1, <2>2, <2>3, <2>4
    <2> QED
      BY <2>1, <2>2, <2>3, <2>5 DEF LiveInv
  <1>3. CASE Take
    <2>1. /\ Taken' = Taken + 1 /\ accepted' = accepted /\ live' = live /\ thread = "lock"
          /\ UNCHANGED <<failed, trailerWritten>> /\ ~trailerWritten
      BY <1>3, TakenNext DEF Take, output, ThreadsInv
    <2>2. live = {k \in 1..Len(accepted) : k >= Taken}
      BY <2>1 DEF LiveInv, Oldest
    <2>3. CASE previous = NoPacket
      <3>1. thread' = "lock" /\ writing' = NoPacket /\ Taken = 0
        BY <1>3, <2>1, <2>3 DEF Take, HeldInv
      <3>2. live' = {k \in 1..Len(accepted') : k >= 1}
        BY <1>1, <2>1, <2>2, <3>1
      <3>3. Oldest' = 1
        BY <2>1, <3>1 DEF Oldest
      <3> QED
        BY <2>1, <3>1, <3>2, <3>3 DEF LiveInv
    <2>4. CASE previous # NoPacket
      <3>1. thread' = "write" /\ writing' = WithDuration(previous, Head(queue))
        BY <1>3, <2>4 DEF Take
      <3>2. writing' # NoPacket
        <4>1. Head(queue) \in Packet /\ previous \in Packet
          BY <1>3, <2>4, HeadTailProperties DEF Take, TypeOK
        <4> QED
          BY <3>1, <4>1, WithDurationType, PacketFacts
      <3>3. Oldest' = Taken
        BY <1>1, <2>1, <3>1 DEF Oldest
      <3> QED
        BY <2>1, <2>2, <3>1, <3>2, <3>3 DEF LiveInv
    <2> QED
      BY <2>3, <2>4
  <1>4. CASE WriteOk \/ WriteFails
    <2>1. /\ Taken' = Taken /\ accepted' = accepted /\ thread = "write"
          /\ thread' \in {"lock", "fail"} /\ writing' = NoPacket
          /\ live' = live \ {writing.id} /\ ~trailerWritten /\ trailerWritten' = trailerWritten
      BY <1>4 DEF WriteOk, WriteFails, shared, Taken, Written, ThreadsInv
    <2>2. Taken > 1 /\ writing.id = Taken - 1
      BY <2>1 DEF HeldInv
    <2>3. live = {k \in 1..Len(accepted) : k >= Taken - 1} /\ Oldest' = Taken
      BY <2>1 DEF LiveInv, Oldest
    <2>4. live' = {k \in 1..Len(accepted) : k >= Taken}
      BY <1>1, <2>1, <2>2, <2>3
    <2> QED
      BY <2>1, <2>3, <2>4 DEF LiveInv
  <1>5. CASE SetFailed
    <2>1. /\ thread = "fail" /\ thread' = "trailer" /\ failed' = TRUE /\ previous' = previous
          /\ live' = live \ Queued /\ ~trailerWritten /\ trailerWritten' = trailerWritten
          /\ writing' = writing
      BY <1>5 DEF SetFailed, output, ThreadsInv, Queued
    <2>2. previous # NoPacket /\ previous.id = Taken
      BY <2>1 DEF HeldInv
    <2>3. live = {k \in 1..Len(accepted) : k >= Taken}
      BY <2>1 DEF LiveInv, Oldest
    <2>4. live' \subseteq {Taken}
      BY <1>1, <2>1, <2>3, QueuedPackets
    <2> QED
      BY <2>1, <2>2, <2>4 DEF LiveInv, Owned
  <1>6. CASE Drained
    <2>1. /\ Taken' = Taken /\ Taken = Len(accepted) /\ accepted' = accepted /\ live' = live
          /\ thread = "lock" /\ UNCHANGED <<previous, writing, failed, trailerWritten>>
          /\ ~trailerWritten
          /\ thread' = (IF previous = NoPacket THEN "trailer" ELSE "last")
      BY <1>6, <1>1, EmptySeq DEF Drained, shared, output, Taken, ThreadsInv
    <2>2. live = {k \in 1..Len(accepted) : k >= Taken} /\ writing = NoPacket
      BY <2>1 DEF LiveInv, Oldest
    <2>3. CASE previous = NoPacket
      <3>1. live = {}
        BY <1>1, <2>1, <2>2, <2>3 DEF HeldInv
      <3> QED
        BY <2>1, <2>2, <2>3, <3>1 DEF LiveInv
    <2>4. CASE previous # NoPacket
      BY <2>1, <2>2, <2>4 DEF LiveInv, Oldest
    <2> QED
      BY <2>3, <2>4
  <1>7. CASE WriteLast
    <2>1. /\ thread = "last" /\ thread' = "trailer" /\ live' = live \ {previous.id}
          /\ writing' = writing
      BY <1>7 DEF WriteLast
    <2>2. Taken = Len(accepted) /\ previous.id = Taken
      BY <1>1, <2>1, EmptySeq DEF ThreadsInv, HeldInv, Taken
    <2>3. live = {k \in 1..Len(accepted) : k >= Taken} /\ writing = NoPacket
      BY <2>1 DEF LiveInv, Oldest
    <2>4. live' = {}
      BY <1>1, <2>1, <2>2, <2>3
    <2> QED
      BY <2>1, <2>3, <2>4 DEF LiveInv
  <1>8. CASE WriteTrailer
    BY <1>8 DEF WriteTrailer, LiveInv
  <1>9. CASE UNCHANGED <<live, accepted, queue, previous, writing, failed, trailerWritten>>
             /\ \/ thread' = thread
                \/ /\ thread \notin {"write", "trailer", "done"}
                   /\ thread' \notin {"write", "trailer", "done"}
    BY <1>9 DEF LiveInv, Oldest, Taken
  <1> QED
    BY <1>2, <1>3, <1>4, <1>5, <1>6, <1>7, <1>8, <1>9
       DEF Next, StreamStep, ThreadStep, Terminated, Open, OpenFails, StreamEnds, Close,
           Join, Wait, SpuriousWakeup, Signal, ThreadsInv, vars, shared, output

\* Every packet is deleted once and by its owner, those that a failure leaves in
\* previous excepted (recorder.c, run_recorder and recorder_push).
THEOREM OwnedPackets == Spec => []PacketsAreOwned
  <1>1. Init => LiveInv
    <2> SUFFICES ASSUME Init PROVE LiveInv
      OBVIOUS
    <2>1. Len(accepted) = 0
      BY EmptySeq DEF Init
    <2> QED
      BY <2>1 DEF Init, LiveInv
  <1>2. IInv /\ LiveInv => PacketsAreOwned
    <2> SUFFICES ASSUME TypeOK, ThreadsInv, QueueInv, HeldInv, LiveInv PROVE PacketsAreOwned
      BY DEF IInv
    <2>1. /\ Len(accepted) \in Nat /\ Taken \in 0..Len(accepted)
          /\ Queued = {k \in 1..Len(accepted) : k > Taken}
      BY QueuedPackets
    <2>2. CASE thread \in {"trailer", "done"}
      BY <2>2 DEF LiveInv, PacketsAreOwned
    <2>3. CASE thread = "write"
      <3>1. /\ Taken > 1 /\ previous # NoPacket /\ previous.id = Taken
            /\ writing # NoPacket /\ writing.id = Taken - 1
        BY <2>3 DEF HeldInv
      <3>2. live = {k \in 1..Len(accepted) : k >= Taken - 1} /\ ~trailerWritten
        BY <2>3 DEF LiveInv, Oldest, ThreadsInv
      <3>3. Owned(previous) = {Taken} /\ Owned(writing) = {Taken - 1}
        BY <3>1 DEF Owned
      <3> QED
        BY <2>1, <2>3, <3>1, <3>2, <3>3 DEF PacketsAreOwned
    <2>4. CASE thread \notin {"write", "trailer", "done"}
      <3>1. /\ writing = NoPacket /\ ~trailerWritten
            /\ live = {k \in 1..Len(accepted) : k >= Taken}
        BY <2>4 DEF LiveInv, Oldest, ThreadsInv
      <3>2. Owned(writing) = {}
        BY <3>1 DEF Owned
      <3>3. \/ previous = NoPacket /\ Taken = 0 /\ Owned(previous) = {}
            \/ previous # NoPacket /\ Taken > 0 /\ Owned(previous) = {Taken}
        BY <2>4 DEF HeldInv, Owned
      <3> QED
        BY <2>1, <2>4, <3>1, <3>2, <3>3 DEF PacketsAreOwned
    <2> QED
      BY <2>2, <2>3, <2>4
  <1> QED
    BY <1>1, <1>2, LiveNext, Invariance, PTL DEF Spec

-------------------------------------------------------------------------------
(* The recorder implements Recording. *)

\* A frame that recorder_write adds to the file is the next one.
LEMMA NextFrameWritten ==
  ASSUME TypeOK, FileInv, NEW p \in Packet, NEW ok \in BOOLEAN, Written(p, ok),
         p.id \in 1..Len(accepted), p.pts = accepted[p.id], WrittenUpTo(p.id - 1)
  PROVE  \/ file' = file
         \/ /\ Promise!NextFrame(p.id) /\ p.pts = accepted[p.id]
            /\ Promise!Write(p.id, p.duration)
  <1>1. CASE file' = file
    BY <1>1
  <1>2. CASE headerWritten /\ p.pts # NoPts /\ file' = Append(file, p)
    <2>1. p.id > 1
      BY <1>2 DEF WrittenUpTo, Packet
    <2>2. LastId \in Int /\ LastId <= p.id - 1
      <3>1. CASE file = <<>>
        BY <2>1, <3>1 DEF LastId
      <3>2. CASE file # <<>>
        <4>1. file[Len(file)] \in Packet
          BY <3>2, EmptySeq, LenProperties, ElementOfSeq DEF TypeOK
        <4> QED
          BY <3>2, <4>1 DEF LastId, WrittenUpTo, Packet
      <3> QED
        BY <3>1, <3>2
    <2>3. p.id \in (LastId + 1)..Len(accepted) /\ IsFrame(p.id)
      BY <1>2, <2>1, <2>2, LenProperties DEF IsFrame, TypeOK
    <2>4. \A j \in (LastId + 1)..(p.id - 1) : ~IsFrame(j)
      BY DEF WrittenUpTo
    <2>5. p = [id |-> p.id, pts |-> accepted[p.id], duration |-> p.duration]
      BY DEF Packet
    <2> QED
      BY <1>2, <2>3, <2>4, <2>5
         DEF Promise!NextFrame, Promise!Write, Promise!LastId, Promise!IsFrame, LastId, IsFrame
  <1> QED
    BY <1>1, <1>2 DEF Written

\* Every step of the recorder is one of Recording, or changes nothing of it.
LEMMA RecordingNext ==
  ASSUME IInv, [Next]_vars
  PROVE  [Promise!Next]_(Promise!vars)
  <1> USE DEF Promise!Next, Promise!vars
  <1>i. TypeOK /\ ThreadsInv /\ QueueInv /\ HeldInv /\ FileInv
    BY DEF IInv
  <1>n. Len(accepted) \in Nat /\ Taken \in 0..Len(accepted)
    BY <1>i, TakenNext
  <1>1. CASE Push
    <2>1. ~failed /\ ~trailerWritten /\ ~stopped
      BY <1>1, <1>i DEF Push, ThreadsInv
    <2>2. status = "open"
      BY <2>1 DEF status
    <2>3. status' = status /\ file' = file
      BY <1>1 DEF status, Push, output
    <2>4. Promise!Accept
      BY <1>1, <2>2, <2>3 DEF Push, Promise!Accept
    <2> QED
      BY <2>4
  <1>2. CASE WriteOk \/ WriteFails
    <2>1. PICK ok \in BOOLEAN : Written(writing, ok)
      BY <1>2 DEF WriteOk, WriteFails
    <2>2. /\ accepted' = accepted /\ thread = "write" /\ UNCHANGED <<stopped, failed>>
          /\ trailerWritten' = trailerWritten
      BY <1>2, <2>1 DEF WriteOk, WriteFails, shared, Written
    <2>3. status' = status /\ ~failed /\ ~trailerWritten /\ status \in {"open", "closing"}
      BY <1>i, <2>2 DEF status, ThreadsInv
    <2>4. /\ Taken > 1 /\ writing \in Packet /\ writing.id = Taken - 1
          /\ writing.pts = accepted[Taken - 1]
          /\ writing.duration =
               IF accepted[Taken] # NoPts /\ accepted[Taken - 1] # NoPts
               THEN accepted[Taken] - accepted[Taken - 1] ELSE 0
      BY <1>i, <2>2 DEF HeldInv, TypeOK
    <2>5. WrittenUpTo(Taken - 2)
      BY <1>i, <2>2 DEF FileInv
    <2>6. PICK k \in 1..(Len(accepted) - 1) : k = Taken - 1
      BY <1>n, <2>4
    <2>7. WrittenUpTo(writing.id - 1) /\ writing.id \in 1..Len(accepted)
      <3>1. writing.id - 1 = Taken - 2
        BY <1>n, <2>4
      <3> QED
        BY <1>n, <2>4, <2>5, <3>1
    <2>8. CASE file' = file
      BY <2>2, <2>3, <2>8
    <2>9. CASE file' # file
      <3>1. Promise!NextFrame(k) /\ Promise!Write(k, writing.duration)
        BY <1>i, <2>1, <2>4, <2>6, <2>7, <2>9, NextFrameWritten
      <3>2. accepted[k] # NoPts /\ k + 1 = Taken
        BY <1>n, <2>6, <3>1 DEF Promise!NextFrame, Promise!IsFrame
      <3>3. writing.duration = Promise!DurationOf(k)
        BY <2>4, <2>6, <3>2 DEF Promise!DurationOf
      <3>4. Promise!WriteFrame
        BY <2>2, <2>3, <2>6, <3>1, <3>3 DEF Promise!WriteFrame
      <3> QED
        BY <3>4
    <2> QED
      BY <2>8, <2>9
  <1>3. CASE SetFailed
    <2>1. /\ thread = "fail" /\ failed' = TRUE
          /\ UNCHANGED <<accepted, file, trailerWritten, stopped>>
      BY <1>3 DEF SetFailed, output
    <2>2. ~failed /\ ~trailerWritten
      BY <1>i, <2>1 DEF ThreadsInv
    <2>s. status \in {"open", "closing"} /\ status' = "failed"
      BY <2>1, <2>2 DEF status
    <2>3. Promise!Fail
      BY <2>1, <2>s DEF Promise!Fail
    <2> QED
      BY <2>3
  <1>4. CASE WriteLast
    <2>1. /\ thread = "last" /\ UNCHANGED <<accepted, stopped, failed, queue>>
          /\ stopped /\ ~failed /\ ~trailerWritten
      BY <1>4, <1>i DEF WriteLast, shared, ThreadsInv
    <2>2. PICK ok \in BOOLEAN : Written(Lasting(previous, LastDuration), ok)
      BY <1>4 DEF WriteLast
    <2>3. trailerWritten' = trailerWritten
      BY <2>2 DEF Written
    <2>4. status = "closing" /\ status' = "closing"
      BY <2>1, <2>3 DEF status
    <2>5. Taken = Len(accepted) /\ previous # NoPacket /\ previous \in Packet
      BY <1>i, <1>n, <2>1, EmptySeq DEF ThreadsInv, Taken, HeldInv, TypeOK
    <2>6. /\ Taken > 0 /\ previous.id = Taken /\ previous.pts = accepted[Taken]
      BY <1>i, <2>1, <2>5 DEF HeldInv
    <2>p. Lasting(previous, LastDuration) \in Packet
      BY <2>5 DEF Lasting, Packet, LastDuration
    <2>7. PICK p \in Packet :
            /\ p = Lasting(previous, LastDuration) /\ p.id = Len(accepted)
            /\ p.pts = accepted[p.id] /\ p.duration = LastDuration
      BY <2>5, <2>6, <2>p DEF Lasting
    <2>8. WrittenUpTo(p.id - 1) /\ p.id \in 1..Len(accepted)
      BY <1>i, <1>n, <2>1, <2>5, <2>6, <2>7 DEF FileInv
    <2>9. CASE file' = file
      BY <2>1, <2>4, <2>9
    <2>10. CASE file' # file
      <3>1. Promise!NextFrame(Len(accepted)) /\ Promise!Write(Len(accepted), LastDuration)
        BY <1>i, <2>2, <2>7, <2>8, <2>10, NextFrameWritten
      <3>2. Promise!WriteLast
        BY <2>1, <2>4, <3>1 DEF Promise!WriteLast
      <3> QED
        BY <3>2
    <2> QED
      BY <2>9, <2>10
  <1>5. CASE WriteTrailer
    <2>1. /\ thread = "trailer" /\ UNCHANGED <<accepted, file, stopped>>
          /\ (failed' <=> ~trailerWritten') /\ (failed => ~trailerWritten')
          /\ (trailerWritten' => ~failed /\ headerWritten)
          /\ trailerWritten' \in BOOLEAN
      BY <1>5, <1>i DEF WriteTrailer, TypeOK
    <2>2. CASE failed
      <3>1. failed' /\ status = "failed" /\ status' = "failed"
        BY <2>1, <2>2 DEF status
      <3> QED
        BY <2>1, <3>1
    <2>3. CASE ~failed
      <3>1. status = "closing"
        BY <1>i, <2>1, <2>3 DEF status, ThreadsInv
      <3>2. CASE trailerWritten'
        <4>0. ~failed'
          BY <2>1, <3>2
        <4>1. status' = "complete"
          BY <3>2, <4>0 DEF status
        <4>2. /\ accepted # <<>> /\ accepted[1] = NoPts
              /\ \A k \in (LastId + 1)..(Len(accepted) - 1) : ~IsFrame(k)
          BY <1>i, <2>1, <2>3, <3>2 DEF FileInv
        <4>3. Promise!Complete
          BY <2>1, <3>1, <4>1, <4>2
             DEF Promise!Complete, Promise!LastId, Promise!IsFrame, LastId, IsFrame
        <4> QED
          BY <4>3
      <3>3. CASE ~trailerWritten'
        <4>0. failed'
          BY <2>1, <3>3
        <4>1. status' = "failed"
          BY <4>0 DEF status
        <4>2. Promise!Fail
          BY <2>1, <3>1, <4>1 DEF Promise!Fail
        <4> QED
          BY <4>2
      <3> QED
        BY <3>2, <3>3
    <2> QED
      BY <2>2, <2>3
  <1>6. CASE Close
    <2>1. /\ ~stopped /\ stopped' = TRUE
          /\ UNCHANGED <<accepted, file, failed, trailerWritten>>
      BY <1>6, <1>i DEF Close, ThreadsInv, TypeOK, output
    <2>2. CASE failed
      BY <2>1, <2>2 DEF status
    <2>3. CASE ~failed
      <3>1. ~trailerWritten
        BY <1>i, <2>1, <2>3 DEF ThreadsInv
      <3>2. status = "open" /\ status' = "closing"
        BY <2>1, <2>3, <3>1 DEF status
      <3>3. Promise!Close
        BY <2>1, <3>2 DEF Promise!Close
      <3> QED
        BY <3>3
    <2> QED
      BY <2>2, <2>3
  <1>7. CASE UNCHANGED <<accepted, file, stopped, failed, trailerWritten>>
    BY <1>7 DEF status
  <1> QED
    BY <1>1, <1>2, <1>3, <1>4, <1>5, <1>6, <1>7
       DEF Next, StreamStep, ThreadStep, Terminated, Open, OpenFails, StreamEnds, Join, Wait,
           Take, Drained, SpuriousWakeup, vars, shared, output

\* The recorder is a recording as its stream may rely on it (recorder.h): every step of
\* the threads is one of Recording or does not concern it.
THEOREM Implementation == Spec => ImplementsRecording
  <1>1. Init => Promise!Init
    BY DEF Init, Promise!Init, status
  <1>2. IInv /\ [Next]_vars => [Promise!Next]_(Promise!vars)
    BY RecordingNext
  <1> QED
    BY <1>1, <1>2, Invariance, PTL DEF Spec, ImplementsRecording, Promise!Spec

===============================================================================
