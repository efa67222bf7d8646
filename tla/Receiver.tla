------------------------------- MODULE Receiver -------------------------------
(****************************************************************************)
(* The receiver thread (receiver.c, device_msg.c): it receives bytes from   *)
(* the control socket, whatever their number, and processes the messages    *)
(* that are complete; the bytes of an incomplete one stay in the buffer.    *)
(*                                                                          *)
(* A message is its bytes: a type, the length of its text, and its text.    *)
(* The length is one byte here, four in the code.                           *)
(****************************************************************************)
EXTENDS Integers, Sequences

CONSTANTS MaxSize,   \* DEVICE_MSG_MAX_SIZE, the size of the buffer
          MaxTexts   \* bound: how many messages the device sends

HeaderSize == 2      \* the type and the length: 5 in the code

ASSUME ReceiverAssumption == MaxTexts \in Nat /\ MaxSize \in Nat /\ MaxSize >= HeaderSize

VARIABLES
  wire,      \* the bytes sent and not yet received
  buf,       \* the bytes received: `head' of run_receiver is its length
  reader,    \* where the receiver thread is
  consumed,  \* `head' of process_msgs
  texts,     \* history: the texts the device sent
  clipboards \* history: the texts that were copied to the clipboard

receiving == <<wire, buf, reader, consumed, texts, clipboards>>

DEVICE_MSG_TYPE_CLIPBOARD == 0
UnknownType == 1

\* The k-th text the device sends: its bytes differ from those of the others.
Text(k, length) == [i \in 1..length |-> 10 * k + i]

ReceiverInit ==
  /\ wire = <<>> /\ buf = <<>>
  /\ reader = "recv" /\ consumed = 0
  /\ texts = <<>> /\ clipboards = <<>>

\* The device sends a message, that fits in the buffer; its type is unknown if
\* the device has a later version.
DeviceSends ==
  /\ Len(texts) < MaxTexts
  /\ \E length \in 0..(MaxSize - HeaderSize) :
       LET text == Text(Len(texts) + 1, length) IN
       /\ texts' = Append(texts, text)
       /\ \E type \in {DEVICE_MSG_TYPE_CLIPBOARD, UnknownType} :
            wire' = wire \o <<type, length>> \o text
  /\ UNCHANGED <<buf, reader, consumed, clipboards>>

\* Faulty: the room that is left is not taken into account.
RecvTooMuch ==
  /\ reader = "recv"
  /\ \E n \in 1..Len(wire) :
       /\ n <= MaxSize
       /\ buf' = buf \o SubSeq(wire, 1, n)
       /\ wire' = SubSeq(wire, n + 1, Len(wire))
  /\ reader' = "process" /\ consumed' = 0
  /\ UNCHANGED <<texts, clipboards>>

\* net_recv returns some of the bytes sent.
Recv ==
  /\ reader = "recv"
  /\ \E n \in 1..Len(wire) :
       /\ n <= MaxSize - Len(buf)
       /\ buf' = buf \o SubSeq(wire, 1, n)
       /\ wire' = SubSeq(wire, n + 1, Len(wire))
  /\ reader' = "process" /\ consumed' = 0
  /\ UNCHANGED <<texts, clipboards>>

\* The socket is closed, broken or shut down.
RecvEnds ==
  /\ reader = "recv"
  /\ reader' = "done"
  /\ UNCHANGED <<wire, buf, consumed, texts, clipboards>>

-------------------------------------------------------------------------------
(* process_msgs *)

\* The bytes that are left, and the three results of device_msg_deserialize.
Left == SubSeq(buf, consumed + 1, Len(buf))

Unknown == Len(Left) >= HeaderSize /\ Left[1] # DEVICE_MSG_TYPE_CLIPBOARD

\* Faulty: one byte more is waited for.
CompleteLate ==
  /\ Len(Left) >= HeaderSize /\ Left[1] = DEVICE_MSG_TYPE_CLIPBOARD
  /\ Left[2] < Len(Left) - HeaderSize

Complete ==
  /\ Len(Left) >= HeaderSize /\ Left[1] = DEVICE_MSG_TYPE_CLIPBOARD
  /\ Left[2] <= Len(Left) - HeaderSize

\* Faulty: the remaining data is dropped.
ShiftAll(n) == buf' = <<>>

\* The remaining data is shifted to the start of the buffer.
Shift(n) == buf' = SubSeq(buf, n + 1, Len(buf))

\* Faulty: only one message is processed each time bytes are received.
ProcessOneMsg ==
  /\ reader = "process" /\ Complete
  /\ clipboards' = Append(clipboards, SubSeq(Left, HeaderSize + 1, HeaderSize + Left[2]))
  /\ consumed' = HeaderSize + Left[2]
  /\ Shift(consumed') /\ reader' = "recv"
  /\ UNCHANGED <<wire, texts>>

\* One message is processed; process_msgs returns when no byte is left.
ProcessMsg ==
  /\ reader = "process" /\ Complete
  /\ clipboards' = Append(clipboards, SubSeq(Left, HeaderSize + 1, HeaderSize + Left[2]))
  /\ consumed' = consumed + HeaderSize + Left[2]
  /\ IF consumed' = Len(buf) THEN Shift(consumed') /\ reader' = "recv"
                             ELSE UNCHANGED <<buf, reader>>
  /\ UNCHANGED <<wire, texts>>

\* The bytes left are not a complete message.
Incomplete ==
  /\ reader = "process" /\ ~Complete /\ ~Unknown
  /\ Shift(consumed)
  /\ reader' = "recv"
  /\ UNCHANGED <<wire, consumed, texts, clipboards>>

\* The type is unknown, or no memory is left for the text: the thread ends.
ProcessFails ==
  /\ reader = "process" /\ (Unknown \/ Complete)
  /\ reader' = "done"
  /\ UNCHANGED <<wire, buf, consumed, texts, clipboards>>

ReaderStep == Recv \/ RecvEnds \/ ProcessMsg \/ Incomplete \/ ProcessFails

ReaderEnded == reader = "done" /\ UNCHANGED receiving

ReceiverNext == DeviceSends \/ ReaderStep \/ ReaderEnded

\* What is sent is received, and what is received is processed; nothing makes the
\* socket be closed.
ReceiverFairness == WF_receiving(Recv) /\ WF_receiving(ProcessMsg \/ Incomplete \/ ProcessFails)

ReceiverSpec == ReceiverInit /\ [][ReceiverNext]_receiving /\ ReceiverFairness

-------------------------------------------------------------------------------
(* Properties. *)

ReceiverTypeOK ==
  /\ wire \in Seq(Nat) /\ buf \in Seq(Nat) /\ Len(buf) <= MaxSize
  /\ reader \in {"recv", "process", "done"}
  /\ consumed \in 0..MaxSize
  /\ texts \in Seq(Seq(Nat)) /\ Len(texts) <= MaxTexts
  /\ clipboards \in Seq(Seq(Nat))

\* There is room in the buffer whenever the thread receives (the assertion of
\* run_receiver): a message that fits is processed before the buffer is full.
BufferHasRoom == reader = "recv" => Len(buf) < MaxSize

\* However the bytes are cut and joined on their way, the clipboard receives the
\* texts the device sent, in order and unchanged.
TextsAreReceived ==
  /\ ReceiverTypeOK
  /\ BufferHasRoom
  /\ Len(clipboards) <= Len(texts)
  /\ \A k \in 1..Len(clipboards) : clipboards[k] = texts[k]

\* A text that was sent reaches the clipboard, unless the thread ends: no complete
\* message stays in the buffer until more bytes come.
TextsReachTheClipboard ==
  \A k \in 1..MaxTexts :
    Len(texts) >= k ~> (Len(clipboards) >= k \/ reader = "done")
===============================================================================
