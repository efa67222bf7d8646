------------------------------ MODULE Controller ------------------------------
(****************************************************************************)
(* The controller (controller.c): the UI thread and, by scrcpy_push_event,  *)
(* the clients of the library push control messages into a circular buffer, *)
(* and a thread of its own sends them to the device.  The controller also   *)
(* starts and joins the receiver thread (Receiver.tla), that is here only   *)
(* running or over.                                                         *)
(*                                                                          *)
(* A critical section is one step: nothing in it blocks.  Sending may block *)
(* and is out of it.                                                        *)
(****************************************************************************)
EXTENDS Cbuf

CONSTANTS Capacity,  \* of the circular buffer: 64
          NoMsg,     \* no message
          MaxMsgs    \* bound: how many messages are pushed

ASSUME ControllerAssumption ==
  Capacity \in Nat \ {0} /\ MaxMsgs \in Nat /\ NoMsg \notin 1..MaxMsgs

VARIABLES
  ui,         \* where the thread is that starts and stops the controller
  thread,     \* where the controller thread is
  receiver,   \* whether the receiver thread runs
  queue,      \* the circular buffer
  stopped,
  shutdown,   \* server_stop has shut the control socket down
  msg,        \* the message taken from the queue and being sent
  pushed,     \* history: how many messages were pushed; they are numbered
  accepted,   \* history: the messages queued, in order
  sent,       \* history: the messages sent, in order
  live        \* history: the messages queued and not destroyed

clients == <<pushed, accepted>>
vars == <<ui, thread, receiver, queue, stopped, shutdown, msg, clients, sent, live>>

Msg == 1..MaxMsgs

\* controller_init succeeded.
Init ==
  /\ ui = "start" /\ thread = "none" /\ receiver = "none"
  /\ queue = cbuf_init(Capacity, NoMsg) /\ stopped = FALSE /\ shutdown = FALSE
  /\ msg = NoMsg
  /\ pushed = 0 /\ accepted = <<>> /\ sent = <<>> /\ live = {}

-------------------------------------------------------------------------------
(* controller_start *)

Start ==
  /\ ui = "start"
  /\ ui' = "startReceiver" /\ thread' = "lock"
  /\ UNCHANGED <<receiver, queue, stopped, shutdown, msg, clients, sent, live>>

\* The controller thread cannot be created.
StartFails ==
  /\ ui = "start"
  /\ ui' = "failed"
  /\ UNCHANGED <<thread, receiver, queue, stopped, shutdown, msg, clients, sent, live>>

StartReceiver ==
  /\ ui = "startReceiver"
  /\ ui' = "run" /\ receiver' = "run"
  /\ UNCHANGED <<thread, queue, stopped, shutdown, msg, clients, sent, live>>

\* sc_cond_signal: the only thread that may wait is the controller thread.
Signal == thread' = IF thread = "wait" THEN "lock" ELSE thread

\* Faulty: the condition is not signalled.
StoppedUnsignalled == stopped' = TRUE /\ UNCHANGED thread

\* controller_stop
Stopped == stopped' = TRUE /\ Signal

\* The receiver thread cannot be created: the controller thread is stopped.
StartReceiverFails ==
  /\ ui = "startReceiver"
  /\ Stopped
  /\ ui' = "abort"
  /\ UNCHANGED <<receiver, queue, shutdown, msg, clients, sent, live>>

JoinAborted ==
  /\ ui = "abort" /\ thread = "done"
  /\ ui' = "failed"
  /\ UNCHANGED <<thread, receiver, queue, stopped, shutdown, msg, clients, sent, live>>

-------------------------------------------------------------------------------
(* controller_push_msg, until the controller is destroyed *)

\* Faulty: whether the queue was empty is tested after the push.
PushMsgTestedLate ==
  /\ ui \in {"run", "shutdown", "join", "joinReceiver", "destroy"}
  /\ pushed < MaxMsgs
  /\ pushed' = pushed + 1
  /\ queue' = cbuf_push(queue, pushed')
  /\ IF cbuf_is_full(queue) THEN UNCHANGED <<accepted, live>>
     ELSE accepted' = Append(accepted, pushed') /\ live' = live \cup {pushed'}
  /\ IF cbuf_is_empty(queue') THEN Signal ELSE UNCHANGED thread
  /\ UNCHANGED <<ui, receiver, stopped, shutdown, msg, sent>>

\* The condition is signalled only if the queue was empty.
PushMsg ==
  /\ ui \in {"run", "shutdown", "join", "joinReceiver", "destroy"}
  /\ pushed < MaxMsgs
  /\ pushed' = pushed + 1
  /\ queue' = cbuf_push(queue, pushed')
  /\ IF cbuf_is_full(queue) THEN UNCHANGED <<accepted, live>>
     ELSE accepted' = Append(accepted, pushed') /\ live' = live \cup {pushed'}
  /\ IF cbuf_is_empty(queue) THEN Signal ELSE UNCHANGED thread
  /\ UNCHANGED <<ui, receiver, stopped, shutdown, msg, sent>>

-------------------------------------------------------------------------------
(* scrcpy_stop *)

Stop ==
  /\ ui = "run"
  /\ Stopped
  /\ ui' = "shutdown"
  /\ UNCHANGED <<receiver, queue, shutdown, msg, clients, sent, live>>

\* server_stop
Shutdown ==
  /\ ui = "shutdown"
  /\ shutdown' = TRUE
  /\ ui' = "join"
  /\ UNCHANGED <<thread, receiver, queue, stopped, msg, clients, sent, live>>

\* controller_join
Join ==
  /\ \/ ui = "join" /\ thread = "done" /\ ui' = "joinReceiver"
     \/ ui = "joinReceiver" /\ receiver = "done" /\ ui' = "destroy"
  /\ UNCHANGED <<thread, receiver, queue, stopped, shutdown, msg, clients, sent, live>>

\* The messages still queued, oldest first.
Queued == cbuf_contents(queue)
InQueue == {Queued[i] : i \in DOMAIN Queued}

\* controller_destroy takes and destroys the messages still queued.
Destroy ==
  /\ ui = "destroy"
  /\ queue' = [queue EXCEPT !.tail = queue.head]
  /\ live' = live \ InQueue
  /\ ui' = "destroyed"
  /\ UNCHANGED <<thread, receiver, stopped, shutdown, msg, clients, sent>>

-------------------------------------------------------------------------------
(* run_controller *)

Wait ==
  /\ thread = "lock" /\ ~stopped /\ cbuf_is_empty(queue)
  /\ thread' = "wait"
  /\ UNCHANGED <<ui, receiver, queue, stopped, shutdown, msg, clients, sent, live>>

SpuriousWakeup ==
  /\ thread = "wait"
  /\ thread' = "lock"
  /\ UNCHANGED <<ui, receiver, queue, stopped, shutdown, msg, clients, sent, live>>

\* Stop immediately, do not process further messages.
StopImmediately ==
  /\ thread = "lock" /\ stopped
  /\ thread' = "done"
  /\ UNCHANGED <<ui, receiver, queue, stopped, shutdown, msg, clients, sent, live>>

Take ==
  /\ thread = "lock" /\ ~stopped /\ ~cbuf_is_empty(queue)
  /\ msg' = cbuf_item(queue) /\ queue' = cbuf_take(queue)
  /\ thread' = "send"
  /\ UNCHANGED <<ui, receiver, stopped, shutdown, clients, sent, live>>

\* process_msg; in any case the message is destroyed.
SendOk ==
  /\ thread = "send" /\ ~shutdown
  /\ sent' = Append(sent, msg)
  /\ msg' = NoMsg /\ live' = live \ {msg}
  /\ thread' = "lock"
  /\ UNCHANGED <<ui, receiver, queue, stopped, shutdown, clients>>

\* Faulty: a message that could not be sent is not destroyed.
SendFailsLeaking ==
  /\ thread = "send"
  /\ msg' = NoMsg
  /\ thread' = "done"
  /\ UNCHANGED <<ui, receiver, queue, stopped, shutdown, clients, sent, live>>

\* The message cannot be serialized or the socket is broken or shut down.
SendFails ==
  /\ thread = "send"
  /\ msg' = NoMsg /\ live' = live \ {msg}
  /\ thread' = "done"
  /\ UNCHANGED <<ui, receiver, queue, stopped, shutdown, clients, sent>>

\* The receiver thread ends, at the latest when the socket is shut down.
ReceiverEnds ==
  /\ receiver = "run"
  /\ receiver' = "done"
  /\ UNCHANGED <<ui, thread, queue, stopped, shutdown, msg, clients, sent, live>>

-------------------------------------------------------------------------------
ThreadStep == Wait \/ StopImmediately \/ Take \/ SendOk \/ SendFails

Starting == Start \/ StartFails \/ StartReceiver \/ StartReceiverFails
Ending == JoinAborted \/ Shutdown \/ Join \/ Destroy

Terminated == ui \in {"failed", "destroyed"} /\ UNCHANGED vars

Next ==
  \/ Starting \/ PushMsg \/ Stop \/ Ending
  \/ ThreadStep \/ SpuriousWakeup \/ ReceiverEnds
  \/ Terminated

\* The threads run, and the device reads what it is sent or the sending fails.
\* Nothing makes the user push a message or quit.
Fairness ==
  /\ WF_vars(ThreadStep) /\ WF_vars(Ending)
  /\ WF_vars(ReceiverEnds /\ shutdown)

Spec == Init /\ [][Next]_vars /\ Fairness

-------------------------------------------------------------------------------
(* Properties. *)

TypeOK ==
  /\ ui \in {"start", "startReceiver", "abort", "failed", "run", "shutdown",
             "join", "joinReceiver", "destroy", "destroyed"}
  /\ thread \in {"none", "lock", "wait", "send", "done"}
  /\ receiver \in {"none", "run", "done"}
  /\ queue \in Cbuf(Capacity, Msg \cup {NoMsg})
  /\ stopped \in BOOLEAN /\ shutdown \in BOOLEAN
  /\ msg \in Msg \cup {NoMsg}
  /\ pushed \in 0..MaxMsgs /\ accepted \in Seq(Msg) /\ sent \in Seq(Msg)
  /\ live \subseteq Msg

\* The controller thread never waits while a message is queued or after it was
\* told to stop, although controller_push_msg signals only if the queue was empty.
NoLostWakeup == thread = "wait" => cbuf_is_empty(queue) /\ ~stopped

\* Until the thread is over, every message that controller_push_msg accepted was
\* sent, is being sent or is queued, in the order of the pushes.
AcceptedMessagesAreKept ==
  thread # "done" /\ ui # "destroyed" =>
    accepted = sent \o (IF msg = NoMsg THEN <<>> ELSE <<msg>>) \o Queued

\* A message is destroyed once: those that are not destroyed are queued or being
\* sent, and controller_destroy leaves none.
MessagesAreOwned ==
  /\ live = InQueue \cup (IF msg = NoMsg THEN {} ELSE {msg})
  /\ msg \notin InQueue
  /\ ui = "destroyed" => live = {}

\* No message is lost, sent twice, out of order or leaked, and none waits for a
\* wakeup that was missed (controller_push_msg, run_controller, controller_destroy).
MessagesAreSafe ==
  /\ TypeOK
  /\ NoLostWakeup
  /\ AcceptedMessagesAreKept
  /\ MessagesAreOwned

\* A message accepted is sent, unless the controller is stopped or the sending of
\* it or of an earlier one fails.
MessagesAreSent ==
  \A m \in Msg :
    (m \in live) ~> ((\E i \in DOMAIN sent : sent[i] = m) \/ stopped \/ thread = "done")

\* scrcpy_stop joins both threads, even if one of them is blocked by the device.
TeardownEnds == ui = "shutdown" ~> ui = "destroyed"

\* The controller implements a thread fed through a bounded queue.
Promise == INSTANCE WorkQueue WITH
  NoJob <- NoMsg, started <- thread # "none", submitted <- pushed, waiting <- Queued,
  current <- msg, handled <- sent, over <- thread = "done"
ImplementsWorkQueue == Promise!Spec
===============================================================================
