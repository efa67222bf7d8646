--------------------------- MODULE ControllerProofs ---------------------------
(****************************************************************************)
(* Proofs about the controller, for any capacity of its queue and any       *)
(* number of messages: its safety, and that it implements WorkQueue; and    *)
(* about the receiver, the other thread of the control socket, for a buffer *)
(* of any size.                                                             *)
(****************************************************************************)
EXTENDS Controller, Receiver, QueueProofs

\* What the sender thread holds, as a sequence.
InHand == IF msg = NoMsg THEN <<>> ELSE <<msg>>

\* Where the threads may be together.
ThreadsInv ==
  /\ thread = "none" => ui \in {"start", "failed"}
  /\ ui = "start" => thread = "none"
  /\ ui \in {"joinReceiver", "destroy", "destroyed"} => thread = "done"
  /\ thread = "send" <=> msg # NoMsg

\* The messages are numbered: those that wait are in order, behind the one in hand.
OrderInv ==
  /\ Ordered(Queued, pushed)
  /\ msg # NoMsg => msg \in 1..pushed /\ Behind(msg, Queued)

\* The messages not yet destroyed are those queued and the one in hand.
OwnedInv ==
  /\ live = InQueue \cup (IF msg = NoMsg THEN {} ELSE {msg})
  /\ ui = "destroyed" => live = {}

IInv == /\ TypeOK /\ ThreadsInv /\ NoLostWakeup /\ OrderInv
        /\ AcceptedMessagesAreKept /\ OwnedInv

-------------------------------------------------------------------------------
(* What the steps do to the queue. *)

\* The messages that wait are a sequence, empty or full with the buffer.
LEMMA QueuedType ==
  ASSUME TypeOK
  PROVE  /\ Queued \in Seq(Msg \cup {NoMsg})
         /\ InQueue = Elements(Queued)
         /\ Len(Queued) \in 0..Capacity
         /\ Queued = <<>> <=> cbuf_is_empty(queue)
         /\ Len(Queued) = Capacity <=> cbuf_is_full(queue)
<1>1. queue \in Cbuf(Capacity, Msg \cup {NoMsg})
  BY DEF TypeOK
<1> QED BY <1>1, Contents, EmptyAndFull, ControllerAssumption DEF Queued, InQueue, Elements

\* A push adds the message behind the others, or is refused by a full queue.
LEMMA PushEffect ==
  ASSUME TypeOK, PushMsg
  PROVE  /\ pushed' = pushed + 1 /\ pushed' \in Msg
         /\ queue' \in Cbuf(Capacity, Msg \cup {NoMsg})
         /\ \/ /\ cbuf_is_full(queue) /\ Queued' = Queued /\ queue' = queue
               /\ UNCHANGED <<accepted, live>>
            \/ /\ ~cbuf_is_full(queue) /\ Queued' = Append(Queued, pushed')
               /\ accepted' = Append(accepted, pushed') /\ live' = live \cup {pushed'}
<1>1. queue \in Cbuf(Capacity, Msg \cup {NoMsg}) /\ pushed \in Nat
  BY ControllerAssumption DEF TypeOK
<1>2. pushed' = pushed + 1 /\ pushed' \in Msg
  BY <1>1, ControllerAssumption DEF PushMsg, Msg
<1>3. queue' = cbuf_push(queue, pushed')
  BY DEF PushMsg
<1>4. CASE cbuf_is_full(queue)
  <2>1. queue' = queue
    BY <1>3, <1>4 DEF cbuf_push
  <2> QED BY <1>1, <1>2, <1>4, <2>1 DEF PushMsg, Queued
<1>5. CASE ~cbuf_is_full(queue)
  <2>1. /\ cbuf_push(queue, pushed') \in Cbuf(Capacity, Msg \cup {NoMsg})
        /\ cbuf_contents(cbuf_push(queue, pushed')) = Append(cbuf_contents(queue), pushed')
    BY <1>1, <1>2, <1>5, PushAppends, ControllerAssumption
  <2> QED BY <1>2, <1>3, <1>5, <2>1 DEF PushMsg, Queued
<1> QED BY <1>4, <1>5

\* A take removes the first message.
LEMMA TakeEffect ==
  ASSUME TypeOK, Take
  PROVE  /\ queue' \in Cbuf(Capacity, Msg \cup {NoMsg}) /\ msg' \in Msg \cup {NoMsg}
         /\ Queued = <<msg'>> \o Queued'
         /\ Queued' \in Seq(Msg \cup {NoMsg})
         /\ Queued # <<>> /\ msg' = Head(Queued) /\ Queued' = Tail(Queued)
<1>1. queue \in Cbuf(Capacity, Msg \cup {NoMsg}) /\ ~cbuf_is_empty(queue)
  BY DEF TypeOK, Take
<1>2. /\ queue' \in Cbuf(Capacity, Msg \cup {NoMsg}) /\ msg' \in Msg \cup {NoMsg}
      /\ Queued = <<msg'>> \o Queued'
  BY <1>1, TakeRemovesFirst, ControllerAssumption DEF Take, Queued
<1>3. Queued' \in Seq(Msg \cup {NoMsg})
  BY <1>2, Contents, ControllerAssumption DEF Queued
<1>4. Queued # <<>> /\ msg' = Head(Queued) /\ Queued' = Tail(Queued)
  <2> DEFINE q == Queued'
  <2>1. q \in Seq(Msg \cup {NoMsg}) /\ Queued = <<msg'>> \o q
    BY <1>2, <1>3
  <2> HIDE DEF q
  <2>2. <<msg'>> \o q # <<>> /\ Head(<<msg'>> \o q) = msg' /\ Tail(<<msg'>> \o q) = q
    BY <1>2, <2>1
  <2> QED BY <2>1, <2>2 DEF q
<1> QED BY <1>2, <1>3, <1>4

\* The destruction of the controller empties the queue.
LEMMA DestroyEffect ==
  ASSUME TypeOK, Destroy
  PROVE  queue' \in Cbuf(Capacity, Msg \cup {NoMsg}) /\ Queued' = <<>>
<1>1. queue \in Cbuf(Capacity, Msg \cup {NoMsg}) /\ queue' = [queue EXCEPT !.tail = queue.head]
  BY DEF TypeOK, Destroy
<1>2. queue' \in Cbuf(Capacity, Msg \cup {NoMsg}) /\ cbuf_is_empty(queue')
  BY <1>1 DEF Cbuf, cbuf_is_empty
<1> QED BY <1>2, EmptyAndFull, ControllerAssumption DEF Queued

-------------------------------------------------------------------------------
(* The invariant. *)

\* The controller starts with an empty queue and nothing in hand.
LEMMA Initial == Init => IInv
<1> SUFFICES ASSUME Init PROVE IInv
  OBVIOUS
<1>1. queue \in Cbuf(Capacity, Msg \cup {NoMsg}) /\ cbuf_is_empty(queue)
  BY ControllerAssumption DEF Init, cbuf_init, Cbuf, cbuf_is_empty
<1>2. Queued = <<>>
  BY <1>1, EmptyAndFull, ControllerAssumption DEF Queued
<1>3. TypeOK
  <2>1. <<>> \in Seq(Msg) /\ 0 \in 0..MaxMsgs
    BY ControllerAssumption, EmptySeq
  <2> QED BY <1>1, <2>1 DEF Init, TypeOK
<1>4. AcceptedMessagesAreKept
  BY <1>2 DEF Init, AcceptedMessagesAreKept
<1> QED
  BY <1>1, <1>2, <1>3, <1>4
  DEF Init, IInv, ThreadsInv, NoLostWakeup, OrderInv, Ordered, OwnedInv, InQueue

\* Every step keeps the types.
LEMMA TypeNext == TypeOK /\ ThreadsInv /\ [Next]_vars => TypeOK'
<1> SUFFICES ASSUME TypeOK, ThreadsInv, [Next]_vars PROVE TypeOK'
  OBVIOUS
<1> USE DEF TypeOK, clients
<1>1. CASE Starting
  BY <1>1 DEF Starting, Start, StartFails, StartReceiver, StartReceiverFails, Stopped, Signal
<1>2. CASE PushMsg
  <2>1. PushMsg /\ queue' \in Cbuf(Capacity, Msg \cup {NoMsg}) /\ pushed' \in Msg
    BY <1>2, PushEffect
  <2>2. accepted' \in Seq(Msg) /\ live' \subseteq Msg
    <3>1. Append(accepted, pushed') \in Seq(Msg)
      BY <2>1, AppendProperties
    <3> QED BY <2>1, <3>1 DEF PushMsg
  <2>3. thread' \in {"none", "lock", "wait", "send", "done"}
    BY <2>1 DEF PushMsg, Signal
  <2>4. UNCHANGED <<ui, receiver, stopped, shutdown, msg, sent>> /\ pushed' \in 0..MaxMsgs
    BY <2>1 DEF PushMsg, Msg
  <2> QED BY <2>1, <2>2, <2>3, <2>4
<1>3. CASE Stop
  BY <1>3 DEF Stop, Stopped, Signal
<1>4. CASE JoinAborted \/ Shutdown \/ Join
  BY <1>4 DEF JoinAborted, Shutdown, Join
<1>5. CASE Destroy
  <2>1. queue' \in Cbuf(Capacity, Msg \cup {NoMsg})
    BY <1>5, DestroyEffect
  <2> QED BY <1>5, <2>1 DEF Destroy
<1>6. CASE Wait \/ StopImmediately \/ SpuriousWakeup \/ ReceiverEnds
  BY <1>6 DEF Wait, StopImmediately, SpuriousWakeup, ReceiverEnds
<1>7. CASE Take
  <2>1. queue' \in Cbuf(Capacity, Msg \cup {NoMsg}) /\ msg' \in Msg \cup {NoMsg}
    BY <1>7, TakeEffect
  <2> QED BY <1>7, <2>1 DEF Take
<1>8. CASE SendOk
  <2>1. msg \in Msg
    BY <1>8 DEF SendOk, ThreadsInv
  <2>2. sent' \in Seq(Msg)
    BY <1>8, <2>1, AppendProperties DEF SendOk
  <2> QED BY <1>8, <2>2 DEF SendOk
<1>9. CASE SendFails
  BY <1>9 DEF SendFails
<1>10. CASE Terminated \/ UNCHANGED vars
  BY <1>10 DEF Terminated, vars, clients
<1> QED
  BY <1>1, <1>2, <1>3, <1>4, <1>5, <1>6, <1>7, <1>8, <1>9, <1>10 DEF Next, Ending, ThreadStep

\* What is taken is a message, the first of those that wait, and the others stay in
\* order behind it.
LEMMA TakeInHand ==
  ASSUME TypeOK, OrderInv, Take
  PROVE  /\ msg' # NoMsg /\ msg' \in 1..pushed
         /\ Behind(msg', Queued') /\ Ordered(Queued', pushed)
         /\ InQueue = {msg'} \cup InQueue'
<1> DEFINE q == Queued'
           m == msg'
           S == Msg \cup {NoMsg}
<1>1. m \in S /\ q \in Seq(S) /\ Queued = <<m>> \o q /\ pushed \in Nat
  BY TakeEffect DEF TypeOK
<1>2. Ordered(<<m>> \o q, pushed)
  BY <1>1 DEF OrderInv
<1> HIDE DEF q, m, S
<1>3. /\ m \in 1..pushed /\ Behind(m, q) /\ Ordered(q, pushed)
      /\ Elements(<<m>> \o q) = {m} \cup Elements(q)
  BY <1>1, <1>2, FirstNumber
<1>4. m # NoMsg
  BY <1>3, ControllerAssumption DEF TypeOK
<1>5. InQueue = {m} \cup InQueue'
  BY <1>1, <1>3 DEF InQueue, Elements, q
<1> QED BY <1>3, <1>4, <1>5 DEF q, m

\* Every step keeps where the threads may be together.
LEMMA ThreadsNext == IInv /\ [Next]_vars => ThreadsInv'
<1> SUFFICES ASSUME TypeOK, ThreadsInv, OrderInv, [Next]_vars PROVE ThreadsInv'
  BY DEF IInv
<1> USE DEF ThreadsInv
<1>1. CASE Starting
  BY <1>1 DEF Starting, Start, StartFails, StartReceiver, StartReceiverFails, Stopped, Signal
<1>2. CASE PushMsg
  BY <1>2 DEF PushMsg, Signal
<1>3. CASE Stop
  BY <1>3 DEF Stop, Stopped, Signal
<1>4. CASE Ending
  BY <1>4 DEF Ending, JoinAborted, Shutdown, Join, Destroy
<1>5. CASE Take
  BY <1>5, TakeInHand DEF Take
<1>6. CASE Wait \/ StopImmediately \/ SpuriousWakeup \/ ReceiverEnds \/ SendOk \/ SendFails
  BY <1>6 DEF Wait, StopImmediately, SpuriousWakeup, ReceiverEnds, SendOk, SendFails
<1>7. CASE Terminated \/ UNCHANGED vars
  BY <1>7 DEF Terminated, vars, clients
<1> QED BY <1>1, <1>2, <1>3, <1>4, <1>5, <1>6, <1>7 DEF Next, ThreadStep

\* Every step that makes the thread have something to do signals it, although a
\* push does so only if the queue was empty.
LEMMA WakeupNext == IInv /\ [Next]_vars => NoLostWakeup'
<1> SUFFICES ASSUME TypeOK, ThreadsInv, NoLostWakeup, [Next]_vars PROVE NoLostWakeup'
  BY DEF IInv
<1> USE DEF NoLostWakeup
<1>1. CASE Starting
  BY <1>1 DEF Starting, Start, StartFails, StartReceiver, StartReceiverFails, Stopped, Signal
<1>2. CASE PushMsg
  BY <1>2 DEF PushMsg, Signal
<1>3. CASE Stop
  BY <1>3 DEF Stop, Stopped, Signal
<1>4. CASE Ending
  BY <1>4 DEF Ending, JoinAborted, Shutdown, Join, Destroy, ThreadsInv
<1>5. CASE ThreadStep \/ SpuriousWakeup \/ ReceiverEnds
  BY <1>5 DEF ThreadStep, Wait, StopImmediately, SpuriousWakeup, ReceiverEnds, Take, SendOk,
              SendFails
<1>6. CASE Terminated \/ UNCHANGED vars
  BY <1>6 DEF Terminated, vars, clients
<1> QED BY <1>1, <1>2, <1>3, <1>4, <1>5, <1>6 DEF Next

\* The steps that change neither the queue nor the message in hand.
Elsewhere ==
  Starting \/ Stop \/ JoinAborted \/ Shutdown \/ Join \/ Wait \/ StopImmediately
    \/ SpuriousWakeup \/ ReceiverEnds \/ Terminated \/ UNCHANGED vars

\* They leave the history of the messages alone.
LEMMA ElsewhereEffect ==
  ASSUME Elsewhere
  PROVE  Queued' = Queued /\ UNCHANGED <<queue, msg, pushed, accepted, sent, live>>
<1>1. UNCHANGED <<queue, msg, pushed, accepted, sent, live>>
  BY DEF Elsewhere, Starting, Start, StartFails, StartReceiver, StartReceiverFails, Stop,
         JoinAborted, Shutdown, Join, Wait, StopImmediately, SpuriousWakeup, ReceiverEnds,
         Terminated, vars, clients
<1> QED BY <1>1 DEF Queued

\* There are no other steps.
LEMMA Cases ==
  ASSUME [Next]_vars
  PROVE  Elsewhere \/ PushMsg \/ Destroy \/ Take \/ SendOk \/ SendFails
BY DEF Elsewhere, Next, Ending, ThreadStep

\* Every step keeps the messages in order.
LEMMA OrderNext == IInv /\ [Next]_vars => OrderInv'
<1> SUFFICES ASSUME TypeOK, ThreadsInv, OrderInv, [Next]_vars PROVE OrderInv'
  BY DEF IInv
<1>t. pushed \in Nat /\ Queued \in Seq(Msg \cup {NoMsg})
  BY ControllerAssumption, QueuedType DEF TypeOK
<1>1. CASE Elsewhere
  <2>1. Queued' = Queued /\ msg' = msg /\ pushed' = pushed
    BY <1>1, ElsewhereEffect
  <2> QED BY <2>1 DEF OrderInv
<1>2. CASE PushMsg
  <2>1. msg' = msg
    BY <1>2 DEF PushMsg
  <2>2. pushed' = pushed + 1 /\ pushed' \in Msg
    BY <1>2, PushEffect
  <2>3. CASE Queued' = Queued
    BY <1>t, <2>1, <2>2, <2>3 DEF OrderInv, Ordered
  <2>4. CASE Queued' = Append(Queued, pushed')
    <3> DEFINE q == Queued
               S == Msg \cup {NoMsg}
    <3>1. pushed + 1 \in S /\ q \in Seq(S) /\ Queued' = Append(q, pushed + 1)
      BY <1>t, <2>2, <2>4
    <3>2. Ordered(q, pushed) /\ (msg # NoMsg => msg \in 1..pushed /\ Behind(msg, q))
      BY DEF OrderInv
    <3> HIDE DEF q, S
    <3>3. /\ Ordered(Append(q, pushed + 1), pushed + 1)
          /\ \A e \in 1..pushed : Behind(e, q) => Behind(e, Append(q, pushed + 1))
      BY <1>t, <3>1, <3>2, AppendNumber
    <3> QED BY <1>t, <2>1, <2>2, <3>1, <3>2, <3>3 DEF OrderInv
  <2> QED BY <1>2, <2>3, <2>4, PushEffect
<1>3. CASE Destroy
  <2>1. Queued' = <<>> /\ msg' = msg /\ pushed' = pushed
    BY <1>3, DestroyEffect DEF Destroy, clients
  <2> QED BY <2>1 DEF OrderInv, Ordered, Behind
<1>4. CASE Take
  <2>1. pushed' = pushed
    BY <1>4 DEF Take, clients
  <2> QED BY <1>4, <2>1, TakeInHand DEF OrderInv
<1>5. CASE SendOk \/ SendFails
  <2>1. Queued' = Queued /\ msg' = NoMsg /\ pushed' = pushed
    BY <1>5 DEF SendOk, SendFails, Queued, clients
  <2> QED BY <2>1 DEF OrderInv
<1> QED BY <1>1, <1>2, <1>3, <1>4, <1>5, Cases

\* The message in hand is not queued.
LEMMA InHandNotQueued ==
  ASSUME TypeOK, OrderInv
  PROVE  msg \notin InQueue
<1> SUFFICES ASSUME NEW i \in DOMAIN Queued PROVE Queued[i] # msg
  BY DEF InQueue
<1>1. Queued[i] \in 1..pushed /\ pushed \in 0..MaxMsgs
  BY DEF OrderInv, Ordered, TypeOK
<1>2. CASE msg = NoMsg
  BY <1>1, <1>2, ControllerAssumption
<1>3. CASE msg # NoMsg
  <2>1. msg \in 1..pushed /\ msg < Queued[i]
    BY <1>3 DEF OrderInv, Behind
  <2> QED BY <1>1, <2>1, ControllerAssumption
<1> QED BY <1>2, <1>3

\* Every step keeps what was accepted, sent, in hand or queued.
LEMMA KeptNext == IInv /\ [Next]_vars => AcceptedMessagesAreKept'
<1> SUFFICES ASSUME TypeOK, ThreadsInv, OrderInv, AcceptedMessagesAreKept, [Next]_vars,
                    thread' # "done", ui' # "destroyed"
             PROVE  accepted' = sent' \o InHand' \o Queued'
  BY DEF IInv, AcceptedMessagesAreKept, InHand
<1> DEFINE S == Msg \cup {NoMsg}
           q == Queued
           r == Queued'
<1>t. q \in Seq(S) /\ sent \in Seq(S) /\ msg \in S /\ accepted \in Seq(S)
  BY QueuedType DEF TypeOK
<1>k. thread # "done" => accepted = sent \o InHand \o q
  <2>1. thread # "done" => ui # "destroyed"
    BY DEF ThreadsInv
  <2> QED BY <2>1 DEF AcceptedMessagesAreKept, InHand
<1>1. CASE Elsewhere
  <2>1. r = q /\ UNCHANGED <<msg, accepted, sent>>
    BY <1>1, ElsewhereEffect
  <2>2. thread # "done"
    BY <1>1 DEF Elsewhere, Starting, Start, StartFails, StartReceiver, StartReceiverFails,
         Stopped, Signal, Stop,
         JoinAborted, Shutdown, Join, Wait, StopImmediately, SpuriousWakeup, ReceiverEnds,
         Terminated, vars, ThreadsInv
  <2> QED BY <1>k, <2>1, <2>2 DEF InHand
<1>2. CASE PushMsg
  <2>1. thread # "done" /\ UNCHANGED <<msg, sent>>
    BY <1>2 DEF PushMsg, Signal
  <2>2. InHand' = InHand /\ InHand \in Seq(S)
    <3> HIDE DEF S
    <3>1. <<>> \in Seq(S) /\ <<msg>> \in Seq(S)
      BY <1>t, EmptySeq
    <3> QED BY <2>1, <3>1 DEF InHand
  <2>3. CASE r = q /\ accepted' = accepted
    BY <1>k, <2>1, <2>2, <2>3
  <2>4. CASE r = Append(q, pushed') /\ accepted' = Append(accepted, pushed')
    <3> DEFINE p == pushed'
               held == sent \o InHand
    <3>1. p \in S /\ held \in Seq(S) /\ accepted = held \o q
      BY <1>2, <1>k, <1>t, <2>1, <2>2, PushEffect
    <3>2. r = Append(q, p) /\ accepted' = Append(accepted, p)
      BY <2>4
    <3>3. sent' \o InHand' \o r = held \o r
      BY <2>1, <2>2
    <3> HIDE DEF p, held, S, q, r
    <3>4. Append(held \o q, p) = held \o Append(q, p)
      <4>1. <<p>> \in Seq(S) /\ held \o q \in Seq(S)
        BY <1>t, <3>1, ConcatProperties
      <4>2. (held \o q) \o <<p>> = held \o (q \o <<p>>)
        BY <1>t, <3>1, <4>1, ConcatAssociative
      <4>3. Append(held \o q, p) = (held \o q) \o <<p>> /\ Append(q, p) = q \o <<p>>
        BY <1>t, <3>1, <4>1, AppendIsConcat
      <4> QED BY <4>2, <4>3
    <3>5. accepted' = held \o r
      BY <3>1, <3>2, <3>4
    <3> QED BY <3>3, <3>5 DEF r
  <2> QED BY <1>2, <2>3, <2>4, PushEffect
<1>3. CASE Destroy
  BY <1>3 DEF Destroy
<1>4. CASE Take
  <2>1. /\ r \in Seq(S) /\ msg' \in S /\ q = <<msg'>> \o r
        /\ thread = "lock" /\ UNCHANGED <<accepted, sent>>
    BY <1>4, TakeEffect DEF Take, clients
  <2>2. InHand = <<>> /\ accepted = sent \o <<>> \o q
    BY <1>k, <2>1 DEF InHand, ThreadsInv
  <2>3. msg' # NoMsg
    BY <1>4, TakeInHand
  <2>4. InHand' = <<msg'>>
    BY <2>3 DEF InHand
  <2> DEFINE m == msg'
  <2>5. sent' \o InHand' \o r = sent \o <<m>> \o r
    BY <2>1, <2>4
  <2>6. q = <<m>> \o r /\ m \in S /\ r \in Seq(S)
    BY <2>1
  <2> HIDE DEF q, r, S, m
  <2>7. sent \o <<>> \o (<<m>> \o r) = sent \o <<m>> \o r
    BY <1>t, <2>6
  <2>8. accepted' = sent \o <<m>> \o r
    BY <2>1, <2>2, <2>6, <2>7
  <2> QED BY <2>5, <2>8 DEF r
<1>5. CASE SendOk
  <2>1. /\ r = q /\ msg' = NoMsg /\ thread = "send" /\ accepted' = accepted
        /\ sent' = Append(sent, msg)
    BY <1>5 DEF SendOk, Queued, clients
  <2>2. InHand = <<msg>> /\ InHand' = <<>> /\ accepted = sent \o <<msg>> \o q
    BY <1>k, <2>1 DEF InHand, ThreadsInv
  <2>3. sent' \o InHand' \o r = Append(sent, msg) \o <<>> \o q
    BY <2>1, <2>2
  <2> HIDE DEF q, r, S
  <2>4. Append(sent, msg) \o <<>> \o q = sent \o <<msg>> \o q
    BY <1>t
  <2> QED BY <2>1, <2>2, <2>3, <2>4 DEF r
<1>6. CASE SendFails
  BY <1>6 DEF SendFails
<1> QED BY <1>1, <1>2, <1>3, <1>4, <1>5, <1>6, Cases

\* Every step that drops a message destroys it.
LEMMA OwnedNext == IInv /\ [Next]_vars => OwnedInv'
<1> SUFFICES ASSUME TypeOK, ThreadsInv, OrderInv, OwnedInv, [Next]_vars PROVE OwnedInv'
  BY DEF IInv
<1>t. pushed \in Nat /\ Queued \in Seq(Msg \cup {NoMsg})
  BY ControllerAssumption, QueuedType DEF TypeOK
<1>1. CASE Elsewhere
  <2>1. Queued' = Queued /\ UNCHANGED <<msg, live>>
    BY <1>1, ElsewhereEffect
  <2>2. ui' # "destroyed" \/ ui = "destroyed"
    BY <1>1 DEF Elsewhere, Starting, Start, StartFails, StartReceiver, StartReceiverFails, Stop,
         JoinAborted, Shutdown, Join, Wait, StopImmediately, SpuriousWakeup, ReceiverEnds,
         Terminated, vars
  <2> QED BY <2>1, <2>2 DEF OwnedInv, InQueue
<1>2. CASE PushMsg
  <2>1. msg' = msg /\ ui' # "destroyed"
    BY <1>2 DEF PushMsg
  <2>2. CASE Queued' = Queued /\ live' = live
    BY <2>1, <2>2 DEF OwnedInv, InQueue
  <2>3. CASE Queued' = Append(Queued, pushed') /\ live' = live \cup {pushed'}
    <3> DEFINE q == Queued
               S == Msg \cup {NoMsg}
    <3>1. q \in Seq(S) /\ pushed' = pushed + 1 /\ pushed + 1 \in S
            /\ Queued' = Append(q, pushed + 1)
      BY <1>2, <1>t, <2>3, PushEffect
    <3> HIDE DEF q, S
    <3>2. Elements(Append(q, pushed + 1)) = Elements(q) \cup {pushed + 1}
      BY <1>t, <3>1, AppendNumber
    <3>3. InQueue' = InQueue \cup {pushed'}
      BY <3>1, <3>2 DEF InQueue, Elements, q
    <3> QED BY <2>1, <2>3, <3>3 DEF OwnedInv
  <2> QED BY <1>2, <2>2, <2>3, PushEffect
<1>3. CASE Destroy
  <2>1. Queued' = <<>> /\ msg' = msg /\ live' = live \ InQueue
    BY <1>3, DestroyEffect DEF Destroy
  <2>2. msg = NoMsg
    BY <1>3 DEF Destroy, ThreadsInv
  <2>3. InQueue' = {}
    BY <2>1 DEF InQueue
  <2> QED BY <2>1, <2>2, <2>3 DEF OwnedInv
<1>4. CASE Take
  <2>1. thread = "lock" /\ UNCHANGED <<ui, live>>
    BY <1>4 DEF Take
  <2>2. msg = NoMsg /\ ui # "destroyed"
    BY <2>1 DEF ThreadsInv
  <2>3. msg' # NoMsg /\ InQueue = {msg'} \cup InQueue'
    BY <1>4, TakeInHand
  <2> QED BY <2>1, <2>2, <2>3 DEF OwnedInv
<1>5. CASE SendOk \/ SendFails
  <2>1. /\ Queued' = Queued /\ msg' = NoMsg /\ live' = live \ {msg} /\ ui' = ui
        /\ thread = "send"
    BY <1>5 DEF SendOk, SendFails, Queued
  <2>2. msg # NoMsg
    BY <2>1 DEF ThreadsInv
  <2> QED BY <2>1, <2>2, InHandNotQueued DEF OwnedInv, InQueue
<1> QED BY <1>1, <1>2, <1>3, <1>4, <1>5, Cases

\* The inductive invariant holds, for any capacity and any number of messages.
THEOREM Invariance == Spec => []IInv
<1>1. IInv /\ [Next]_vars => IInv'
  BY TypeNext, ThreadsNext, WakeupNext, OrderNext, KeptNext, OwnedNext DEF IInv
<1> QED BY <1>1, Initial, PTL DEF Spec

\* No message is lost, reordered, sent twice or leaked, and no wakeup is missed.
THEOREM SafeMessages == Spec => []MessagesAreSafe
<1>1. IInv => MessagesAreSafe
  BY InHandNotQueued DEF IInv, OwnedInv, MessagesAreSafe, MessagesAreOwned
<1> QED BY <1>1, Invariance, PTL

-------------------------------------------------------------------------------
(* The refinement. *)

\* The controller implements a thread fed through a bounded queue: every step of it
\* is one of WorkQueue or changes nothing there.
THEOREM Implementation == Spec => ImplementsWorkQueue
<1>1. Init => Promise!Init
  <2> SUFFICES ASSUME Init PROVE Promise!Init
    OBVIOUS
  <2>1. queue \in Cbuf(Capacity, Msg \cup {NoMsg}) /\ cbuf_is_empty(queue)
    BY ControllerAssumption DEF Init, cbuf_init, Cbuf, cbuf_is_empty
  <2>2. Queued = <<>>
    BY <2>1, EmptyAndFull, ControllerAssumption DEF Queued
  <2> QED BY <2>2 DEF Init, Promise!Init
<1>2. IInv /\ [Next]_vars => [Promise!Next]_Promise!vars
  <2> SUFFICES ASSUME TypeOK, ThreadsInv, NoLostWakeup, OrderInv, [Next]_vars
               PROVE  [Promise!Next]_Promise!vars
    BY DEF IInv
  <2>1. CASE Elsewhere
    <3>1. Queued' = Queued /\ UNCHANGED <<msg, pushed, sent>>
      BY <2>1, ElsewhereEffect
    <3>2. CASE Start
      BY <3>1, <3>2 DEF Start, ThreadsInv, Promise!Next, Promise!Start
    <3>3. CASE StartReceiverFails \/ Stop
      <4>1. stopped' = TRUE /\ (thread' = "none" <=> thread = "none")
            /\ (thread' = "done" <=> thread = "done")
        BY <3>3 DEF StartReceiverFails, Stop, Stopped, Signal
      <4> QED BY <3>1, <4>1 DEF Promise!Next, Promise!Stop
    <3>4. CASE StopImmediately
      <4>1. thread = "lock" /\ thread' = "done" /\ stopped' = stopped /\ stopped
            /\ msg = NoMsg
        BY <3>4 DEF StopImmediately, ThreadsInv
      <4> QED BY <3>1, <4>1 DEF Promise!Next, Promise!End
    <3>5. CASE StartFails \/ StartReceiver \/ JoinAborted \/ Shutdown \/ Join \/ Wait
                 \/ SpuriousWakeup \/ ReceiverEnds \/ Terminated \/ UNCHANGED vars
      <4>1. stopped' = stopped /\ (thread' = "none" <=> thread = "none")
            /\ (thread' = "done" <=> thread = "done")
        BY <3>5 DEF StartFails, StartReceiver, JoinAborted, Shutdown, Join, Wait,
             SpuriousWakeup, ReceiverEnds, Terminated, vars
      <4> QED BY <3>1, <4>1 DEF Promise!vars
    <3> QED BY <2>1, <3>2, <3>3, <3>4, <3>5 DEF Elsewhere, Starting
  <2>2. CASE PushMsg
    <3>1. /\ stopped' = stopped /\ UNCHANGED <<msg, sent>>
          /\ thread # "none" /\ thread' # "none" /\ (thread' = "done" <=> thread = "done")
      BY <2>2 DEF PushMsg, Signal, ThreadsInv
    <3>2. pushed' = pushed + 1
      BY <2>2, PushEffect
    <3>3. CASE cbuf_is_full(queue) /\ Queued' = Queued
      <4>1. Len(Queued) = Capacity
        BY <3>3, QueuedType
      <4> QED BY <3>1, <3>2, <3>3, <4>1 DEF Promise!Next, Promise!Refuse
    <3>4. CASE ~cbuf_is_full(queue) /\ Queued' = Append(Queued, pushed')
      <4>1. Len(Queued) < Capacity
        BY <3>4, QueuedType, ControllerAssumption
      <4> QED BY <3>1, <3>2, <3>4, <4>1 DEF Promise!Next, Promise!Submit
    <3> QED BY <2>2, <3>3, <3>4, PushEffect
  <2>3. CASE Destroy
    <3>1. Queued' = <<>> /\ thread = "done" /\ UNCHANGED <<thread, stopped, msg, pushed, sent>>
      BY <2>3, DestroyEffect DEF Destroy, ThreadsInv, clients
    <3> QED BY <3>1 DEF Promise!Next, Promise!Discard
  <2>4. CASE Take
    <3>1. Queued # <<>> /\ msg' = Head(Queued) /\ Queued' = Tail(Queued)
      BY <2>4, TakeEffect
    <3>2. thread = "lock" /\ thread' = "send" /\ ~stopped /\ UNCHANGED <<stopped, pushed, sent>>
          /\ msg = NoMsg
      BY <2>4 DEF Take, clients, ThreadsInv
    <3> QED BY <3>1, <3>2 DEF Promise!Next, Promise!Begin
  <2>5. CASE SendOk
    <3>1. /\ Queued' = Queued /\ thread = "send" /\ thread' = "lock" /\ msg # NoMsg
          /\ msg' = NoMsg /\ sent' = Append(sent, msg) /\ UNCHANGED <<stopped, pushed>>
      BY <2>5 DEF SendOk, Queued, clients, ThreadsInv
    <3> QED BY <3>1 DEF Promise!Next, Promise!Finish
  <2>6. CASE SendFails
    <3>1. /\ Queued' = Queued /\ thread = "send" /\ thread' = "done" /\ msg # NoMsg
          /\ msg' = NoMsg /\ UNCHANGED <<stopped, pushed, sent>>
      BY <2>6 DEF SendFails, Queued, clients, ThreadsInv
    <3> QED BY <3>1 DEF Promise!Next, Promise!Abandon
  <2> QED BY <2>1, <2>2, <2>3, <2>4, <2>5, <2>6, Cases
<1> QED BY <1>1, <1>2, Invariance, PTL DEF Spec, ImplementsWorkQueue, Promise!Spec
-------------------------------------------------------------------------------
(* The receiver. *)

\* A sequence of bytes is made of messages, whose texts are those of `all' but the first
\* `past' ones: each begins at its place in `start'.
Header == {DEVICE_MSG_TYPE_CLIPBOARD, UnknownType}
FrameAt(place, bytes, text) ==
  /\ bytes[place + 1] \in Header /\ bytes[place + 2] = Len(text)
  /\ \A i \in 1..Len(text) : bytes[place + HeaderSize + i] = text[i]
Framed(start, bytes, past, all) ==
  /\ start \in [past..Len(all) -> 0..Len(bytes)]
  /\ start[past] = 0 /\ start[Len(all)] = Len(bytes)
  /\ \A j, k \in past..Len(all) : j <= k => start[j] <= start[k]
  /\ \A k \in past..Len(all) - 1 :
       start[k + 1] = start[k] + HeaderSize + Len(all[k + 1]) /\ FrameAt(start[k], bytes, all[k + 1])

\* The bytes received and not processed, then those on their way, are the messages whose
\* texts have not reached the clipboard.
Rest == (IF reader = "process" THEN Left ELSE buf) \o wire
RestInv == reader # "done" => \E start : Framed(start, Rest, Len(clipboards), texts)

\* Every message fits in the buffer; something is left while messages are processed.
TextInv ==
  /\ \A k \in 1..Len(texts) : Len(texts[k]) <= MaxSize - HeaderSize
  /\ reader = "process" => consumed < Len(buf)

ReceiverInv == TextsAreReceived /\ TextInv /\ RestInv

\* The bytes of a part of a sequence.
LEMMA PartOf ==
  ASSUME NEW s \in Seq(Nat), NEW m \in Nat, NEW n \in 0..Len(s), m <= n
  PROVE  /\ SubSeq(s, m + 1, n) \in Seq(Nat) /\ Len(SubSeq(s, m + 1, n)) = n - m
         /\ \A i \in 1..n - m : SubSeq(s, m + 1, n)[i] = s[m + i]
<1>1. m \in Int /\ n \in Int /\ Len(s) \in Nat /\ s \in [1..Len(s) -> Nat]
  OBVIOUS
<1>2. SubSeq(s, m + 1, n) = [i \in 1..n - m |-> s[m + i]]
  BY <1>1
<1> QED BY <1>1, <1>2

\* The bytes of two sequences that are joined.
LEMMA Joins ==
  ASSUME NEW s \in Seq(Nat), NEW t \in Seq(Nat)
  PROVE  /\ s \o t \in Seq(Nat) /\ Len(s \o t) = Len(s) + Len(t)
         /\ \A i \in 1..Len(s) : (s \o t)[i] = s[i]
         /\ \A i \in 1..Len(t) : (s \o t)[Len(s) + i] = t[i]
OBVIOUS

\* The order in which three sequences are joined does not matter.
LEMMA Joined ==
  ASSUME NEW s \in Seq(Nat), NEW t \in Seq(Nat), NEW u \in Seq(Nat)
  PROVE  (s \o t) \o u = s \o (t \o u)
BY ConcatAssociative

\* Where the bytes are the same, so is the message.
LEMMA SameFrame ==
  ASSUME NEW text, NEW size \in Nat, Len(text) = size, NEW a \in Nat, NEW b \in Nat, NEW s, NEW t,
         FrameAt(a, s, text), \A i \in 1..HeaderSize + size : t[b + i] = s[a + i]
  PROVE  FrameAt(b, t, text)
<1>1. t[b + 1] = s[a + 1] /\ t[b + 2] = s[a + 2]
  BY DEF HeaderSize
<1>2. ASSUME NEW i \in 1..size PROVE t[b + HeaderSize + i] = s[a + HeaderSize + i]
  <2>1. /\ HeaderSize + i \in 1..HeaderSize + size
        /\ b + (HeaderSize + i) = b + HeaderSize + i /\ a + (HeaderSize + i) = a + HeaderSize + i
    BY DEF HeaderSize
  <2>2. t[b + (HeaderSize + i)] = s[a + (HeaderSize + i)]
    BY <2>1
  <2> QED BY <2>1, <2>2
<1> QED BY <1>1, <1>2 DEF FrameAt

\* A message that is sent comes after the others.
LEMMA FramesExtended ==
  ASSUME NEW all \in Seq(Seq(Nat)), NEW past \in 0..Len(all), NEW start,
         NEW bytes \in Seq(Nat), Framed(start, bytes, past, all),
         NEW text \in Seq(Nat), NEW message \in Seq(Nat),
         Len(message) = HeaderSize + Len(text), FrameAt(0, message, text)
  PROVE  \E next : Framed(next, bytes \o message, past, Append(all, text))
<1> DEFINE n == Len(bytes)
           l == Len(all)
           m == HeaderSize + Len(text)
           more == bytes \o message
           longer == Append(all, text)
           next == [k \in past..l + 1 |-> IF k = l + 1 THEN n + m ELSE start[k]]
<1>1. /\ n \in Nat /\ l \in Nat /\ past \in Nat /\ past <= l
      /\ Len(text) \in Nat /\ m \in Nat /\ m = 2 + Len(text)
  BY DEF HeaderSize
<1>2. /\ Len(more) = n + m
      /\ \A i \in 1..n : more[i] = bytes[i]
      /\ \A i \in 1..m : more[n + i] = message[i]
  BY Joins
<1>3. /\ Len(longer) = l + 1 /\ longer[l + 1] = text
      /\ \A k \in 1..l : longer[k] = all[k] /\ Len(all[k]) \in Nat
  OBVIOUS
<1>4. /\ \A k \in past..l : start[k] \in 0..n
      /\ start[l] = n /\ start[past] = 0
      /\ \A j, k \in past..l : j <= k => start[j] <= start[k]
  BY DEF Framed
<1>5. \A k \in past..l - 1 :
        start[k + 1] = start[k] + HeaderSize + Len(all[k + 1]) /\ FrameAt(start[k], bytes, all[k + 1])
  BY DEF Framed
<1> HIDE DEF n, l, m, more, longer
<1>6. (\A k \in past..l : next[k] = start[k]) /\ next[l + 1] = n + m
  BY <1>1
<1>7. \A k \in past..l + 1 : next[k] \in 0..n + m
  <2>1. ASSUME NEW k \in past..l PROVE next[k] \in 0..n + m
    BY <1>1, <1>4, <1>6
  <2>2. next[l + 1] \in 0..n + m
    BY <1>1, <1>6
  <2>3. past..l + 1 = (past..l) \cup {l + 1}
    BY <1>1
  <2> QED BY <2>1, <2>2, <2>3
<1>8. next \in [past..l + 1 -> 0..n + m]
  BY <1>7
<1> HIDE DEF next
<1>9. \A j, k \in past..l + 1 : j <= k => next[j] <= next[k]
  <2> SUFFICES ASSUME NEW j \in past..l + 1, NEW k \in past..l + 1, j <= k
               PROVE  next[j] <= next[k]
    OBVIOUS
  <2>1. CASE k = l + 1
    BY <1>1, <1>6, <1>7, <2>1
  <2>2. CASE k # l + 1
    <3>1. j \in past..l /\ k \in past..l
      BY <1>1, <2>2
    <3>2. next[j] = start[j] /\ next[k] = start[k] /\ start[j] <= start[k]
      BY <1>4, <1>6, <3>1
    <3> QED BY <3>2
  <2> QED BY <2>1, <2>2
<1>10. ASSUME NEW k \in past..l
       PROVE  /\ next[k + 1] = next[k] + HeaderSize + Len(longer[k + 1])
              /\ FrameAt(next[k], more, longer[k + 1])
  <2>1. CASE k = l
    <3>1. next[k] = n /\ next[k + 1] = n + m /\ longer[k + 1] = text
      BY <1>1, <1>3, <1>4, <1>6, <2>1
    <3>2. \A i \in 1..HeaderSize + Len(text) : more[n + i] = message[0 + i]
      BY <1>1, <1>2 DEF HeaderSize
    <3>3. FrameAt(n, more, text)
      BY <1>1, <3>2, SameFrame
    <3> QED BY <1>1, <3>1, <3>3 DEF HeaderSize
  <2>2. CASE k \in past..l - 1
    <3>1. /\ k \in past..l /\ k + 1 \in past..l /\ k + 1 \in 1..l
      BY <1>1, <2>2
    <3>2. /\ next[k] = start[k] /\ next[k + 1] = start[k + 1] /\ longer[k + 1] = all[k + 1]
          /\ start[k] \in 0..n /\ start[k + 1] \in 0..n /\ Len(all[k + 1]) \in Nat
      BY <1>3, <1>4, <1>6, <3>1
    <3>3. start[k + 1] = start[k] + HeaderSize + Len(all[k + 1]) /\ FrameAt(start[k], bytes, all[k + 1])
      BY <1>5, <2>2
    <3> DEFINE size == Len(all[k + 1])
               a == start[k]
    <3>4. a \in Nat /\ size \in Nat /\ a + HeaderSize + size <= n
      BY <1>1, <3>2, <3>3
    <3> HIDE DEF size, a
    <3>5. \A i \in 1..HeaderSize + size : more[a + i] = bytes[a + i]
      BY <1>1, <1>2, <3>4 DEF HeaderSize
    <3>6. FrameAt(a, more, all[k + 1])
      BY <3>3, <3>4, <3>5, SameFrame DEF size, a
    <3> QED BY <3>2, <3>3, <3>6 DEF a
  <2> QED BY <1>1, <2>1, <2>2
<1>11. Framed(next, more, past, longer)
  <2>1. next[past] = 0
    BY <1>1, <1>4, <1>6
  <2>2. next[l + 1] = n + m /\ Len(longer) = l + 1 /\ Len(longer) - 1 = l /\ Len(more) = n + m
    BY <1>1, <1>2, <1>3, <1>6
  <2>3. /\ next \in [past..Len(longer) -> 0..Len(more)]
        /\ next[Len(longer)] = Len(more)
        /\ \A j, k \in past..Len(longer) : j <= k => next[j] <= next[k]
    BY <1>8, <1>9, <2>2
  <2>4. \A k \in past..Len(longer) - 1 :
          /\ next[k + 1] = next[k] + HeaderSize + Len(longer[k + 1])
          /\ FrameAt(next[k], more, longer[k + 1])
    BY <1>10, <2>2
  <2> QED BY <2>1, <2>3, <2>4 DEF Framed
<1> QED BY <1>11 DEF more, longer

\* The first message is the first of the texts that are left, and the others follow it.
LEMMA FirstFrame ==
  ASSUME NEW all \in Seq(Seq(Nat)), NEW past \in 0..Len(all), NEW start,
         NEW bytes \in Seq(Nat), Framed(start, bytes, past, all), Len(bytes) > 0
  PROVE  /\ past < Len(all)
         /\ HeaderSize + Len(all[past + 1]) <= Len(bytes)
         /\ FrameAt(0, bytes, all[past + 1])
         /\ \A left \in Seq(Nat) :
              /\ Len(left) = Len(bytes) - (HeaderSize + Len(all[past + 1]))
              /\ \A i \in 1..Len(left) : left[i] = bytes[HeaderSize + Len(all[past + 1]) + i]
              => \E next : Framed(next, left, past + 1, all)
<1> DEFINE n == Len(bytes)
           l == Len(all)
           m == HeaderSize + Len(all[past + 1])
<1>1. n \in Nat /\ l \in Nat /\ past \in Nat /\ past <= l
  OBVIOUS
<1>2. past < l
  <2>1. start[past] = 0 /\ start[l] = n
    BY DEF Framed
  <2> QED BY <1>1, <2>1
<1>3. all[past + 1] \in Seq(Nat) /\ m \in Nat
  BY <1>1, <1>2 DEF HeaderSize
<1>4. \A k \in past..l - 1 :
        start[k + 1] = start[k] + HeaderSize + Len(all[k + 1]) /\ FrameAt(start[k], bytes, all[k + 1])
  BY DEF Framed
<1>5. /\ \A k \in past..l : start[k] \in 0..n
      /\ start[past] = 0 /\ start[l] = n
      /\ \A j, k \in past..l : j <= k => start[j] <= start[k]
  BY DEF Framed
<1>6. start[past + 1] = m /\ FrameAt(0, bytes, all[past + 1])
  <2>1. past \in past..l - 1 /\ Len(all[past + 1]) \in Nat
    BY <1>1, <1>2, <1>3
  <2> QED BY <1>4, <1>5, <2>1 DEF HeaderSize
<1>7. m <= n
  BY <1>1, <1>2, <1>3, <1>5, <1>6
<1>8. ASSUME NEW left \in Seq(Nat), Len(left) = n - m,
             \A i \in 1..Len(left) : left[i] = bytes[m + i]
      PROVE  \E next : Framed(next, left, past + 1, all)
  <2> DEFINE next == [k \in past + 1..l |-> start[k] - m]
  <2> HIDE DEF n, l, m
  <2>1. \A k \in past + 1..l : next[k] = start[k] - m /\ start[k] \in m..n
    <3>1. ASSUME NEW k \in past + 1..l PROVE start[k] \in m..n
      <4>1. k \in past..l /\ past + 1 \in past..l /\ past + 1 <= k
        BY <1>1
      <4>2. start[past + 1] <= start[k] /\ start[k] \in 0..n
        BY <1>5, <4>1
      <4> QED BY <1>1, <1>3, <1>6, <4>2
    <3> QED BY <3>1
  <2>2. next \in [past + 1..l -> 0..n - m]
    <3>1. ASSUME NEW k \in past + 1..l PROVE start[k] - m \in 0..n - m
      <4>1. start[k] \in m..n
        BY <2>1
      <4> QED BY <1>1, <1>3, <4>1
    <3> QED BY <3>1
  <2> HIDE DEF next
  <2>3. next[past + 1] = 0 /\ next[l] = n - m
    <3>1. start[past + 1] = m /\ start[l] = n
      BY <1>5, <1>6
    <3>2. past + 1 \in past + 1..l /\ l \in past + 1..l
      BY <1>1, <1>2
    <3>3. next[past + 1] = m - m /\ next[l] = n - m
      BY <2>1, <3>1, <3>2
    <3> QED BY <1>3, <3>3
  <2>4. \A j, k \in past + 1..l : j <= k => next[j] <= next[k]
    <3> SUFFICES ASSUME NEW j \in past + 1..l, NEW k \in past + 1..l, j <= k
                 PROVE  next[j] <= next[k]
      OBVIOUS
    <3>1. start[j] <= start[k] /\ start[j] \in m..n /\ start[k] \in m..n
      BY <1>1, <1>5, <2>1
    <3> QED BY <1>1, <1>3, <2>1, <3>1
  <2>5. ASSUME NEW k \in past + 1..l - 1
        PROVE  /\ next[k + 1] = next[k] + HeaderSize + Len(all[k + 1])
               /\ FrameAt(next[k], left, all[k + 1])
    <3>1. k \in past..l - 1 /\ k \in past + 1..l /\ k + 1 \in past + 1..l /\ k + 1 \in 1..l
      BY <1>1
    <3>2. /\ next[k] = start[k] - m /\ next[k + 1] = start[k + 1] - m
          /\ start[k] \in m..n /\ start[k + 1] \in m..n
      BY <2>1, <3>1
    <3>3. start[k + 1] = start[k] + HeaderSize + Len(all[k + 1]) /\ FrameAt(start[k], bytes, all[k + 1])
      BY <1>4, <3>1
    <3>4. Len(all[k + 1]) \in Nat
      BY <3>1 DEF l
    <3>5. \A i \in 1..n - m : left[i] = bytes[m + i]
      BY <1>8 DEF n, m
    <3> DEFINE size == Len(all[k + 1])
               a == start[k]
               b == next[k]
    <3>6. /\ a \in m..n /\ size \in Nat /\ b = a - m /\ a + HeaderSize + size <= n
          /\ a \in Nat /\ b \in Nat /\ next[k + 1] = b + HeaderSize + size
      <4>1. a \in m..n /\ size \in Nat /\ b = a - m
        BY <3>2, <3>4
      <4>2. start[k + 1] = a + HeaderSize + size /\ start[k + 1] \in m..n
        BY <3>2, <3>3
      <4>3. next[k + 1] = start[k + 1] - m
        BY <3>2
      <4> HIDE DEF size, a, b
      <4> QED BY <1>1, <1>3, <4>1, <4>2, <4>3 DEF HeaderSize
    <3> HIDE DEF size, a, b
    <3>7. ASSUME NEW i \in 1..HeaderSize + size PROVE left[b + i] = bytes[a + i]
      <4>1. b + i \in 1..n - m /\ m + (b + i) = a + i
        BY <1>1, <1>3, <3>6 DEF HeaderSize
      <4> QED BY <3>5, <4>1
    <3>8. FrameAt(b, left, all[k + 1])
      BY <3>3, <3>6, <3>7, SameFrame DEF size, a
    <3> QED BY <3>6, <3>8 DEF b, size
  <2>6. Framed(next, left, past + 1, all)
    BY <1>8, <2>2, <2>3, <2>4, <2>5 DEF Framed, n, l, m
  <2> QED BY <2>6
<1> QED BY <1>2, <1>6, <1>7, <1>8

\* Nothing has been sent at the start.
LEMMA ReceiverStarts == ReceiverInit => ReceiverInv
<1> SUFFICES ASSUME ReceiverInit PROVE ReceiverInv
  OBVIOUS
<1>1. TextsAreReceived /\ TextInv
  BY ReceiverAssumption
  DEF ReceiverInit, TextsAreReceived, ReceiverTypeOK, BufferHasRoom, TextInv, HeaderSize
<1>2. Rest = <<>> /\ texts = <<>> /\ clipboards = <<>>
  BY DEF ReceiverInit, Rest
<1>3. Framed([k \in 0..0 |-> 0], <<>>, 0, <<>>)
  BY DEF Framed
<1>4. RestInv
  BY <1>2, <1>3 DEF RestInv
<1> QED BY <1>1, <1>4 DEF ReceiverInv

\* The types of the variables, and what is left in the buffer.
LEMMA ReceiverTypes ==
  ASSUME ReceiverInv
  PROVE  /\ wire \in Seq(Nat) /\ buf \in Seq(Nat) /\ texts \in Seq(Seq(Nat))
         /\ clipboards \in Seq(Seq(Nat)) /\ Len(clipboards) \in 0..Len(texts)
         /\ Len(wire) \in Nat /\ Len(buf) \in 0..MaxSize /\ consumed \in 0..MaxSize
         /\ MaxSize \in Nat /\ HeaderSize = 2 /\ MaxSize >= 2
         /\ reader = "process" =>
              /\ Left \in Seq(Nat) /\ Len(Left) = Len(buf) - consumed /\ consumed < Len(buf)
              /\ \A i \in 1..Len(Left) : Left[i] = buf[consumed + i]
         /\ Rest \in Seq(Nat)
<1>1. /\ wire \in Seq(Nat) /\ buf \in Seq(Nat) /\ texts \in Seq(Seq(Nat))
      /\ clipboards \in Seq(Seq(Nat)) /\ Len(clipboards) <= Len(texts)
      /\ Len(buf) <= MaxSize /\ consumed \in 0..MaxSize
      /\ reader = "process" => consumed < Len(buf)
  BY DEF ReceiverInv, TextsAreReceived, ReceiverTypeOK, TextInv
<1>2. MaxSize \in Nat /\ HeaderSize = 2 /\ MaxSize >= 2
  BY ReceiverAssumption DEF HeaderSize
<1>3. Len(wire) \in Nat /\ Len(buf) \in 0..MaxSize /\ Len(clipboards) \in 0..Len(texts)
  BY <1>1, <1>2
<1>4. ASSUME reader = "process"
      PROVE  /\ Left \in Seq(Nat) /\ Len(Left) = Len(buf) - consumed
             /\ \A i \in 1..Len(Left) : Left[i] = buf[consumed + i]
  <2>1. consumed \in Nat /\ Len(buf) \in 0..Len(buf) /\ consumed <= Len(buf)
    BY <1>1, <1>3, <1>4
  <2> QED BY <1>1, <2>1, PartOf DEF Left
<1>5. Rest \in Seq(Nat)
  <2>1. (IF reader = "process" THEN Left ELSE buf) \in Seq(Nat)
    BY <1>1, <1>4
  <2> QED BY <1>1, <2>1, Joins DEF Rest
<1> QED BY <1>1, <1>2, <1>3, <1>4, <1>5

\* A message that is sent comes after all the others.
LEMMA SentMessage ==
  ASSUME ReceiverInv, DeviceSends
  PROVE  ReceiverInv'
<1>1. PICK length \in 0..(MaxSize - HeaderSize),
           type \in {DEVICE_MSG_TYPE_CLIPBOARD, UnknownType} :
        /\ texts' = Append(texts, Text(Len(texts) + 1, length))
        /\ wire' = wire \o <<type, length>> \o Text(Len(texts) + 1, length)
  BY DEF DeviceSends
<1> DEFINE text == Text(Len(texts) + 1, length)
           message == <<type, length>> \o text
<1>2. /\ length \in Nat /\ type \in Nat /\ type \in Header /\ Len(texts) \in Nat
      /\ length <= MaxSize - HeaderSize
  BY ReceiverTypes DEF DEVICE_MSG_TYPE_CLIPBOARD, UnknownType, Header
<1>3. text \in Seq(Nat) /\ Len(text) = length
  BY <1>2 DEF Text
<1> HIDE DEF text
<1>4. /\ message \in Seq(Nat) /\ Len(message) = HeaderSize + length
      /\ message[1] = type /\ message[2] = length
      /\ \A i \in 1..length : message[HeaderSize + i] = text[i]
  BY <1>2, <1>3 DEF HeaderSize
<1>5. FrameAt(0, message, text)
  <2>1. message[0 + 1] = type /\ message[0 + 2] = length
    BY <1>4
  <2>2. ASSUME NEW i \in 1..length PROVE message[0 + HeaderSize + i] = text[i]
    <3>1. 0 + HeaderSize + i = HeaderSize + i
      BY DEF HeaderSize
    <3> QED BY <1>4, <3>1
  <2> QED BY <1>2, <1>3, <2>1, <2>2 DEF FrameAt
<1>6. wire' = wire \o message /\ texts' = Append(texts, text)
  <2>1. <<type, length>> \in Seq(Nat) /\ wire \in Seq(Nat)
    BY <1>2, ReceiverTypes
  <2>2. wire' = wire \o <<type, length>> \o text
    BY <1>1 DEF text
  <2> QED BY <1>1, <1>3, <2>1, <2>2, ConcatAssociative DEF text
<1> HIDE DEF message
<1>7. /\ texts' \in Seq(Seq(Nat)) /\ Len(texts') = Len(texts) + 1
      /\ \A k \in 1..Len(texts) : texts'[k] = texts[k]
      /\ texts'[Len(texts) + 1] = text
      /\ wire' \in Seq(Nat)
  BY <1>3, <1>4, <1>6, ReceiverTypes
<1>8. UNCHANGED <<buf, reader, consumed, clipboards>> /\ Len(texts) < MaxTexts
  BY DEF DeviceSends
<1>9. TextsAreReceived'
  <2>1. ReceiverTypeOK'
    <3>1. Len(texts') <= MaxTexts
      BY <1>2, <1>7, <1>8, ReceiverAssumption
    <3> QED BY <1>7, <1>8, <3>1 DEF ReceiverInv, TextsAreReceived, ReceiverTypeOK
  <2>2. BufferHasRoom'
    BY <1>8 DEF ReceiverInv, TextsAreReceived, BufferHasRoom
  <2>3. \A k \in 1..Len(clipboards) : clipboards[k] = texts[k] /\ k \in 1..Len(texts)
    BY ReceiverTypes DEF ReceiverInv, TextsAreReceived
  <2>4. Len(clipboards) <= Len(texts')
    BY <1>2, <1>7, ReceiverTypes
  <2> QED BY <1>7, <1>8, <2>1, <2>2, <2>3, <2>4 DEF TextsAreReceived
<1>10. TextInv'
  <2>1. ASSUME NEW k \in 1..Len(texts') PROVE Len(texts'[k]) <= MaxSize - HeaderSize
    <3>1. k \in 1..Len(texts) \/ k = Len(texts) + 1
      BY <1>2, <1>7
    <3> QED BY <1>2, <1>3, <1>7, <3>1 DEF ReceiverInv, TextInv
  <2> QED BY <1>8, <2>1 DEF ReceiverInv, TextInv
<1>11. RestInv'
  <2> SUFFICES ASSUME reader # "done" PROVE \E next : Framed(next, Rest', Len(clipboards), texts')
    BY <1>8 DEF RestInv
  <2>1. PICK start : Framed(start, Rest, Len(clipboards), texts)
    BY DEF ReceiverInv, RestInv
  <2> DEFINE received == IF reader = "process" THEN Left ELSE buf
  <2>2. received \in Seq(Nat)
    BY ReceiverTypes
  <2>3. Rest = received \o wire /\ Rest' = received \o (wire \o message)
    BY <1>6, <1>8 DEF Rest, Left
  <2> HIDE DEF received
  <2>4. Rest' = Rest \o message
    <3>1. wire \in Seq(Nat)
      BY ReceiverTypes
    <3>2. (received \o wire) \o message = received \o (wire \o message)
      <4>1. message \in Seq(Nat)
        BY <1>4
      <4> QED BY <2>2, <3>1, <4>1, Joined
    <3> QED BY <2>3, <3>2
  <2>5. \E next : Framed(next, Rest \o message, Len(clipboards), Append(texts, text))
    BY <1>3, <1>4, <1>5, <2>1, FramesExtended, ReceiverTypes
  <2> QED BY <1>6, <2>4, <2>5
<1> QED BY <1>9, <1>10, <1>11 DEF ReceiverInv

\* The bytes that come were those on their way: what is left to process is the same.
LEMMA Received ==
  ASSUME ReceiverInv, Recv
  PROVE  ReceiverInv'
<1>1. PICK n \in 1..Len(wire) :
        /\ n <= MaxSize - Len(buf)
        /\ buf' = buf \o SubSeq(wire, 1, n)
        /\ wire' = SubSeq(wire, n + 1, Len(wire))
  BY DEF Recv
<1> DEFINE bytes == SubSeq(wire, 1, n)
<1>2. /\ wire \in Seq(Nat) /\ buf \in Seq(Nat) /\ Len(wire) \in Nat /\ Len(buf) \in Nat
      /\ n \in Nat /\ n <= Len(wire) /\ MaxSize \in Nat
  BY ReceiverTypes
<1>3. /\ bytes \in Seq(Nat) /\ Len(bytes) = n
      /\ wire' \in Seq(Nat) /\ bytes \o wire' = wire
  <2>1. bytes \in Seq(Nat) /\ Len(bytes) = n
    BY <1>2
  <2>2. wire' \in Seq(Nat)
    BY <1>1, <1>2, PartOf
  <2>3. bytes \o SubSeq(wire, n + 1, Len(wire)) = SubSeq(wire, 1, Len(wire))
    BY <1>2, ConcatAdjacentSubSeq
  <2>4. SubSeq(wire, 1, Len(wire)) = wire
    BY <1>2, SubSeqFull
  <2> QED BY <1>1, <2>1, <2>2, <2>3, <2>4
<1> HIDE DEF bytes
<1>4. /\ reader = "recv" /\ reader' = "process" /\ consumed' = 0
      /\ UNCHANGED <<texts, clipboards>>
  BY DEF Recv
<1>5. buf' = buf \o bytes /\ buf' \in Seq(Nat) /\ Len(buf') = Len(buf) + n
  <2>1. buf' = buf \o bytes
    BY <1>1 DEF bytes
  <2>2. buf \o bytes \in Seq(Nat) /\ Len(buf \o bytes) = Len(buf) + Len(bytes)
    BY <1>2, <1>3, Joins
  <2> QED BY <1>3, <2>1, <2>2
<1>6. Left' = buf' /\ Rest = buf \o wire
  <2>1. Left' = SubSeq(buf', 1, Len(buf'))
    BY <1>4 DEF Left
  <2>2. Left' = buf'
    BY <1>5, <2>1, SubSeqFull
  <2> QED BY <1>4, <2>2 DEF Rest
<1>7. Rest' = Rest
  <2>1. Rest' = (buf \o bytes) \o wire'
    BY <1>4, <1>5, <1>6 DEF Rest
  <2>2. (buf \o bytes) \o wire' = buf \o (bytes \o wire')
    <3>1. buf \in Seq(Nat) /\ bytes \in Seq(Nat) /\ wire' \in Seq(Nat)
      BY <1>2, <1>3
    <3> QED BY <3>1, Joined
  <2> QED BY <1>3, <1>6, <2>1, <2>2
<1>8. TextsAreReceived'
  <2>1. Len(buf') <= MaxSize /\ 0 \in 0..MaxSize
    BY <1>1, <1>2, <1>5
  <2>2. ReceiverTypeOK'
    BY <1>3, <1>4, <1>5, <2>1 DEF ReceiverInv, TextsAreReceived, ReceiverTypeOK
  <2> QED BY <1>4, <2>2 DEF ReceiverInv, TextsAreReceived, BufferHasRoom
<1>9. TextInv'
  <2>1. consumed' < Len(buf')
    BY <1>2, <1>4, <1>5
  <2> QED BY <1>4, <2>1 DEF ReceiverInv, TextInv
<1>10. RestInv'
  BY <1>4, <1>7 DEF ReceiverInv, RestInv
<1> QED BY <1>8, <1>9, <1>10 DEF ReceiverInv

\* A complete message is the first of those left: its text is the next one that was sent,
\* and what is left after it are the others.
LEMMA Processed ==
  ASSUME ReceiverInv, ProcessMsg
  PROVE  ReceiverInv'
<1> DEFINE past == Len(clipboards)
           text == texts[past + 1]
           n == Left[2]
           size == Len(buf)
           next == consumed + (HeaderSize + n)
           rest == SubSeq(buf, next + 1, size)
<1>1. /\ reader = "process" /\ Len(Left) >= 2 /\ n <= Len(Left) - 2
      /\ clipboards' = Append(clipboards, SubSeq(Left, HeaderSize + 1, HeaderSize + n))
      /\ UNCHANGED <<wire, texts>>
  BY DEF ProcessMsg, Complete, HeaderSize
<1>2. /\ Left \in Seq(Nat) /\ Len(Left) = size - consumed
      /\ \A i \in 1..Len(Left) : Left[i] = buf[consumed + i]
      /\ wire \in Seq(Nat) /\ Len(wire) \in Nat /\ buf \in Seq(Nat) /\ size \in 0..MaxSize
      /\ consumed \in 0..MaxSize /\ MaxSize \in Nat /\ MaxSize >= 2
      /\ texts \in Seq(Seq(Nat)) /\ clipboards \in Seq(Seq(Nat))
      /\ past \in 0..Len(texts) /\ Len(texts) \in Nat
  BY <1>1, ReceiverTypes
<1>3. /\ n \in Nat /\ Len(Left) \in Nat /\ 2 + n <= Len(Left)
      /\ size \in Nat /\ consumed \in Nat /\ past \in Nat
  <2>1. Left \in Seq(Nat) /\ Len(Left) \in Nat /\ Len(Left) >= 2
    BY <1>1, <1>2
  <2>2. n \in Nat
    BY <2>1
  <2>3. size \in Nat /\ consumed \in Nat /\ past \in Nat
    BY <1>2
  <2> HIDE DEF n, size, past
  <2>4. n <= Len(Left) - 2
    BY <1>1
  <2> QED BY <2>1, <2>2, <2>3, <2>4
<1> HIDE DEF n, size
<1>4. next = consumed + 2 + n /\ next \in Nat /\ next <= size /\ size - next = Len(Left) - (2 + n)
  <2>1. Len(Left) = size - consumed
    BY <1>2
  <2> QED BY <1>3, <2>1 DEF HeaderSize
<1>5. /\ consumed' = next
      /\ \/ next = size /\ buf' = rest /\ reader' = "recv"
         \/ next # size /\ UNCHANGED <<buf, reader>>
  <2>1. /\ consumed' = consumed + HeaderSize + n
        /\ IF consumed' = size THEN buf' = SubSeq(buf, consumed' + 1, size) /\ reader' = "recv"
                               ELSE UNCHANGED <<buf, reader>>
    BY DEF ProcessMsg, Shift, n, size
  <2>2. consumed' = next
    BY <1>3, <1>4, <2>1 DEF HeaderSize
  <2> HIDE DEF next
  <2> QED BY <2>1, <2>2
<1>6. /\ rest \in Seq(Nat) /\ Len(rest) = size - next
      /\ \A i \in 1..size - next : rest[i] = buf[next + i]
  <2>1. next \in Nat /\ next <= size /\ buf \in Seq(Nat)
    BY <1>2, <1>4
  <2> HIDE DEF next
  <2>2. size \in 0..Len(buf)
    BY <1>3 DEF size
  <2> QED BY <2>1, <2>2, PartOf
<1> HIDE DEF next, rest
<1>7. /\ Rest = Left \o wire /\ Rest \in Seq(Nat) /\ Len(Rest) = Len(Left) + Len(wire)
      /\ \A i \in 1..Len(Left) : Rest[i] = Left[i]
      /\ \A i \in 1..Len(wire) : Rest[Len(Left) + i] = wire[i]
  <2>1. Rest = Left \o wire
    BY <1>1 DEF Rest
  <2>2. Left \in Seq(Nat) /\ wire \in Seq(Nat)
    BY <1>2
  <2> QED BY <2>1, <2>2, Joins
<1>8. PICK start : Framed(start, Rest, past, texts)
  BY <1>1 DEF ReceiverInv, RestInv
<1>9. Len(Rest) > 0
  <2>1. Len(wire) \in Nat /\ Len(Rest) = Len(Left) + Len(wire)
    BY <1>2, <1>7
  <2> QED BY <1>3, <2>1
<1>10. /\ past < Len(texts) /\ FrameAt(0, Rest, text)
       /\ \A left \in Seq(Nat) :
            /\ Len(left) = Len(Rest) - (HeaderSize + Len(text))
            /\ \A i \in 1..Len(left) : left[i] = Rest[HeaderSize + Len(text) + i]
            => \E place : Framed(place, left, past + 1, texts)
  <2>1. Rest \in Seq(Nat) /\ texts \in Seq(Seq(Nat)) /\ past \in 0..Len(texts)
    BY <1>2, <1>7
  <2> QED BY <1>8, <1>9, <2>1, FirstFrame
<1>11. text \in Seq(Nat) /\ Len(text) = n
  <2>1. past + 1 \in 1..Len(texts) /\ texts \in Seq(Seq(Nat))
    BY <1>2, <1>3, <1>10
  <2>2. text \in Seq(Nat)
    BY <2>1
  <2>3. Rest[2] = Left[2] /\ Rest[0 + 2] = Len(text)
    BY <1>1, <1>3, <1>7, <1>10 DEF FrameAt
  <2> QED BY <2>2, <2>3 DEF n
<1> HIDE DEF text
<1>12. SubSeq(Left, HeaderSize + 1, HeaderSize + n) = text
  <2> DEFINE m == HeaderSize + n
             copy == SubSeq(Left, HeaderSize + 1, m)
  <2>1. m \in 0..Len(Left) /\ HeaderSize \in Nat /\ HeaderSize <= m /\ m - HeaderSize = n
    BY <1>3 DEF HeaderSize
  <2> HIDE DEF m
  <2>2. /\ copy \in Seq(Nat) /\ Len(copy) = n
        /\ \A i \in 1..n : copy[i] = Left[HeaderSize + i]
    <3>1. Left \in Seq(Nat)
      BY <1>2
    <3> QED BY <2>1, <3>1, PartOf
  <2> HIDE DEF copy
  <2>3. \A i \in 1..n : copy[i] = text[i]
    <3> SUFFICES ASSUME NEW i \in 1..n PROVE copy[i] = text[i]
      OBVIOUS
    <3>1. HeaderSize + i \in 1..Len(Left) /\ 0 + HeaderSize + i = HeaderSize + i
      BY <1>3 DEF HeaderSize
    <3>2. Rest[0 + HeaderSize + i] = text[i]
      BY <1>10, <1>11 DEF FrameAt
    <3> QED BY <1>7, <2>2, <3>1, <3>2
  <2>4. copy = text
    BY <1>11, <2>2, <2>3, SeqEqual
  <2> QED BY <2>4 DEF copy, m
<1>13. Rest' = rest \o wire
  <2>1. CASE reader' = "recv"
    BY <1>1, <1>5, <2>1 DEF Rest
  <2>2. CASE reader' # "recv"
    <3>1. reader' = "process" /\ buf' = buf /\ consumed' = next /\ wire' = wire
      BY <1>1, <1>5, <2>2
    <3>2. Left' = rest
      BY <3>1 DEF Left, rest, size
    <3> QED BY <3>1, <3>2 DEF Rest
  <2> QED BY <2>1, <2>2
<1>14. /\ clipboards' = Append(clipboards, text) /\ Len(clipboards') = past + 1
       /\ clipboards' \in Seq(Seq(Nat)) /\ clipboards'[past + 1] = text
       /\ \A k \in 1..past : clipboards'[k] = clipboards[k]
  <2>1. clipboards' = Append(clipboards, text) /\ clipboards \in Seq(Seq(Nat))
    BY <1>1, <1>2, <1>12
  <2> QED BY <1>11, <2>1
<1>15. /\ buf' \in Seq(Nat) /\ Len(buf') <= MaxSize /\ consumed' \in 0..MaxSize
       /\ reader' = "recv" => Len(buf') = 0
       /\ reader' = "process" => consumed' < Len(buf')
  <2>1. MaxSize \in Nat /\ size <= MaxSize /\ buf \in Seq(Nat)
    BY <1>2
  <2>2. CASE next = size /\ buf' = rest /\ reader' = "recv"
    BY <1>3, <1>4, <1>5, <1>6, <2>1, <2>2
  <2>3. CASE next # size /\ UNCHANGED <<buf, reader>>
    <3>1. Len(buf') = size /\ reader' = "process"
      BY <1>1, <2>3 DEF size
    <3> QED BY <1>3, <1>4, <1>5, <2>1, <2>3, <3>1
  <2> QED BY <1>5, <2>2, <2>3
<1>16. TextsAreReceived'
  <2>1. reader' \in {"recv", "process", "done"}
    BY <1>1, <1>5
  <2>2. ReceiverTypeOK'
    BY <1>1, <1>14, <1>15, <2>1 DEF ReceiverInv, TextsAreReceived, ReceiverTypeOK
  <2>3. BufferHasRoom'
    BY <1>2, <1>15 DEF BufferHasRoom
  <2>4. ASSUME NEW k \in 1..past + 1 PROVE clipboards'[k] = texts[k]
    <3>1. k \in 1..past \/ k = past + 1
      BY <1>3
    <3> QED BY <1>14, <3>1 DEF ReceiverInv, TextsAreReceived, text
  <2>5. past + 1 <= Len(texts)
    BY <1>2, <1>3, <1>10
  <2> QED BY <1>1, <1>14, <2>2, <2>3, <2>4, <2>5 DEF TextsAreReceived
<1>17. TextInv'
  BY <1>1, <1>15 DEF ReceiverInv, TextInv
<1>18. RestInv'
  <2> DEFINE m == HeaderSize + n
             others == rest \o wire
             l == Len(Left)
  <2>1. m = 2 + n /\ m \in Nat /\ next = consumed + m /\ m <= l
    BY <1>3, <1>4 DEF HeaderSize
  <2>2. l \in Nat /\ Len(rest) = l - m /\ Len(rest) \in Nat /\ Len(wire) \in Nat
    BY <1>2, <1>3, <1>4, <1>6, <2>1
  <2>3. size - next = l - m
    BY <1>4, <2>1
  <2> HIDE DEF m, l
  <2>4. /\ others \in Seq(Nat) /\ Len(others) = Len(rest) + Len(wire)
        /\ \A i \in 1..Len(rest) : others[i] = rest[i]
        /\ \A i \in 1..Len(wire) : others[Len(rest) + i] = wire[i]
    <3>1. rest \in Seq(Nat) /\ wire \in Seq(Nat)
      BY <1>2, <1>6
    <3> QED BY <3>1, Joins
  <2> HIDE DEF others
  <2>5. Len(others) = Len(Rest) - m
    <3>1. Len(Rest) = l + Len(wire)
      BY <1>7 DEF l
    <3> QED BY <2>1, <2>2, <2>4, <3>1
  <2>6. ASSUME NEW i \in 1..Len(others) PROVE others[i] = Rest[m + i]
    <3>1. CASE i <= Len(rest)
      <4>1. i \in 1..Len(rest) /\ m + i \in 1..l /\ consumed + (m + i) = next + i
        BY <1>3, <2>1, <2>2, <3>1
      <4>2. Rest[m + i] = Left[m + i] /\ Left[m + i] = buf[consumed + (m + i)]
        BY <1>2, <1>7, <4>1 DEF l
      <4>3. rest[i] = buf[next + i]
        BY <1>6, <4>1
      <4> QED BY <2>4, <4>1, <4>2, <4>3
    <3>2. CASE i > Len(rest)
      <4>1. i - Len(rest) \in 1..Len(wire)
        BY <2>2, <2>4, <3>2
      <4>2. Len(rest) + (i - Len(rest)) = i /\ l + (i - Len(rest)) = m + i
        BY <2>1, <2>2
      <4>3. Rest[l + (i - Len(rest))] = wire[i - Len(rest)]
        BY <1>7, <4>1 DEF l
      <4>4. others[Len(rest) + (i - Len(rest))] = wire[i - Len(rest)]
        BY <2>4, <4>1
      <4> QED BY <4>2, <4>3, <4>4
    <3> QED BY <2>2, <3>1, <3>2
  <2>7. \E place : Framed(place, others, past + 1, texts)
    <3>1. Len(others) = Len(Rest) - (HeaderSize + Len(text))
      BY <1>11, <2>5 DEF m
    <3>2. \A i \in 1..Len(others) : others[i] = Rest[HeaderSize + Len(text) + i]
      BY <1>11, <2>6 DEF m
    <3> QED BY <1>10, <2>4, <3>1, <3>2
  <2> QED BY <1>1, <1>13, <1>14, <2>7 DEF RestInv, others
<1> QED BY <1>16, <1>17, <1>18 DEF ReceiverInv

\* What is left when it is no complete message is shorter than one: the buffer has room.
LEMMA Waited ==
  ASSUME ReceiverInv, Incomplete
  PROVE  ReceiverInv'
<1>1. /\ reader = "process" /\ ~Complete /\ ~Unknown /\ reader' = "recv"
      /\ buf' = Left /\ UNCHANGED <<wire, consumed, texts, clipboards>>
  BY DEF Incomplete, Shift, Left
<1>2. /\ Left \in Seq(Nat) /\ Len(Left) = Len(buf) - consumed /\ wire \in Seq(Nat)
      /\ Len(buf) \in 0..MaxSize /\ consumed \in 0..MaxSize /\ consumed < Len(buf)
      /\ MaxSize \in Nat /\ MaxSize >= 2 /\ HeaderSize = 2
      /\ texts \in Seq(Seq(Nat)) /\ Len(clipboards) \in 0..Len(texts)
  BY <1>1, ReceiverTypes
<1>3. Rest' = Rest /\ Rest = Left \o wire
  BY <1>1 DEF Rest
<1>4. Len(Left) < MaxSize
  <2> SUFFICES ASSUME Len(Left) >= 2 PROVE Len(Left) < MaxSize
    BY <1>2
  <2>1. Left[2] > Len(Left) - 2 /\ Left[2] \in Nat
    BY <1>1, <1>2 DEF Complete, Unknown
  <2>2. PICK start : Framed(start, Rest, Len(clipboards), texts)
    BY <1>1 DEF ReceiverInv, RestInv
  <2>3. Rest \in Seq(Nat) /\ Len(Rest) > 0 /\ Rest[2] = Left[2]
    BY <1>2, <1>3, Joins
  <2>4. /\ Len(clipboards) < Len(texts)
        /\ FrameAt(0, Rest, texts[Len(clipboards) + 1])
    BY <1>2, <2>2, <2>3, FirstFrame
  <2>5. Rest[0 + 2] = Len(texts[Len(clipboards) + 1])
    BY <2>4 DEF FrameAt
  <2>6. Len(texts[Len(clipboards) + 1]) <= MaxSize - HeaderSize
    <3>1. Len(clipboards) + 1 \in 1..Len(texts)
      BY <1>2, <2>4
    <3>2. \A k \in 1..Len(texts) : Len(texts[k]) <= MaxSize - HeaderSize
      BY DEF ReceiverInv, TextInv
    <3> QED BY <3>1, <3>2
  <2> DEFINE n == Left[2]
  <2>7. n \in Nat /\ n > Len(Left) - 2
    BY <2>1
  <2>8. n = Len(texts[Len(clipboards) + 1]) /\ HeaderSize = 2
    BY <1>2, <2>3, <2>5
  <2> HIDE DEF n
  <2>9. n <= MaxSize - 2
    BY <2>6, <2>8
  <2>10. Len(Left) \in Nat /\ MaxSize \in Nat
    BY <1>2
  <2> QED BY <2>7, <2>9, <2>10
<1>5. TextsAreReceived'
  BY <1>1, <1>2, <1>4
  DEF ReceiverInv, TextsAreReceived, ReceiverTypeOK, BufferHasRoom
<1>6. TextInv' /\ RestInv'
  BY <1>1, <1>3 DEF ReceiverInv, TextInv, RestInv
<1> QED BY <1>5, <1>6 DEF ReceiverInv

\* Every step of the device and of the receiver keeps the invariant.
LEMMA ReceiverSteps == ReceiverInv /\ [ReceiverNext]_receiving => ReceiverInv'
<1> SUFFICES ASSUME ReceiverInv, [ReceiverNext]_receiving PROVE ReceiverInv'
  OBVIOUS
<1>1. CASE RecvEnds \/ ProcessFails
  BY <1>1
  DEF RecvEnds, ProcessFails, ReceiverInv, TextsAreReceived, ReceiverTypeOK, BufferHasRoom,
      TextInv, RestInv
<1>2. CASE UNCHANGED receiving
  <2>1. UNCHANGED <<wire, buf, reader, consumed, texts, clipboards>> /\ Rest' = Rest
    BY <1>2 DEF receiving, Rest, Left
  <2> QED BY <2>1
          DEF ReceiverInv, TextsAreReceived, ReceiverTypeOK, BufferHasRoom, TextInv, RestInv
<1> QED BY <1>1, <1>2, SentMessage, Received, Processed, Waited
        DEF ReceiverNext, ReaderStep, ReaderEnded

\* The inductive invariant of the receiver holds, for a buffer of any size.
THEOREM ReceiverInvariance == ReceiverSpec => []ReceiverInv
BY ReceiverStarts, ReceiverSteps, PTL DEF ReceiverSpec

\* The texts are received in order and unchanged, however their bytes are cut and joined,
\* and the buffer is never full when bytes are received (receiver.c, run_receiver and
\* process_msgs; device_msg.c).
THEOREM ReceivedTexts == ReceiverSpec => []TextsAreReceived
<1>1. ReceiverInv => TextsAreReceived
  BY DEF ReceiverInv
<1> QED BY <1>1, ReceiverInvariance, PTL
===============================================================================
