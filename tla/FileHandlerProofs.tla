-------------------------- MODULE FileHandlerProofs --------------------------
(****************************************************************************)
(* Proofs about the file handler, for any capacity of its queue and any     *)
(* number of files: the process killed is its own, the files are freed once,*)
(* and it implements WorkQueue.                                             *)
(****************************************************************************)
EXTENDS FileHandler, QueueProofs

\* Where the threads may be together.
ThreadsInv ==
  /\ initialized <=> thread # "none"
  /\ ui = "request" => initialized /\ requested < MaxFiles
  /\ ui \in {"destroy", "destroyed"} => thread = "done"
  /\ thread \in {"check", "close"} <=> file # NoFile

\* A process is not reaped as long as the file handler knows it.
ProcessInv ==
  /\ current_process = NoFile <=> child = "reaped"
  /\ current_process # NoFile => current_process = file
  /\ thread = "close" => child \in {"exited", "reaped"}

\* The files are numbered: those that wait are in order, behind the one in hand.
OrderInv ==
  /\ Ordered(Queued, requested)
  /\ file # NoFile => file \in 1..requested /\ Behind(file, Queued)

\* A file refused was requested, and is neither queued nor in hand.
RefusedInv == refused \subseteq 1..requested /\ refused \cap InQueue = {} /\ file \notin refused

\* The files not yet freed are those queued, the one in hand and those refused.
OwnedInv ==
  /\ live = InQueue \cup (IF file = NoFile THEN {} ELSE {file}) \cup refused
  /\ ui = "destroyed" => live = refused

IInv == TypeOK /\ ThreadsInv /\ ProcessInv /\ OrderInv /\ RefusedInv /\ OwnedInv

-------------------------------------------------------------------------------
(* What the steps do to the queue. *)

\* The files that wait are a sequence, empty or full with the buffer.
LEMMA QueuedType ==
  ASSUME TypeOK
  PROVE  /\ Queued \in Seq(File \cup {NoFile})
         /\ InQueue = Elements(Queued)
         /\ Len(Queued) \in 0..Capacity
         /\ Queued = <<>> <=> cbuf_is_empty(queue)
         /\ Len(Queued) = Capacity <=> cbuf_is_full(queue)
<1>1. queue \in Cbuf(Capacity, File \cup {NoFile})
  BY DEF TypeOK
<1> QED BY <1>1, Contents, EmptyAndFull, FileHandlerAssumption DEF Queued, InQueue, Elements

\* A request adds its file behind the others, or is refused by a full queue.
LEMMA RequestEffect ==
  ASSUME TypeOK, ThreadsInv, Request
  PROVE  /\ requested' = requested + 1 /\ requested' \in File
         /\ queue' \in Cbuf(Capacity, File \cup {NoFile})
         /\ live' = live \cup {requested'}
         /\ \/ /\ Len(Queued) = Capacity /\ Queued' = Queued
               /\ refused' = refused \cup {requested'}
            \/ /\ Len(Queued) < Capacity /\ Queued' = Append(Queued, requested')
               /\ refused' = refused
<1>1. queue \in Cbuf(Capacity, File \cup {NoFile}) /\ requested \in Nat /\ requested < MaxFiles
  BY FileHandlerAssumption DEF TypeOK, ThreadsInv, Request
<1>2. requested' = requested + 1 /\ requested' \in File /\ live' = live \cup {requested'}
  BY <1>1, FileHandlerAssumption DEF Request, File
<1>3. CASE cbuf_is_full(queue)
  <2>1. queue' = queue /\ refused' = refused \cup {requested'}
    BY <1>3 DEF Request, RefuseFile
  <2> QED BY <1>1, <1>2, <1>3, <2>1, QueuedType DEF Queued
<1>4. CASE ~cbuf_is_full(queue)
  <2>1. queue' = cbuf_push(queue, requested') /\ refused' = refused
    BY <1>4 DEF Request
  <2>2. /\ cbuf_push(queue, requested') \in Cbuf(Capacity, File \cup {NoFile})
        /\ cbuf_contents(cbuf_push(queue, requested'))
             = Append(cbuf_contents(queue), requested')
    BY <1>1, <1>2, <1>4, PushAppends, FileHandlerAssumption
  <2>3. Len(Queued) < Capacity
    BY <1>4, QueuedType, FileHandlerAssumption
  <2> QED BY <1>2, <2>1, <2>2, <2>3 DEF Queued
<1> QED BY <1>3, <1>4

\* A take removes the first file.
LEMMA TakeEffect ==
  ASSUME TypeOK, Take
  PROVE  /\ queue' \in Cbuf(Capacity, File \cup {NoFile}) /\ file' \in File \cup {NoFile}
         /\ Queued = <<file'>> \o Queued'
         /\ Queued' \in Seq(File \cup {NoFile})
         /\ Queued # <<>> /\ file' = Head(Queued) /\ Queued' = Tail(Queued)
<1>1. queue \in Cbuf(Capacity, File \cup {NoFile}) /\ ~cbuf_is_empty(queue)
  BY DEF TypeOK, Take
<1>2. /\ queue' \in Cbuf(Capacity, File \cup {NoFile}) /\ file' \in File \cup {NoFile}
      /\ Queued = <<file'>> \o Queued'
  BY <1>1, TakeRemovesFirst, FileHandlerAssumption DEF Take, Queued
<1>3. Queued' \in Seq(File \cup {NoFile})
  BY <1>2, Contents, FileHandlerAssumption DEF Queued
<1>4. Queued # <<>> /\ file' = Head(Queued) /\ Queued' = Tail(Queued)
  <2> DEFINE q == Queued'
  <2>1. q \in Seq(File \cup {NoFile}) /\ Queued = <<file'>> \o q
    BY <1>2, <1>3
  <2> HIDE DEF q
  <2>2. <<file'>> \o q # <<>> /\ Head(<<file'>> \o q) = file' /\ Tail(<<file'>> \o q) = q
    BY <1>2, <2>1
  <2> QED BY <2>1, <2>2 DEF q
<1> QED BY <1>2, <1>3, <1>4

\* The destruction of the file handler empties the queue.
LEMMA DestroyEffect ==
  ASSUME TypeOK, Destroy
  PROVE  queue' \in Cbuf(Capacity, File \cup {NoFile}) /\ Queued' = <<>>
<1>1. queue \in Cbuf(Capacity, File \cup {NoFile}) /\ queue' = [queue EXCEPT !.tail = queue.head]
  BY DEF TypeOK, Destroy
<1>2. queue' \in Cbuf(Capacity, File \cup {NoFile}) /\ cbuf_is_empty(queue')
  BY <1>1 DEF Cbuf, cbuf_is_empty
<1> QED BY <1>2, EmptyAndFull, FileHandlerAssumption DEF Queued

\* The steps that change neither the queue nor the file in hand.
Elsewhere ==
  FirstRequest \/ Stop \/ Join \/ Wait \/ StopImmediately \/ CheckSuccess
    \/ SpuriousWakeup \/ ChildExits \/ Terminated \/ UNCHANGED vars

\* They leave the history of the files alone.
LEMMA ElsewhereEffect ==
  ASSUME Elsewhere
  PROVE  /\ Queued' = Queued /\ InQueue' = InQueue
         /\ UNCHANGED <<queue, file, requested, handled, refused, live>>
<1>1. UNCHANGED <<queue, file, requested, handled, refused, live>>
  BY DEF Elsewhere, FirstRequest, Stop, Join, Wait, StopImmediately, CheckSuccess,
         SpuriousWakeup, ChildExits, Terminated, vars
<1> QED BY <1>1 DEF Queued, InQueue

\* There are no other steps.
LEMMA Cases ==
  ASSUME [Next]_vars
  PROVE  Elsewhere \/ FirstRequestFails \/ Request \/ Destroy \/ Take \/ CloseProcess
BY DEF Elsewhere, Next, Ending, ThreadStep

-------------------------------------------------------------------------------
(* The invariant. *)

\* The file handler starts with an empty queue and nothing in hand.
LEMMA Initial == Init => IInv
<1> SUFFICES ASSUME Init PROVE IInv
  OBVIOUS
<1>1. queue \in Cbuf(Capacity, File \cup {NoFile}) /\ cbuf_is_empty(queue)
  BY FileHandlerAssumption DEF Init, cbuf_init, Cbuf, cbuf_is_empty
<1>2. Queued = <<>>
  BY <1>1, EmptyAndFull, FileHandlerAssumption DEF Queued
<1>3. TypeOK
  <2>1. <<>> \in Seq(File) /\ 0 \in 0..MaxFiles
    BY FileHandlerAssumption, EmptySeq
  <2> QED BY <1>1, <2>1 DEF Init, TypeOK
<1>4. Ordered(Queued, requested) /\ InQueue = {}
  BY <1>2 DEF Ordered, InQueue
<1> QED
  BY <1>3, <1>4 DEF Init, IInv, ThreadsInv, ProcessInv, OrderInv, RefusedInv, OwnedInv

\* Every step keeps the types.
LEMMA TypeNext == TypeOK /\ ThreadsInv /\ [Next]_vars => TypeOK'
<1> SUFFICES ASSUME TypeOK, ThreadsInv, [Next]_vars PROVE TypeOK'
  OBVIOUS
<1> USE DEF TypeOK
<1>1. CASE Elsewhere
  BY <1>1 DEF Elsewhere, FirstRequest, Stop, Signal, Join, Wait, StopImmediately,
       CheckSuccess, SpuriousWakeup, ChildExits, Terminated, vars
<1>2. CASE FirstRequestFails
  <2>1. requested' \in 0..MaxFiles /\ requested' \in File
    BY <1>2, FileHandlerAssumption DEF FirstRequestFails, File
  <2> QED BY <1>2, <2>1 DEF FirstRequestFails, RefuseFile
<1>3. CASE Request
  <2>1. /\ requested' \in File /\ queue' \in Cbuf(Capacity, File \cup {NoFile})
        /\ live' \subseteq File /\ refused' \subseteq File
    BY <1>3, RequestEffect
  <2> QED BY <1>3, <2>1 DEF Request, Signal, File
<1>4. CASE Destroy
  <2>1. queue' \in Cbuf(Capacity, File \cup {NoFile})
    BY <1>4, DestroyEffect
  <2> QED BY <1>4, <2>1 DEF Destroy
<1>5. CASE Take
  <2>1. queue' \in Cbuf(Capacity, File \cup {NoFile}) /\ file' \in File \cup {NoFile}
    BY <1>5, TakeEffect
  <2> QED BY <1>5, <2>1 DEF Take
<1>6. CASE CloseProcess
  <2>1. file \in File
    BY <1>6 DEF CloseProcess, ThreadsInv
  <2>2. handled' \in Seq(File)
    BY <1>6, <2>1, AppendProperties DEF CloseProcess
  <2> QED BY <1>6, <2>2 DEF CloseProcess
<1> QED BY <1>1, <1>2, <1>3, <1>4, <1>5, <1>6, Cases

\* What is taken is a file, the first of those that wait, and the others stay in
\* order behind it.
LEMMA TakeInHand ==
  ASSUME TypeOK, OrderInv, Take
  PROVE  /\ file' # NoFile /\ file' \in 1..requested
         /\ Behind(file', Queued') /\ Ordered(Queued', requested)
         /\ InQueue = {file'} \cup InQueue'
<1> DEFINE q == Queued'
           f == file'
           S == File \cup {NoFile}
<1>1. f \in S /\ q \in Seq(S) /\ Queued = <<f>> \o q /\ requested \in Nat
  BY TakeEffect DEF TypeOK
<1>2. Ordered(<<f>> \o q, requested)
  BY <1>1 DEF OrderInv
<1> HIDE DEF q, f, S
<1>3. /\ f \in 1..requested /\ Behind(f, q) /\ Ordered(q, requested)
      /\ Elements(<<f>> \o q) = {f} \cup Elements(q)
  BY <1>1, <1>2, FirstNumber
<1>4. f # NoFile
  BY <1>3, FileHandlerAssumption DEF TypeOK
<1>5. InQueue = {f} \cup InQueue'
  BY <1>1, <1>3 DEF InQueue, Elements, q
<1> QED BY <1>3, <1>4, <1>5 DEF q, f

\* Every step keeps where the threads may be together.
LEMMA ThreadsNext == IInv /\ [Next]_vars => ThreadsInv'
<1> SUFFICES ASSUME TypeOK, ThreadsInv, OrderInv, [Next]_vars PROVE ThreadsInv'
  BY DEF IInv
<1> USE DEF ThreadsInv
<1>1. CASE Elsewhere
  BY <1>1 DEF Elsewhere, FirstRequest, Stop, Signal, Join, Wait, StopImmediately,
       CheckSuccess, SpuriousWakeup, ChildExits, Terminated, vars
<1>2. CASE FirstRequestFails \/ Request
  BY <1>2 DEF FirstRequestFails, Request, Signal
<1>3. CASE Destroy
  BY <1>3 DEF Destroy
<1>4. CASE Take
  BY <1>4, TakeInHand DEF Take
<1>5. CASE CloseProcess
  BY <1>5 DEF CloseProcess
<1> QED BY <1>1, <1>2, <1>3, <1>4, <1>5, Cases

\* Every step keeps the process known until it is reaped.
LEMMA ProcessNext == IInv /\ [Next]_vars => ProcessInv'
<1> SUFFICES ASSUME TypeOK, ThreadsInv, ProcessInv, OrderInv, [Next]_vars PROVE ProcessInv'
  BY DEF IInv
<1> USE DEF ProcessInv
<1>1. CASE FirstRequest \/ FirstRequestFails \/ Request \/ Join \/ Destroy \/ SpuriousWakeup
             \/ Terminated \/ UNCHANGED vars
  BY <1>1 DEF FirstRequest, FirstRequestFails, Request, Signal, Join, Destroy,
       SpuriousWakeup, Terminated, vars
<1>2. CASE Stop
  BY <1>2 DEF Stop, Signal
<1>3. CASE Wait \/ StopImmediately
  BY <1>3 DEF Wait, StopImmediately, ThreadsInv
<1>4. CASE Take
  <2>1. current_process = NoFile /\ file' # NoFile
    BY <1>4, TakeInHand DEF Take, ThreadsInv
  <2> QED BY <1>4, <2>1 DEF Take
<1>5. CASE ChildExits
  BY <1>5 DEF ChildExits
<1>6. CASE CheckSuccess
  BY <1>6 DEF CheckSuccess
<1>7. CASE CloseProcess
  BY <1>7 DEF CloseProcess
<1> QED BY <1>1, <1>2, <1>3, <1>4, <1>5, <1>6, <1>7 DEF Next, Ending, ThreadStep

\* A file requested now is neither queued nor in hand nor refused.
LEMMA NewFile ==
  ASSUME TypeOK, OrderInv, RefusedInv
  PROVE  /\ requested \in Nat /\ requested + 1 \notin InQueue
         /\ file # requested + 1 \/ file = NoFile
         /\ requested + 1 \notin refused
<1>1. requested \in Nat
  BY DEF TypeOK
<1>2. InQueue \subseteq 1..requested /\ (file # NoFile => file \in 1..requested)
        /\ refused \subseteq 1..requested
  BY DEF InQueue, OrderInv, Ordered, RefusedInv
<1>3. requested + 1 \notin 1..requested
  BY <1>1
<1> QED BY <1>1, <1>2, <1>3

\* Every step keeps the files in order, and apart from those refused.
LEMMA OrderNext == IInv /\ [Next]_vars => OrderInv' /\ RefusedInv'
<1> SUFFICES ASSUME TypeOK, ThreadsInv, OrderInv, RefusedInv, [Next]_vars
             PROVE  OrderInv' /\ RefusedInv'
  BY DEF IInv
<1>t. requested \in Nat /\ Queued \in Seq(File \cup {NoFile}) /\ NoFile \notin File
        /\ InQueue \subseteq 1..requested
  BY FileHandlerAssumption, QueuedType DEF TypeOK, File, OrderInv, Ordered, InQueue
<1>1. CASE Elsewhere
  <2>1. Queued' = Queued /\ InQueue' = InQueue /\ UNCHANGED <<file, requested, refused>>
    BY <1>1, ElsewhereEffect
  <2> QED BY <2>1 DEF OrderInv, RefusedInv
<1>2. CASE FirstRequestFails \/ (Request /\ Queued' = Queued /\ refused' = refused \cup {requested'})
  <2>1. /\ Queued' = Queued /\ file' = file /\ refused' = refused \cup {requested'}
        /\ requested' = requested + 1 /\ requested' \in File
    <3>1. CASE FirstRequestFails
      BY <1>t, <3>1, FileHandlerAssumption DEF FirstRequestFails, RefuseFile, Queued, File
    <3>2. CASE Request /\ Queued' = Queued /\ refused' = refused \cup {requested'}
      BY <3>2, RequestEffect DEF Request
    <3> QED BY <1>2, <3>1, <3>2
  <2>2. InQueue' = InQueue
    BY <2>1 DEF InQueue
  <2>3. Ordered(Queued, requested + 1)
    BY <1>t DEF OrderInv, Ordered
  <2>4. OrderInv'
    BY <1>t, <2>1, <2>3 DEF OrderInv
  <2>5. RefusedInv'
    BY <1>t, <2>1, <2>2, NewFile DEF RefusedInv
  <2> QED BY <2>4, <2>5
<1>3. CASE Request /\ Queued' = Append(Queued, requested') /\ refused' = refused
  <2> DEFINE q == Queued
             S == File \cup {NoFile}
  <2>1. file' = file /\ requested' = requested + 1 /\ requested + 1 \in S
    BY <1>3, RequestEffect DEF Request
  <2>2. q \in Seq(S) /\ Ordered(q, requested) /\ Queued' = Append(q, requested + 1)
    BY <1>t, <1>3, <2>1 DEF OrderInv
  <2> HIDE DEF q, S
  <2>3. /\ Elements(Append(q, requested + 1)) = Elements(q) \cup {requested + 1}
        /\ Ordered(Append(q, requested + 1), requested + 1)
        /\ \A e \in 1..requested : Behind(e, q) => Behind(e, Append(q, requested + 1))
    BY <1>t, <2>1, <2>2, AppendNumber
  <2>4. OrderInv'
    BY <1>t, <2>1, <2>2, <2>3 DEF OrderInv, q
  <2>5. InQueue' = InQueue \cup {requested + 1}
    BY <2>2, <2>3 DEF InQueue, Elements, q
  <2>6. RefusedInv'
    BY <1>t, <1>3, <2>1, <2>5, NewFile DEF RefusedInv
  <2> QED BY <2>4, <2>6
<1>4. CASE Destroy
  <2>1. Queued' = <<>> /\ UNCHANGED <<file, requested, refused>>
    BY <1>4, DestroyEffect DEF Destroy
  <2> QED BY <2>1 DEF OrderInv, Ordered, Behind, RefusedInv, InQueue
<1>5. CASE Take
  <2>1. UNCHANGED <<requested, refused>>
    BY <1>5 DEF Take
  <2> QED BY <1>5, <2>1, TakeInHand DEF OrderInv, RefusedInv
<1>6. CASE CloseProcess
  <2>1. Queued' = Queued /\ InQueue' = InQueue /\ file' = NoFile
          /\ UNCHANGED <<requested, refused>>
    BY <1>6 DEF CloseProcess, Queued, InQueue
  <2>2. NoFile \notin refused
    BY FileHandlerAssumption DEF TypeOK, File
  <2> QED BY <2>1, <2>2 DEF OrderInv, RefusedInv
<1> QED BY <1>1, <1>2, <1>3, <1>4, <1>5, <1>6, Cases, RequestEffect

\* The file in hand is not queued.
LEMMA InHandNotQueued ==
  ASSUME TypeOK, OrderInv
  PROVE  file \notin InQueue
<1> SUFFICES ASSUME NEW i \in DOMAIN Queued PROVE Queued[i] # file
  BY DEF InQueue
<1>1. Queued[i] \in 1..requested /\ requested \in 0..MaxFiles
  BY DEF OrderInv, Ordered, TypeOK
<1>2. CASE file = NoFile
  BY <1>1, <1>2, FileHandlerAssumption
<1>3. CASE file # NoFile
  <2>1. file \in 1..requested /\ file < Queued[i]
    BY <1>3 DEF OrderInv, Behind
  <2> QED BY <1>1, <2>1
<1> QED BY <1>2, <1>3

\* Every step that drops a file frees it, unless it was refused.
LEMMA OwnedNext == IInv /\ [Next]_vars => OwnedInv'
<1> SUFFICES ASSUME TypeOK, ThreadsInv, OrderInv, RefusedInv, OwnedInv, [Next]_vars
             PROVE  OwnedInv'
  BY DEF IInv
<1>t. requested \in Nat /\ Queued \in Seq(File \cup {NoFile})
  BY QueuedType DEF TypeOK
<1>1. CASE Elsewhere
  <2>1. InQueue' = InQueue /\ UNCHANGED <<file, live, refused>>
    BY <1>1, ElsewhereEffect
  <2>2. ui' # "destroyed" \/ ui = "destroyed"
    BY <1>1 DEF Elsewhere, FirstRequest, Stop, Join, Wait, StopImmediately, CheckSuccess,
         SpuriousWakeup, ChildExits, Terminated, vars
  <2> QED BY <2>1, <2>2 DEF OwnedInv
<1>2. CASE FirstRequestFails
  <2>1. /\ InQueue' = InQueue /\ file' = file /\ refused' = refused \cup {requested'}
        /\ live' = live \cup {requested'} /\ ui' = "run"
    BY <1>2 DEF FirstRequestFails, RefuseFile, InQueue, Queued
  <2> QED BY <2>1 DEF OwnedInv
<1>3. CASE Request
  <2>1. file' = file /\ ui' = "run" /\ live' = live \cup {requested'}
    BY <1>3, RequestEffect DEF Request
  <2>2. CASE Queued' = Queued /\ refused' = refused \cup {requested'}
    BY <2>1, <2>2 DEF OwnedInv, InQueue
  <2>3. CASE Queued' = Append(Queued, requested') /\ refused' = refused
    <3> DEFINE q == Queued
               S == File \cup {NoFile}
    <3>1. q \in Seq(S) /\ requested' = requested + 1 /\ requested + 1 \in S
            /\ Queued' = Append(q, requested + 1)
      BY <1>3, <1>t, <2>3, RequestEffect
    <3> HIDE DEF q, S
    <3>2. Elements(Append(q, requested + 1)) = Elements(q) \cup {requested + 1}
      BY <1>t, <3>1, AppendNumber
    <3>3. InQueue' = InQueue \cup {requested'}
      BY <3>1, <3>2 DEF InQueue, Elements, q
    <3> QED BY <2>1, <2>3, <3>3 DEF OwnedInv
  <2> QED BY <1>3, <2>2, <2>3, RequestEffect
<1>4. CASE Destroy
  <2>1. Queued' = <<>> /\ live' = live \ InQueue /\ UNCHANGED <<file, refused>>
    BY <1>4, DestroyEffect DEF Destroy
  <2>2. file = NoFile
    BY <1>4 DEF Destroy, ThreadsInv
  <2>3. InQueue' = {}
    BY <2>1 DEF InQueue
  <2> QED BY <2>1, <2>2, <2>3 DEF OwnedInv, RefusedInv
<1>5. CASE Take
  <2>1. thread = "lock" /\ UNCHANGED <<ui, live, refused>>
    BY <1>5 DEF Take
  <2>2. file = NoFile /\ ui # "destroyed"
    BY <2>1 DEF ThreadsInv
  <2>3. file' # NoFile /\ InQueue = {file'} \cup InQueue'
    BY <1>5, TakeInHand
  <2> QED BY <2>1, <2>2, <2>3 DEF OwnedInv
<1>6. CASE CloseProcess
  <2>1. /\ InQueue' = InQueue /\ file' = NoFile /\ live' = live \ {file}
        /\ thread = "close" /\ UNCHANGED <<ui, refused>>
    BY <1>6 DEF CloseProcess, InQueue, Queued
  <2>2. file # NoFile /\ ui # "destroyed"
    BY <2>1 DEF ThreadsInv
  <2> QED BY <2>1, <2>2, InHandNotQueued DEF OwnedInv, RefusedInv
<1> QED BY <1>1, <1>2, <1>3, <1>4, <1>5, <1>6, Cases

\* The inductive invariant holds, for any capacity and any number of files.
THEOREM Invariance == Spec => []IInv
<1>1. IInv /\ [Next]_vars => IInv'
  BY TypeNext, ThreadsNext, ProcessNext, OrderNext, OwnedNext DEF IInv
<1> QED BY <1>1, Initial, PTL DEF Spec

\* file_handler_stop kills no process but the one that installs the current file, and
\* run_file_handler never keeps the mutex while adb runs.
THEOREM OwnProcess == Spec => []KillsItsOwnProcess
<1>1. IInv => KillsItsOwnProcess
  BY DEF IInv, ProcessInv, KillsItsOwnProcess
<1> QED BY <1>1, Invariance, PTL

\* No file is freed twice, and none is leaked but those of the requests refused.
THEOREM OwnedFiles == Spec => []FilesAreOwned
<1>1. IInv => FilesAreOwned
  BY InHandNotQueued DEF IInv, OwnedInv, RefusedInv, FilesAreOwned
<1> QED BY <1>1, Invariance, PTL

-------------------------------------------------------------------------------
(* The refinement. *)

\* The file handler implements a thread fed through a bounded queue: every step of it
\* is one of WorkQueue or changes nothing there.
THEOREM Implementation == Spec => ImplementsWorkQueue
<1>1. Init => Promise!Init
  <2> SUFFICES ASSUME Init PROVE Promise!Init
    OBVIOUS
  <2>1. queue \in Cbuf(Capacity, File \cup {NoFile}) /\ cbuf_is_empty(queue)
    BY FileHandlerAssumption DEF Init, cbuf_init, Cbuf, cbuf_is_empty
  <2>2. Queued = <<>>
    BY <2>1, EmptyAndFull, FileHandlerAssumption DEF Queued
  <2> QED BY <2>2 DEF Init, Promise!Init
<1>2. IInv /\ [Next]_vars => [Promise!Next]_Promise!vars
  <2> SUFFICES ASSUME TypeOK, ThreadsInv, [Next]_vars
               PROVE  [Promise!Next]_Promise!vars
    BY DEF IInv
  <2>1. CASE Elsewhere
    <3>1. Queued' = Queued /\ UNCHANGED <<file, requested, handled>>
      BY <2>1, ElsewhereEffect
    <3>2. CASE FirstRequest
      <4>1. initialized' = TRUE /\ thread = "none" /\ thread' = "lock" /\ stopped' = stopped
        BY <3>2 DEF FirstRequest, ThreadsInv
      <4> QED BY <3>1, <4>1 DEF Promise!Next, Promise!Start
    <3>3. CASE Stop
      <4>1. stopped' = TRUE /\ initialized' = initialized /\ (thread' = "done" <=> thread = "done")
        BY <3>3 DEF Stop, Signal
      <4> QED BY <3>1, <4>1 DEF Promise!Next, Promise!Stop
    <3>4. CASE StopImmediately
      <4>1. thread' = "done" /\ UNCHANGED <<stopped, initialized>> /\ stopped /\ file = NoFile
        BY <3>4 DEF StopImmediately, ThreadsInv
      <4> QED BY <3>1, <4>1 DEF Promise!Next, Promise!End
    <3>5. CASE Join \/ Wait \/ CheckSuccess \/ SpuriousWakeup \/ ChildExits \/ Terminated
                 \/ UNCHANGED vars
      <4>1. UNCHANGED <<stopped, initialized>> /\ (thread' = "done" <=> thread = "done")
        BY <3>5 DEF Join, Wait, CheckSuccess, SpuriousWakeup, ChildExits, Terminated, vars
      <4> QED BY <3>1, <4>1 DEF Promise!vars
    <3> QED BY <2>1, <3>2, <3>3, <3>4, <3>5 DEF Elsewhere
  <2>2. CASE FirstRequestFails
    <3>1. /\ ~initialized /\ requested' = requested + 1 /\ Queued' = Queued
          /\ UNCHANGED <<initialized, thread, stopped, file, handled>>
      BY <2>2 DEF FirstRequestFails, RefuseFile, Queued
    <3> QED BY <3>1 DEF Promise!Next, Promise!Refuse
  <2>3. CASE Request
    <3>1. /\ UNCHANGED <<initialized, stopped, file, handled>> /\ initialized
          /\ (thread' = "done" <=> thread = "done")
      BY <2>3 DEF Request, Signal, ThreadsInv
    <3>2. requested' = requested + 1
      BY <2>3, RequestEffect
    <3>3. CASE Len(Queued) = Capacity /\ Queued' = Queued
      BY <3>1, <3>2, <3>3 DEF Promise!Next, Promise!Refuse
    <3>4. CASE Len(Queued) < Capacity /\ Queued' = Append(Queued, requested')
      BY <3>1, <3>2, <3>4 DEF Promise!Next, Promise!Submit
    <3> QED BY <2>3, <3>3, <3>4, RequestEffect
  <2>4. CASE Destroy
    <3>1. Queued' = <<>> /\ thread = "done"
            /\ UNCHANGED <<initialized, thread, stopped, file, requested, handled>>
      BY <2>4, DestroyEffect DEF Destroy, ThreadsInv
    <3> QED BY <3>1 DEF Promise!Next, Promise!Discard
  <2>5. CASE Take
    <3>1. Queued # <<>> /\ file' = Head(Queued) /\ Queued' = Tail(Queued)
      BY <2>5, TakeEffect
    <3>2. /\ thread = "lock" /\ thread' = "check" /\ ~stopped /\ file = NoFile
          /\ UNCHANGED <<initialized, stopped, requested, handled>>
      BY <2>5 DEF Take, ThreadsInv
    <3> QED BY <3>1, <3>2 DEF Promise!Next, Promise!Begin
  <2>6. CASE CloseProcess
    <3>1. /\ Queued' = Queued /\ thread = "close" /\ thread' = "lock" /\ file # NoFile
          /\ file' = NoFile /\ handled' = Append(handled, file)
          /\ UNCHANGED <<initialized, stopped, requested>>
      BY <2>6 DEF CloseProcess, Queued, ThreadsInv
    <3> QED BY <3>1 DEF Promise!Next, Promise!Finish
  <2> QED BY <2>1, <2>2, <2>3, <2>4, <2>5, <2>6, Cases
<1> QED BY <1>1, <1>2, Invariance, PTL DEF Spec, ImplementsWorkQueue, Promise!Spec
===============================================================================
