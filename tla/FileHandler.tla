------------------------------ MODULE FileHandler ------------------------------
(****************************************************************************)
(* The file handler (file_handler.c): the UI thread requests that files be  *)
(* installed or pushed to the device, and a thread, started by the first    *)
(* request, runs one adb process for each.  The UI thread kills the process *)
(* that runs when it stops the file handler (process.c, sys/unix).          *)
(*                                                                          *)
(* A critical section is one step, the start of adb included: none waits    *)
(* for anything, except that process_close would if the process still ran.  *)
(****************************************************************************)
EXTENDS Cbuf

CONSTANTS Capacity,  \* of the circular buffer: 16
          NoFile,    \* no file, and PROCESS_NONE: a process is named for its file
          MaxFiles   \* bound: how many files are requested

ASSUME FileHandlerAssumption ==
  Capacity \in Nat \ {0} /\ MaxFiles \in Nat /\ NoFile \notin 1..MaxFiles

VARIABLES
  ui,               \* where the UI thread is
  initialized,      \* the thread was started
  thread,           \* where the thread is
  queue,            \* the circular buffer
  stopped,
  file,             \* the file of the request being processed
  current_process,
  child,            \* the state of the last process started: once reaped, its
                    \* identifier may be the one of another process
  requested,        \* history: how many files were requested; they are numbered
  handled,          \* history: the files processed, in order
  refused,          \* history: the files of the requests refused
  live              \* history: the files requested and not freed

vars == <<ui, initialized, thread, queue, stopped, file, current_process, child,
          requested, handled, refused, live>>

File == 1..MaxFiles

\* file_handler_init succeeded, and the event loop runs.
Init ==
  /\ ui = "run" /\ initialized = FALSE /\ thread = "none"
  /\ queue = cbuf_init(Capacity, NoFile) /\ stopped = FALSE
  /\ file = NoFile /\ current_process = NoFile /\ child = "reaped"
  /\ requested = 0 /\ handled = <<>> /\ refused = {} /\ live = {}

Queued == cbuf_contents(queue)
InQueue == {Queued[i] : i \in DOMAIN Queued}

-------------------------------------------------------------------------------
(* file_handler_request, called when a file is dropped on the window *)

\* The first request starts the thread.
FirstRequest ==
  /\ ui = "run" /\ ~initialized /\ requested < MaxFiles
  /\ initialized' = TRUE
  /\ thread' = "lock"
  /\ ui' = "request"
  /\ UNCHANGED <<queue, stopped, file, current_process, child, requested, handled,
                 refused, live>>

\* A request that is refused keeps its file: nobody frees it.
RefuseFile ==
  /\ refused' = refused \cup {requested'}
  /\ UNCHANGED queue

\* The thread cannot be created.
FirstRequestFails ==
  /\ ui = "run" /\ ~initialized /\ requested < MaxFiles
  /\ requested' = requested + 1
  /\ live' = live \cup {requested'}
  /\ RefuseFile
  /\ UNCHANGED <<ui, initialized, thread, stopped, file, current_process, child, handled>>

\* sc_cond_signal: the only thread that may wait is the one of the file handler.
Signal == thread' = IF thread = "wait" THEN "lock" ELSE thread

\* The file is queued, unless the queue is full.
Request ==
  /\ \/ ui = "request"
     \/ ui = "run" /\ initialized /\ requested < MaxFiles
  /\ requested' = requested + 1
  /\ live' = live \cup {requested'}
  /\ IF cbuf_is_full(queue) THEN RefuseFile
     ELSE queue' = cbuf_push(queue, requested') /\ UNCHANGED refused
  /\ IF cbuf_is_empty(queue) THEN Signal ELSE UNCHANGED thread
  /\ ui' = "run"
  /\ UNCHANGED <<initialized, stopped, file, current_process, child, handled>>

-------------------------------------------------------------------------------
(* scrcpy_stop *)

\* Faulty: the process is not killed.
StopWithoutKilling ==
  /\ ui = "run"
  /\ stopped' = TRUE
  /\ Signal
  /\ ui' = "join"
  /\ UNCHANGED <<initialized, queue, file, current_process, child, requested, handled,
                 refused, live>>

\* file_handler_stop: the process that runs is killed.
Stop ==
  /\ ui = "run"
  /\ stopped' = TRUE
  /\ child' = (IF current_process # NoFile /\ child = "running" THEN "killed" ELSE child)
  /\ Signal
  /\ ui' = "join"
  /\ UNCHANGED <<initialized, queue, file, current_process, requested, handled,
                 refused, live>>

\* file_handler_join, whether the thread was started or not: if it was not, an
\* uninitialized thread is joined and anything may happen.
Join ==
  /\ ui = "join"
  /\ IF initialized THEN thread = "done" /\ ui' = "destroy" ELSE ui' = "undefined"
  /\ UNCHANGED <<initialized, thread, queue, stopped, file, current_process, child,
                 requested, handled, refused, live>>

\* Faulty: the requests still queued are forgotten.
DestroyLeaking ==
  /\ ui = "destroy"
  /\ queue' = [queue EXCEPT !.tail = queue.head]
  /\ ui' = "destroyed"
  /\ UNCHANGED <<initialized, thread, stopped, file, current_process, child, requested,
                 handled, refused, live>>

\* file_handler_destroy frees the files still queued.
Destroy ==
  /\ ui = "destroy"
  /\ queue' = [queue EXCEPT !.tail = queue.head]
  /\ live' = live \ InQueue
  /\ ui' = "destroyed"
  /\ UNCHANGED <<initialized, thread, stopped, file, current_process, child, requested,
                 handled, refused>>

-------------------------------------------------------------------------------
(* run_file_handler *)

Wait ==
  /\ thread = "lock" /\ ~stopped /\ cbuf_is_empty(queue)
  /\ current_process' = NoFile
  /\ thread' = "wait"
  /\ UNCHANGED <<ui, initialized, queue, stopped, file, child, requested, handled,
                 refused, live>>

SpuriousWakeup ==
  /\ thread = "wait"
  /\ thread' = "lock"
  /\ UNCHANGED <<ui, initialized, queue, stopped, file, current_process, child,
                 requested, handled, refused, live>>

\* Stop immediately, do not process further events.
StopImmediately ==
  /\ thread = "lock" /\ stopped
  /\ current_process' = NoFile
  /\ thread' = "done"
  /\ UNCHANGED <<ui, initialized, queue, stopped, file, child, requested, handled,
                 refused, live>>

\* Faulty: `stopped' is not tested before a request is taken.
TakeThoughStopped ==
  /\ thread = "lock" /\ ~cbuf_is_empty(queue)
  /\ file' = cbuf_item(queue) /\ queue' = cbuf_take(queue)
  /\ \/ current_process' = file' /\ child' = "running"
     \/ current_process' = NoFile /\ UNCHANGED child
  /\ thread' = "check"
  /\ UNCHANGED <<ui, initialized, stopped, requested, handled, refused, live>>

\* A request is taken and adb is started, which may fail.
Take ==
  /\ thread = "lock" /\ ~stopped /\ ~cbuf_is_empty(queue)
  /\ file' = cbuf_item(queue) /\ queue' = cbuf_take(queue)
  /\ \/ current_process' = file' /\ child' = "running"
     \/ current_process' = NoFile /\ UNCHANGED child
  /\ thread' = "check"
  /\ UNCHANGED <<ui, initialized, stopped, requested, handled, refused, live>>

\* adb ends by itself, or because it was killed.
ChildExits ==
  /\ child \in {"running", "killed"}
  /\ child' = "exited"
  /\ UNCHANGED <<ui, initialized, thread, queue, stopped, file, current_process,
                 requested, handled, refused, live>>

\* Faulty: process_check_success is told to close the process.
CheckSuccessClosing ==
  /\ thread = "check"
  /\ current_process # NoFile => child = "exited"
  /\ child' = "reaped"
  /\ thread' = "close"
  /\ UNCHANGED <<ui, initialized, queue, stopped, file, current_process,
                 requested, handled, refused, live>>

\* process_check_success waits for the process, but does not reap it.
CheckSuccess ==
  /\ thread = "check"
  /\ current_process # NoFile => child = "exited"
  /\ thread' = "close"
  /\ UNCHANGED <<ui, initialized, queue, stopped, file, current_process, child,
                 requested, handled, refused, live>>

\* process_close reaps it, with the mutex locked; the request is destroyed.
CloseProcess ==
  /\ thread = "close"
  /\ current_process # NoFile => child = "exited"
  /\ child' = "reaped" /\ current_process' = NoFile
  /\ handled' = Append(handled, file)
  /\ file' = NoFile /\ live' = live \ {file}
  /\ thread' = "lock"
  /\ UNCHANGED <<ui, initialized, queue, stopped, requested, refused>>

-------------------------------------------------------------------------------
ThreadStep == Wait \/ StopImmediately \/ Take \/ CheckSuccess \/ CloseProcess

Ending == Join \/ Destroy

Terminated == ui \in {"destroyed", "undefined"} /\ UNCHANGED vars

Next ==
  \/ FirstRequest \/ FirstRequestFails \/ Request \/ Stop \/ Ending
  \/ ThreadStep \/ SpuriousWakeup \/ ChildExits
  \/ Terminated

\* Both threads run, and a process that is killed ends; adb may run for ever.
Fairness ==
  /\ WF_vars(ThreadStep) /\ WF_vars(Ending)
  /\ WF_vars(ChildExits /\ child = "killed")

Spec == Init /\ [][Next]_vars /\ Fairness

-------------------------------------------------------------------------------
(* Properties. *)

TypeOK ==
  /\ ui \in {"run", "request", "join", "destroy", "destroyed", "undefined"}
  /\ initialized \in BOOLEAN
  /\ thread \in {"none", "lock", "wait", "check", "close", "done"}
  /\ queue \in Cbuf(Capacity, File \cup {NoFile})
  /\ stopped \in BOOLEAN
  /\ file \in File \cup {NoFile} /\ current_process \in File \cup {NoFile}
  /\ child \in {"running", "killed", "exited", "reaped"}
  /\ requested \in 0..MaxFiles /\ handled \in Seq(File)
  /\ refused \subseteq File /\ live \subseteq File

\* The process file_handler_stop would kill is the one of the file being processed
\* and was not reaped: no other process that got its identifier is killed.  When
\* the thread closes it, it has exited: the mutex is not kept while adb runs.
KillsItsOwnProcess ==
  /\ current_process # NoFile => current_process = file /\ child # "reaped"
  /\ thread = "close" => child \in {"exited", "reaped"}

\* A file is freed once: those that are not freed are queued, being processed or
\* were refused, and the file handler leaves none but the latter.
FilesAreOwned ==
  /\ TypeOK
  /\ live = InQueue \cup (IF file = NoFile THEN {} ELSE {file}) \cup refused
  /\ file \notin InQueue /\ refused \cap InQueue = {}
  /\ ui = "destroyed" => live = refused

\* scrcpy_stop joins the thread, even if adb would have run for ever.
TeardownEnds == ui = "join" ~> ui \in {"destroyed", "undefined"}

\* The file handler implements a thread fed through a bounded queue.
Promise == INSTANCE WorkQueue WITH
  NoJob <- NoFile, started <- initialized, submitted <- requested,
  waiting <- Queued, current <- file, over <- thread = "done"
ImplementsWorkQueue == Promise!Spec

\* file_handler_request takes ownership of the file and will free it.
FilesAreFreed == ui = "destroyed" => live = {}
===============================================================================
