-------------------------------- MODULE Server --------------------------------
(****************************************************************************)
(* The client's side of the server (server.c): the main thread opens an adb *)
(* tunnel, starts the server on the device, connects to it and, at the end, *)
(* disconnects and kills the process.  The wait-server thread waits for the *)
(* process, and closes the socket on which the main thread may accept.      *)
(*                                                                          *)
(* A `process' is the one of adb, through which the server runs.  What      *)
(* scrcpy_stop does after a failed server_start is not in this module.      *)
(****************************************************************************)
EXTENDS Integers

CONSTANTS FirstPort, LastPort   \* the port range

ASSUME ServerAssumption ==
  /\ FirstPort \in Nat /\ LastPort \in Nat /\ FirstPort <= LastPort

VARIABLES
  ui,                   \* where the main thread is
  waiter,               \* where the wait-server thread is
  port,                 \* the port being tried: local_port at the end
  tunnel_forward,
  tunnel_enabled,
  tunnels,              \* the tunnels that adb keeps
  unremoved,            \* history: those of them adb failed to remove
  sockets,
  server_socket_closed, \* the atomic flag
  process,
  process_terminated

tunnel == <<port, tunnel_forward, tunnel_enabled, tunnels, unremoved>>
net == <<sockets, server_socket_closed>>
server == <<ui, waiter, tunnel, net, process, process_terminated>>

Ports == FirstPort..LastPort
ReverseTunnel == <<"reverse", 0>>     \* adb knows it by the name of the socket
ForwardTunnel(p) == <<"forward", p>>
Tunnel == {ReverseTunnel} \cup {ForwardTunnel(p) : p \in Ports}

ServerInitial ==
  /\ ui = "start" /\ waiter = "none"
  /\ port = FirstPort /\ tunnel_forward = FALSE /\ tunnel_enabled = FALSE
  /\ tunnels = {} /\ unremoved = {}
  /\ sockets = [server |-> "invalid", video |-> "invalid", control |-> "invalid"]
  /\ server_socket_closed = FALSE
  /\ process = "none" /\ process_terminated = FALSE

-------------------------------------------------------------------------------
(* The tunnel: enable_tunnel_any_port and disable_tunnel *)

\* adb creates a tunnel: any error in removing an older one is forgotten.
TunnelAdded(t) == tunnels' = tunnels \cup {t} /\ unremoved' = unremoved \ {t}

\* adb removes a tunnel, or fails to.
TunnelRemoved(t) ==
  \/ tunnels' = tunnels \ {t} /\ unremoved' = unremoved \ {t}
  \/ unremoved' = unremoved \cup {t} /\ UNCHANGED tunnels

TryForward == ui' = "forward" /\ tunnel_forward' = TRUE /\ port' = FirstPort

\* push_server may fail; the user may have forced adb forward.
Push ==
  /\ ui = "start"
  /\ \/ ui' \in {"failed", "reverse"} /\ UNCHANGED <<port, tunnel_forward>>
     \/ TryForward
  /\ UNCHANGED <<waiter, tunnel_enabled, tunnels, unremoved, net, process,
                 process_terminated>>

EnableReverse ==
  /\ ui = "reverse"
  /\ \/ TunnelAdded(ReverseTunnel) /\ ui' = "listen" /\ UNCHANGED <<port, tunnel_forward>>
     \/ TryForward /\ UNCHANGED <<tunnels, unremoved>>
  /\ UNCHANGED <<waiter, tunnel_enabled, net, process, process_terminated>>

\* Faulty: the tunnel is not removed before another port is tried.
ListenNextPort ==
  /\ ui = "listen"
  /\ \/ sockets' = [sockets EXCEPT !.server = "open"] /\ ui' = "execute"
        /\ UNCHANGED <<port, tunnel_forward>>
     \/ TryForward /\ UNCHANGED sockets
  /\ UNCHANGED <<waiter, tunnel_enabled, tunnels, unremoved, server_socket_closed,
                 process, process_terminated>>

Listen ==
  /\ ui = "listen"
  /\ \/ sockets' = [sockets EXCEPT !.server = "open"] /\ ui' = "execute"
     \/ ui' = "unreverse" /\ UNCHANGED sockets
  /\ UNCHANGED <<waiter, tunnel, server_socket_closed, process, process_terminated>>

\* Faulty: the last port is not the last one tried.
HasNextPortLate == port <= LastPort

HasNextPort == port < LastPort

\* The port cannot be listened on: another one is tried, or adb forward.
DisableReverse ==
  /\ ui = "unreverse"
  /\ TunnelRemoved(ReverseTunnel)
  /\ IF HasNextPort
     THEN ui' = "reverse" /\ port' = port + 1 /\ UNCHANGED tunnel_forward
     ELSE TryForward
  /\ UNCHANGED <<waiter, tunnel_enabled, net, process, process_terminated>>

EnableForward ==
  /\ ui = "forward"
  /\ \/ TunnelAdded(ForwardTunnel(port)) /\ ui' = "execute" /\ UNCHANGED port
     \/ /\ IF HasNextPort THEN port' = port + 1 /\ UNCHANGED ui
                          ELSE ui' = "failed" /\ UNCHANGED port
        /\ UNCHANGED <<tunnels, unremoved>>
  /\ UNCHANGED <<waiter, tunnel_forward, tunnel_enabled, net, process,
                 process_terminated>>

DisableTunnel ==
  /\ TunnelRemoved(IF tunnel_forward THEN ForwardTunnel(port) ELSE ReverseTunnel)
  /\ UNCHANGED <<port, tunnel_forward>>

-------------------------------------------------------------------------------
(* server_start, once the tunnel is enabled *)

Execute ==
  /\ ui = "execute"
  /\ \/ process' = "running" /\ ui' = "createThread"
     \/ ui' = "error" /\ UNCHANGED process
  /\ UNCHANGED <<waiter, tunnel, net, process_terminated>>

\* If the thread cannot be created, the process is killed and reaped.
CreateThread ==
  /\ ui = "createThread"
  /\ \/ waiter' = "wait" /\ tunnel_enabled' = TRUE /\ ui' = "connect"
        /\ UNCHANGED process
     \/ process' = "reaped" /\ ui' = "error" /\ UNCHANGED <<waiter, tunnel_enabled>>
  /\ UNCHANGED <<port, tunnel_forward, tunnels, unremoved, net, process_terminated>>

\* close_socket, on a set of sockets: closing one that is not open is an error.
Closed(names) ==
  [s \in DOMAIN sockets |->
     IF s \notin names THEN sockets[s]
     ELSE IF sockets[s] = "open" THEN "closed" ELSE "error"]

StartError ==
  /\ ui = "error"
  /\ IF tunnel_forward THEN UNCHANGED net
     ELSE server_socket_closed' = TRUE /\ sockets' = Closed({"server"})
  /\ DisableTunnel
  /\ ui' = "failed"
  /\ UNCHANGED <<waiter, tunnel_enabled, process, process_terminated>>

-------------------------------------------------------------------------------
(* server_connect_to *)

\* Something else fails before the connection, or the connection does: scrcpy_stop.
GivesUp ==
  /\ ui \in {"connect", "connectControl"}
  /\ ui' = "stop"
  /\ UNCHANGED <<waiter, tunnel, net, process, process_terminated>>

\* The socket to accept on is still open, or the server listens on the device.
CanConnect == tunnel_forward \/ sockets["server"] = "open"

ConnectVideo ==
  /\ ui = "connect" /\ CanConnect
  /\ sockets' = [sockets EXCEPT !.video = "open"]
  /\ ui' = "connectControl"
  /\ UNCHANGED <<waiter, tunnel, server_socket_closed, process, process_terminated>>

ConnectControl ==
  /\ ui = "connectControl" /\ CanConnect
  /\ sockets' = [sockets EXCEPT !.control = "open"]
  /\ ui' = IF tunnel_forward THEN "untunnel" ELSE "closeServer"
  /\ UNCHANGED <<waiter, tunnel, server_socket_closed, process, process_terminated>>

\* The server socket is closed by whoever sets the flag.
CloseServerSocket ==
  /\ server_socket_closed' = TRUE
  /\ sockets' = (IF server_socket_closed THEN sockets ELSE Closed({"server"}))

CloseListening ==
  /\ ui = "closeServer"
  /\ CloseServerSocket
  /\ ui' = "untunnel"
  /\ UNCHANGED <<waiter, tunnel, process, process_terminated>>

\* The tunnel is not needed any more; the device information may be unreadable.
Connected ==
  /\ ui = "untunnel"
  /\ DisableTunnel
  /\ tunnel_enabled' = FALSE
  /\ ui' \in {"run", "stop"}
  /\ UNCHANGED <<waiter, net, process, process_terminated>>

\* The user quits, or the stream ends.
StopAsked ==
  /\ ui = "run"
  /\ ui' = "stop"
  /\ UNCHANGED <<waiter, tunnel, net, process, process_terminated>>

-------------------------------------------------------------------------------
(* server_stop *)

StopListening ==
  /\ ui = "stop"
  /\ IF sockets["server"] # "invalid" THEN CloseServerSocket ELSE UNCHANGED net
  /\ ui' = "disconnect"
  /\ UNCHANGED <<waiter, tunnel, process, process_terminated>>

Disconnect ==
  /\ ui = "disconnect"
  /\ sockets' = Closed({s \in {"video", "control"} : sockets[s] # "invalid"})
  /\ ui' = IF tunnel_enabled THEN "disable" ELSE "watch"
  /\ UNCHANGED <<waiter, tunnel, server_socket_closed, process, process_terminated>>

StopTunnel ==
  /\ ui = "disable"
  /\ DisableTunnel
  /\ ui' = "watch"
  /\ UNCHANGED <<waiter, tunnel_enabled, net, process, process_terminated>>

\* The process is waited for, unless it is already known to be terminated.
Watch ==
  /\ ui = "watch"
  /\ ui' = IF process_terminated THEN "kill" ELSE "timedWait"
  /\ UNCHANGED <<waiter, tunnel, net, process, process_terminated>>

WatchdogExpires ==
  /\ ui = "timedWait"
  /\ ui' = "kill"
  /\ UNCHANGED <<waiter, tunnel, net, process, process_terminated>>

\* The wait ends unasked for: the process is believed to be terminated.
SpuriousWakeup ==
  /\ ui = "timedWait"
  /\ ui' = "joinUnwarned"
  /\ UNCHANGED <<waiter, tunnel, net, process, process_terminated>>

\* Faulty: the process is not killed.
KillForgotten ==
  /\ ui = "kill"
  /\ ui' = "join"
  /\ UNCHANGED <<waiter, tunnel, net, process, process_terminated>>

Kill ==
  /\ ui = "kill"
  /\ process' = (IF process = "running" THEN "killed" ELSE process)
  /\ ui' = "join"
  /\ UNCHANGED <<waiter, tunnel, net, process_terminated>>

\* The thread is joined and the process is reaped.
Join ==
  /\ ui \in {"join", "joinUnwarned"} /\ waiter = "done"
  /\ process' = "reaped"
  /\ ui' = "stopped"
  /\ UNCHANGED <<waiter, tunnel, net, process_terminated>>

-------------------------------------------------------------------------------
(* The process, and run_wait_server *)

\* The server dies, the device is unplugged, or the process was killed.
ProcessExits ==
  /\ process \in {"running", "killed"}
  /\ process' = "exited"
  /\ UNCHANGED <<ui, waiter, tunnel, net, process_terminated>>

\* Faulty: the process is reaped by the thread.
WaitProcessAndReap ==
  /\ waiter = "wait" /\ process = "exited"
  /\ process' = "reaped"
  /\ waiter' = "tell"
  /\ UNCHANGED <<ui, tunnel, net, process_terminated>>

\* process_wait does not reap the process.
WaitProcess ==
  /\ waiter = "wait" /\ process = "exited"
  /\ waiter' = "tell"
  /\ UNCHANGED <<ui, tunnel, net, process, process_terminated>>

\* The condition is signalled: server_stop knows that the process is terminated.
TellTerminated ==
  /\ waiter = "tell"
  /\ process_terminated' = TRUE
  /\ ui' = (IF ui = "timedWait" THEN "join" ELSE ui)
  /\ waiter' = "close"
  /\ UNCHANGED <<tunnel, net, process>>

\* Faulty: the flag is not tested.
UnblockUnguarded ==
  /\ waiter = "close"
  /\ server_socket_closed' = TRUE
  /\ sockets' = (IF sockets["server"] # "invalid" THEN Closed({"server"}) ELSE sockets)
  /\ waiter' = "done"
  /\ UNCHANGED <<ui, tunnel, process, process_terminated>>

\* Faulty: the server socket is left open.
UnblockForgotten ==
  /\ waiter = "close"
  /\ waiter' = "done"
  /\ UNCHANGED <<ui, tunnel, net, process, process_terminated>>

\* accept() is unblocked, if the main thread is blocked there.
Unblock ==
  /\ waiter = "close"
  /\ IF sockets["server"] # "invalid" THEN CloseServerSocket ELSE UNCHANGED net
  /\ waiter' = "done"
  /\ UNCHANGED <<ui, tunnel, process, process_terminated>>

-------------------------------------------------------------------------------
StartingServer ==
  \/ Push \/ EnableReverse \/ Listen \/ DisableReverse \/ EnableForward
  \/ Execute \/ CreateThread \/ StartError

Connecting == ConnectVideo \/ ConnectControl \/ CloseListening \/ Connected

StoppingServer ==
  StopListening \/ Disconnect \/ StopTunnel \/ Watch \/ WatchdogExpires \/ Kill \/ Join

WaiterStep == WaitProcess \/ TellTerminated \/ Unblock

Terminated == ui \in {"failed", "stopped"} /\ UNCHANGED server

ServerNext ==
  \/ StartingServer \/ Connecting \/ GivesUp \/ StopAsked \/ StoppingServer
  \/ SpuriousWakeup \/ ProcessExits \/ WaiterStep \/ Terminated

\* Both threads run; accept() fails once its socket is closed, and a process that
\* is killed exits.  The server may neither connect nor exit, the device asleep.
ServerFairness ==
  /\ WF_server(StoppingServer) /\ WF_server(WaiterStep)
  /\ WF_server(GivesUp /\ ~CanConnect)
  /\ WF_server(ProcessExits /\ process = "killed")

ServerSpec == ServerInitial /\ [][ServerNext]_server /\ ServerFairness

-------------------------------------------------------------------------------
(* Properties. *)

ServerTypeOK ==
  /\ ui \in {"start", "reverse", "listen", "unreverse", "forward", "execute",
             "createThread", "error", "failed", "connect", "connectControl",
             "closeServer", "untunnel", "run", "stop", "disconnect", "disable",
             "watch", "timedWait", "kill", "join", "joinUnwarned", "stopped"}
  /\ waiter \in {"none", "wait", "tell", "close", "done"}
  /\ port \in Ports
  /\ tunnel_forward \in BOOLEAN /\ tunnel_enabled \in BOOLEAN
  /\ tunnels \subseteq Tunnel /\ unremoved \subseteq Tunnel
  /\ sockets \in [{"server", "video", "control"} -> {"invalid", "open", "closed", "error"}]
  /\ server_socket_closed \in BOOLEAN
  /\ process \in {"none", "running", "killed", "exited", "reaped"}
  /\ process_terminated \in BOOLEAN

\* No socket is closed twice, although two threads may close the server socket,
\* nor before it was opened; at the end none is left open.
SocketsAreClosedOnce ==
  /\ \A s \in DOMAIN sockets : sockets[s] # "error"
  /\ ui \in {"failed", "stopped"} => \A s \in DOMAIN sockets : sockets[s] # "open"

\* Whatever fails and when, adb keeps no tunnel but those it failed to remove:
\* when the connection is established, when it failed to start and at the end.
NoTunnelIsLeft ==
  ui \in {"failed", "run", "watch", "stopped"} => tunnels \subseteq unremoved

\* Whatever fails, whenever the server dies and whoever stops it, the ports tried
\* are in the range, and what was opened is closed or removed exactly once.
ResourcesAreReleased ==
  /\ ServerTypeOK
  /\ SocketsAreClosedOnce
  /\ NoTunnelIsLeft

\* server_stop never kills another process than the server: it was started and is
\* not reaped, even if it has already terminated.
KillsItsOwnProcess == ui = "kill" => process \in {"running", "exited"}

\* If the server dies before it connects, the client is not stuck on accept().
AcceptIsUnblocked ==
  (process = "exited" /\ ui \in {"connect", "connectControl"} /\ ~tunnel_forward)
    ~> ui \notin {"connect", "connectControl"}

\* server_stop ends even if the server never does by itself, unless its wait was
\* ended by a spurious wakeup.
StopEnds == ui = "stop" ~> ui \in {"stopped", "joinUnwarned"}

\* After the delay, the server is killed if it is not dead already.
KilledUnlessDead == ui \in {"join", "joinUnwarned"} => process # "running"
===============================================================================
