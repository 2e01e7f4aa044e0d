----------------------------- MODULE HttpServer -----------------------------
(***************************************************************************)
(* The listening daemon of althttpd: http_server() in src/althttpd.c.      *)
(*                                                                         *)
(* The parent process scans a range of TCP ports for one it can bind,      *)
(* listens, optionally forks a process that opens a web browser, and then  *)
(* loops for ever: wait up to 100ms for a connection, accept it, fork a    *)
(* child for it, close its own copy of the descriptor, bury the children   *)
(* that have ended.  It is composed here with the kernel (the queue of     *)
(* connections waiting for accept(), failing system calls), with clients   *)
(* that connect at any time, and with the children, of which only the life *)
(* cycle is visible to the parent: running, zombie, buried.  What a child  *)
(* does with its connection is module Connection.                          *)
(***************************************************************************)
EXTENDS Integers, Sequences, FiniteSets

CONSTANTS
  Clients,      \* the connections that clients open, one element each
  MnPort,       \* mnPort and mxPort, the range of ports to try
  MxPort,
  MaxParallel,  \* MAX_PARALLEL
  Backlog,      \* how many connections the kernel queues (10 in listen())
  Browser,      \* the identity of the child that launches the web browser
  NoConnection, \* the value of connection before the first accept()
  LaunchPage    \* TRUE iff zPage # 0, that is, --page or "browse" was given

ASSUME ServerAssumption ==
  /\ IsFiniteSet(Clients)
  /\ Browser \notin Clients
  /\ NoConnection \notin Clients
  /\ MnPort \in Nat \ {0} /\ MxPort \in Nat /\ MnPort <= MxPort
  /\ MaxParallel \in Nat
  /\ Backlog \in Nat \ {0}
  /\ LaunchPage \in BOOLEAN

VARIABLES
  pc,          \* where the parent is in http_server()
  iPort,       \* the port tried next
  unusable,    \* the ports for which socket() or bind() fails
  listener,    \* the port the listening socket is bound to, 0 for none
  queue,       \* connections the kernel holds for accept(), oldest first
  connection,  \* what accept() returned: a connection or NoConnection
  fds,         \* the connections the parent holds a descriptor of
  nchildren,   \* the parent's count of its children
  child,       \* life cycle of the child of each connection
  dropped      \* connections closed without a child to serve them

parentVars == <<pc, iPort, listener, connection, fds, nchildren>>
vars == <<pc, iPort, unusable, listener, queue, connection, fds, nchildren,
          child, dropped>>

Kids == Clients \cup {Browser}
Ports == MnPort..MxPort
Locations == {"scan", "listen", "page", "top", "sleep", "select", "accept",
              "fork", "bury", "exit"}
ChildStates == {"none", "running", "zombie", "buried"}

QueuedConnections == {queue[i] : i \in DOMAIN queue}

\* Children that were forked and not yet buried by waitpid().
Unburied == {k \in Kids : child[k] \in {"running", "zombie"}}

Init ==
  /\ pc = "scan"
  /\ iPort = MnPort
  /\ unusable \in SUBSET Ports
  /\ listener = 0
  /\ queue = <<>>
  /\ connection = NoConnection
  /\ fds = {}
  /\ nchildren = 0
  /\ child = [k \in Kids |-> "none"]
  /\ dropped = {}

-----------------------------------------------------------------------------
(* Faulty variants of actions below, as a slip in the code would make them; *)
(* none is part of the specification.  Each breaks one of the properties.   *)

\* The last port of the range is never tried.
GiveUpEarly ==
  /\ pc = "scan" /\ iPort >= MxPort /\ pc' = "exit"
  /\ UNCHANGED <<iPort, unusable, listener, queue, connection, fds, nchildren,
                 child, dropped>>

\* The sleep is a loop: the limit is tested again before going on.
WakeAndTest ==
  /\ pc = "sleep" /\ pc' = "top"
  /\ UNCHANGED <<iPort, unusable, listener, queue, connection, fds, nchildren,
                 child, dropped>>

\* Dead children are buried only after a connection was accepted.
SelectSkipsBury ==
  /\ pc = "select"
  /\ pc' = IF queue # <<>> THEN "accept" ELSE "top"
  /\ UNCHANGED <<iPort, unusable, listener, queue, connection, fds, nchildren,
                 child, dropped>>

\* A failed fork() is counted as a child.
ForkFailsCounted ==
  /\ pc = "fork" /\ pc' = "bury"
  /\ dropped' = dropped \cup {connection} /\ fds' = fds \ {connection}
  /\ nchildren' = nchildren + 1
  /\ UNCHANGED <<iPort, unusable, listener, queue, connection, child>>

\* close(connection) only follows a successful fork().
ForkFailsLeaks ==
  /\ pc = "fork" /\ pc' = "bury"
  /\ UNCHANGED <<iPort, unusable, listener, queue, connection, fds, nchildren,
                 child, dropped>>

-----------------------------------------------------------------------------
(* Start-up: find a port, listen, launch the browser. *)

\* socket() or bind() fails: try the next port of the range.
TryNextPort ==
  /\ pc = "scan" /\ iPort <= MxPort
  /\ iPort \in unusable
  /\ iPort' = iPort + 1
  /\ UNCHANGED <<pc, unusable, listener, queue, connection, fds, nchildren,
                 child, dropped>>

\* socket() and bind() succeed: leave the loop with this listener.
Bind ==
  /\ pc = "scan" /\ iPort <= MxPort
  /\ iPort \notin unusable
  /\ listener' = iPort
  /\ pc' = "listen"
  /\ UNCHANGED <<iPort, unusable, queue, connection, fds, nchildren, child,
                 dropped>>

\* No port of the range is left: althttpd_exit(1).
GiveUp ==
  /\ pc = "scan" /\ iPort > MxPort
  /\ pc' = "exit"
  /\ UNCHANGED <<iPort, unusable, listener, queue, connection, fds, nchildren,
                 child, dropped>>

\* listen(); from here on the kernel queues connections.
Listen ==
  /\ pc = "listen"
  /\ pc' = IF LaunchPage THEN "page" ELSE "top"
  /\ UNCHANGED <<iPort, unusable, listener, queue, connection, fds, nchildren,
                 child, dropped>>

\* fork() for launch_web_browser(); the fork may fail, which goes unnoticed.
LaunchBrowser ==
  /\ pc = "page"
  /\ pc' = "top"
  /\ \/ /\ nchildren' = nchildren + 1
        /\ child' = [child EXCEPT ![Browser] = "running"]
     \/ UNCHANGED <<nchildren, child>>
  /\ UNCHANGED <<iPort, unusable, listener, queue, connection, fds, dropped>>

-----------------------------------------------------------------------------
(* The accept loop. *)

\* Slow down if connections are arriving too fast.  The loop tests nchildren
\* once, sleeps, and goes on whatever the number of children then is.
CheckLoad ==
  /\ pc = "top"
  /\ pc' = IF nchildren > MaxParallel THEN "sleep" ELSE "select"
  /\ UNCHANGED <<iPort, unusable, listener, queue, connection, fds, nchildren,
                 child, dropped>>

Wake ==
  /\ pc = "sleep"
  /\ pc' = "select"
  /\ UNCHANGED <<iPort, unusable, listener, queue, connection, fds, nchildren,
                 child, dropped>>

\* select() returns: the listener is readable, or 100ms have passed.
Select ==
  /\ pc = "select"
  /\ pc' = IF queue # <<>> THEN "accept" ELSE "bury"
  /\ UNCHANGED <<iPort, unusable, listener, queue, connection, fds, nchildren,
                 child, dropped>>

Accept ==
  /\ pc = "accept" /\ queue # <<>>
  /\ connection' = Head(queue)
  /\ fds' = fds \cup {Head(queue)}
  /\ queue' = Tail(queue)
  /\ pc' = "fork"
  /\ UNCHANGED <<iPort, unusable, listener, nchildren, child, dropped>>

\* accept() fails: the client has gone (the connection leaves the queue) or
\* the system is short of descriptors (the connection stays in the queue).
AcceptFails ==
  /\ pc = "accept" /\ queue # <<>>
  /\ pc' = "bury"
  /\ \/ /\ queue' = Tail(queue)
        /\ dropped' = dropped \cup {Head(queue)}
     \/ UNCHANGED <<queue, dropped>>
  /\ UNCHANGED <<iPort, unusable, listener, connection, fds, nchildren, child>>

\* fork() succeeds: the child owns the connection, the parent closes its copy.
Fork ==
  /\ pc = "fork"
  /\ child' = [child EXCEPT ![connection] = "running"]
  /\ nchildren' = nchildren + 1
  /\ fds' = fds \ {connection}
  /\ pc' = "bury"
  /\ UNCHANGED <<iPort, unusable, listener, queue, connection, dropped>>

\* fork() fails: the parent closes the connection and nobody serves it.
ForkFails ==
  /\ pc = "fork"
  /\ dropped' = dropped \cup {connection}
  /\ fds' = fds \ {connection}
  /\ pc' = "bury"
  /\ UNCHANGED <<iPort, unusable, listener, queue, connection, nchildren,
                 child>>

\* waitpid(0, 0, WNOHANG) returns the PID of a dead child.
BuryOne(k) ==
  /\ pc = "bury"
  /\ child[k] = "zombie"
  /\ child' = [child EXCEPT ![k] = "buried"]
  /\ nchildren' = nchildren - 1
  /\ UNCHANGED <<pc, iPort, unusable, listener, queue, connection, fds,
                 dropped>>

\* waitpid() finds no dead child: back to the top of the loop.
BuryDone ==
  /\ pc = "bury"
  /\ \A k \in Kids : child[k] # "zombie"
  /\ pc' = "top"
  /\ UNCHANGED <<iPort, unusable, listener, queue, connection, fds, nchildren,
                 child, dropped>>

-----------------------------------------------------------------------------
(* The world around the parent. *)

\* A client connects; the kernel completes the connection if the queue of the
\* listening socket has room.
Connect(c) ==
  /\ listener # 0 /\ pc # "listen"
  /\ c \notin QueuedConnections \cup fds \cup dropped
  /\ child[c] = "none"
  /\ Len(queue) < Backlog
  /\ queue' = Append(queue, c)
  /\ UNCHANGED <<parentVars, unusable, child, dropped>>

\* The child of k calls exit(), or a signal kills it.
ChildEnds(k) ==
  /\ child[k] = "running"
  /\ child' = [child EXCEPT ![k] = "zombie"]
  /\ UNCHANGED <<parentVars, unusable, queue, dropped>>

Startup == TryNextPort \/ Bind \/ GiveUp \/ Listen \/ LaunchBrowser

Loop ==
  \/ CheckLoad \/ Wake \/ Select \/ Accept \/ AcceptFails \/ Fork \/ ForkFails
  \/ (\E k \in Kids : BuryOne(k)) \/ BuryDone

World == (\E c \in Clients : Connect(c)) \/ (\E k \in Kids : ChildEnds(k))

\* GiveUp ends the process: the final state.
Finished == pc = "exit" /\ UNCHANGED vars

Next == Startup \/ Loop \/ World \/ Finished

Spec == Init /\ [][Next]_vars

\* The parent is scheduled, and accept() does not fail for ever.  Nothing is
\* assumed of clients and children.
FairSpec == Spec /\ WF_vars(Startup \/ Loop) /\ SF_vars(Accept)

-----------------------------------------------------------------------------
(* Properties. *)

\* Every variable stays in its range.
TypeOK ==
  /\ pc \in Locations
  /\ iPort \in MnPort..(MxPort + 1)
  /\ unusable \subseteq Ports
  /\ listener \in Ports \cup {0}
  /\ queue \in Seq(Clients)
  /\ connection \in Clients \cup {NoConnection}
  /\ fds \subseteq Clients
  /\ nchildren \in Int
  /\ child \in [Kids -> ChildStates]
  /\ dropped \subseteq Clients

\* nchildren, which slows the accept loop down, is the number of children that
\* were forked and not buried: failed forks, the browser process and children
\* that end in any order never make the parent's count drift.
ChildrenCounted == nchildren = Cardinality(Unburied)

\* The port scan stops at the first port that can be bound, and the server
\* gives up only if there is none ("Range of TCP ports to try").
FirstUsablePort ==
  /\ listener # 0 => /\ listener \in Ports \ unusable
                     /\ \A p \in Ports : p < listener => p \in unusable
  /\ pc = "exit" => unusable = Ports

\* The parent holds a descriptor of a connection only between accept() and the
\* close() after fork(): no way through the loop leaks one.
NoDescriptorLeak ==
  /\ pc = "fork" => fds = {connection}
  /\ pc # "fork" => fds = {}

\* Every connection that reaches the queue is taken from it, even if children
\* never end: the parent slows down but never stops accepting.
EventuallyTaken ==
  \A c \in Clients : c \in QueuedConnections ~> c \notin QueuedConnections

\* Every child that has ended is buried, whether or not more clients come.
EventuallyBuried == \A k \in Kids : child[k] = "zombie" ~> child[k] = "buried"
=============================================================================
