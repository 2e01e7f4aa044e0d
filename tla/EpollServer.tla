---------------------------- MODULE EpollServer ----------------------------
(***************************************************************************)
(* The server of epoll-demo.c: one thread that waits for a batch of events *)
(* and handles them one after the other, while clients connect, send,      *)
(* close and reset their connections at any time.  A descriptor that was   *)
(* closed may be given to the next connection.                             *)
(***************************************************************************)
EXTENDS Integers, Sequences, SequencesExt, FiniteSetsExt

CONSTANTS
  Clients,     \* each connects once
  MaxFds,      \* the descriptors free for connections are 1..MaxFds
  MAX_EVENTS,  \* the greatest number of events in a batch
  BUF_SIZE,    \* how much recv() takes at most
  MaxSent      \* bound of what a client sends

ASSUME EpollAssumption ==
  /\ MaxFds \in Nat \ {0} /\ MAX_EVENTS \in Nat \ {0}
  /\ BUF_SIZE \in Nat \ {0} /\ MaxSent \in Nat

VARIABLES
  pc,        \* "wait" in epoll_wait(), "handle" in the for loop, or "exit"
  events,    \* the descriptors in the batch that are not handled yet
  watched,   \* the descriptors of clients in the epoll instance
  fdOf,      \* the descriptor of each client's connection, 0 for none
  backlog,   \* the connections that wait for accept()
  link,      \* "none", "open", "closed" or "reset" by the client, or "over"
  pending,   \* how much of a client's data is not received yet
  sent, got, \* history: how much a client sent, and the server received
  seen       \* history: fdOf when epoll_wait() returned

vars == <<pc, events, watched, fdOf, backlog, link, pending, sent, got, seen>>

server_fd == 0

Init ==
  /\ pc = "wait" /\ events = <<>> /\ watched = {} /\ backlog = <<>>
  /\ fdOf = [c \in Clients |-> 0] /\ seen = fdOf
  /\ link = [c \in Clients |-> "none"]
  /\ pending = [c \in Clients |-> 0] /\ sent = pending /\ got = pending

-----------------------------------------------------------------------------
(* Clients and their connections. *)

Connect(c) ==
  /\ link[c] = "none"
  /\ link' = [link EXCEPT ![c] = "open"]
  /\ backlog' = Append(backlog, c)
  /\ UNCHANGED <<pc, events, watched, fdOf, pending, sent, got, seen>>

Send(c) ==
  /\ link[c] = "open" /\ sent[c] < MaxSent
  /\ sent' = [sent EXCEPT ![c] = @ + 1]
  /\ pending' = [pending EXCEPT ![c] = @ + 1]
  /\ UNCHANGED <<pc, events, watched, fdOf, backlog, link, got, seen>>

\* A reset discards what the server has not received.
Finish(c) ==
  /\ link[c] = "open"
  /\ \/ link' = [link EXCEPT ![c] = "closed"] /\ UNCHANGED pending
     \/ /\ link' = [link EXCEPT ![c] = "reset"]
        /\ pending' = [pending EXCEPT ![c] = 0]
  /\ UNCHANGED <<pc, events, watched, fdOf, backlog, sent, got, seen>>

\* What epoll_wait() reports, as long as it is so: the listening socket has a
\* connection, that of a client data or an end.
Readable(fd) ==
  \/ fd = server_fd /\ backlog # <<>>
  \/ \E c \in Clients :
       /\ fdOf[c] = fd /\ fd \in watched
       /\ pending[c] > 0 \/ link[c] \in {"closed", "reset"}

\* The descriptors that are not in use.
Free == 1..MaxFds \ {fdOf[c] : c \in Clients}

\* The event at the head of the batch, about descriptor fd, is handled; rest are
\* the events left.
Event(fd, rest) ==
  /\ pc = "handle" /\ events # <<>> /\ Head(events) = fd
  /\ events' = rest

\* exit(1): what is not received by now is lost, whoever sent it.
Exit ==
  /\ pc' = "exit"
  /\ pending' = [c \in Clients |-> 0]

-----------------------------------------------------------------------------
(* Faulty variants of the handlers below; each breaks a property. *)

\* recv() is called until the connection ends, as if it did not block.
RecvUntilEnd(c) ==
  /\ fdOf[c] # 0 /\ Event(fdOf[c], events)
  /\ pending[c] > 0
  /\ pending' = [pending EXCEPT ![c] = @ - 1]
  /\ got' = [got EXCEPT ![c] = @ + 1]
  /\ UNCHANGED <<pc, watched, fdOf, backlog, link, sent, seen>>

\* The end of a connection is not noticed.
EndForgotten(c) ==
  /\ fdOf[c] # 0 /\ Event(fdOf[c], Tail(events))
  /\ link[c] = "closed" /\ pending[c] = 0
  /\ UNCHANGED <<pc, watched, fdOf, backlog, link, pending, sent, got, seen>>

\* The connection is closed as soon as the client closed it.
EndEarly(c) ==
  /\ fdOf[c] # 0 /\ Event(fdOf[c], Tail(events))
  /\ link[c] = "closed"
  /\ watched' = watched \ {fdOf[c]}
  /\ fdOf' = [fdOf EXCEPT ![c] = 0]
  /\ link' = [link EXCEPT ![c] = "over"]
  /\ pending' = [pending EXCEPT ![c] = 0]
  /\ UNCHANGED <<pc, backlog, sent, got, seen>>

\* The end of a connection is taken for an error.
EndExits(c) ==
  /\ fdOf[c] # 0 /\ Event(fdOf[c], Tail(events))
  /\ link[c] = "closed" /\ pending[c] = 0
  /\ Exit
  /\ UNCHANGED <<watched, fdOf, backlog, link, sent, got, seen>>

\* The connection is not added to the epoll instance.
AcceptUnwatched ==
  /\ Event(server_fd, Tail(events)) /\ backlog # <<>>
  /\ backlog' = Tail(backlog)
  /\ \E fd \in Free : fdOf' = [fdOf EXCEPT ![Head(backlog)] = fd]
  /\ UNCHANGED <<pc, watched, link, pending, sent, got, seen>>

-----------------------------------------------------------------------------
(* The loop. *)

\* epoll_wait() returns up to MAX_EVENTS descriptors, each once.
Wait ==
  /\ pc = "wait"
  /\ LET ready == {fd \in watched \cup {server_fd} : Readable(fd)}
     IN \E batch \in SetToAllKPermutations(ready) :
          /\ Len(batch) = Min({MAX_EVENTS, Cardinality(ready)})
          /\ batch # <<>>
          /\ events' = batch
  /\ pc' = "handle" /\ seen' = fdOf
  /\ UNCHANGED <<watched, fdOf, backlog, link, pending, sent, got>>

\* accept() gives the lowest free descriptor, which epoll watches from now on.
Accept ==
  /\ Event(server_fd, Tail(events)) /\ backlog # <<>>
  /\ backlog' = Tail(backlog)
  /\ \/ Free = {} /\ Exit /\ UNCHANGED <<fdOf, watched>>
     \/ \E fd \in Free :
          /\ \A other \in Free : fd <= other
          /\ fdOf' = [fdOf EXCEPT ![Head(backlog)] = fd]
          /\ watched' = watched \cup {fd}
          /\ UNCHANGED <<pc, pending>>
  /\ UNCHANGED <<link, sent, got, seen>>

\* recv() gives data, while there are any,
Recv(c) ==
  /\ fdOf[c] # 0 /\ Event(fdOf[c], Tail(events))
  /\ pending[c] > 0
  /\ LET n == Min({BUF_SIZE, pending[c]})
     IN /\ pending' = [pending EXCEPT ![c] = @ - n]
        /\ got' = [got EXCEPT ![c] = @ + n]
  /\ UNCHANGED <<pc, watched, fdOf, backlog, link, sent, seen>>

\* 0 at their end: close() removes the descriptor from the epoll instance too,
RecvEnd(c) ==
  /\ fdOf[c] # 0 /\ Event(fdOf[c], Tail(events))
  /\ link[c] = "closed" /\ pending[c] = 0
  /\ watched' = watched \ {fdOf[c]}
  /\ fdOf' = [fdOf EXCEPT ![c] = 0]
  /\ link' = [link EXCEPT ![c] = "over"]
  /\ UNCHANGED <<pc, backlog, pending, sent, got, seen>>

\* or -1 after a reset, and the server ends for all its clients.
RecvFails(c) ==
  /\ fdOf[c] # 0 /\ Event(fdOf[c], Tail(events))
  /\ link[c] = "reset"
  /\ Exit
  /\ UNCHANGED <<watched, fdOf, backlog, link, sent, got, seen>>

EndOfBatch ==
  /\ pc = "handle" /\ events = <<>>
  /\ pc' = "wait"
  /\ UNCHANGED <<events, watched, fdOf, backlog, link, pending, sent, got, seen>>

\* Nothing more happens: the server ended, or waits for clients that are gone.
Done ==
  /\ pc = "exit" \/ \A c \in Clients : link[c] = "over"
  /\ UNCHANGED vars

Handle ==
  \/ Accept \/ EndOfBatch
  \/ \E c \in Clients : Recv(c) \/ RecvEnd(c) \/ RecvFails(c)

Client == \E c \in Clients : Connect(c) \/ Send(c) \/ Finish(c)

Next == Wait \/ Handle \/ (pc # "exit" /\ Client) \/ Done

Spec == Init /\ [][Next]_vars

\* The server keeps running; no client has to do anything.
FairSpec == Spec /\ WF_vars(Wait) /\ WF_vars(Handle)

-----------------------------------------------------------------------------
(* Properties. *)

\* Although connections end and descriptors are used again within a batch, an
\* event that is not handled yet is still about the connection epoll_wait()
\* reported it for, and neither accept() nor recv() blocks on it.
BatchIsFresh ==
  pc = "handle" =>
    \A i \in DOMAIN events :
      /\ Readable(events[i])
      /\ events[i] # server_fd =>
           \A c \in Clients : fdOf[c] = events[i] <=> seen[c] = events[i]

\* As long as the server runs, what a client sent is received or waits for recv(),
\* and all of it is received before the connection is closed, unless the client
\* resets the connection.
NothingLost ==
  pc # "exit" =>
    \A c \in Clients :
      /\ link[c] # "reset" => got[c] + pending[c] = sent[c]
      /\ link[c] = "over" => got[c] = sent[c]

\* The server ends, and loses what it has not received of every client, for two
\* reasons only: one client reset the connection it was accepted on, or accept()
\* found no free descriptor.  Clients that close early, send much or are many do
\* not end it as long as descriptors last.
EndsForCause ==
  pc = "exit" => Free = {} \/ \E c \in Clients : fdOf[c] # 0 /\ link[c] = "reset"

\* A connection has a descriptor of its own, which epoll watches, from accept()
\* until its end; no descriptor leaks.
OwnDescriptor ==
  /\ watched = {fdOf[c] : c \in Clients} \ {0}
  /\ \A c, d \in Clients : fdOf[c] = fdOf[d] /\ fdOf[c] # 0 => c = d
  /\ \A c \in Clients : fdOf[c] # 0 => link[c] \in {"open", "closed", "reset"}

\* A connection that a client closed is closed by the server in the end, unless
\* it has ended.
EventuallyClosed ==
  \A c \in Clients : link[c] = "closed" ~> link[c] = "over" \/ pc = "exit"
=============================================================================
