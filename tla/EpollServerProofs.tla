-------------------------- MODULE EpollServerProofs --------------------------
(***************************************************************************)
(* What the epoll server guarantees for any number of clients, descriptors *)
(* and events in a batch.  That a batch stays true while it is handled     *)
(* rests on two facts: a batch names a descriptor once, and a descriptor   *)
(* belongs to one connection from accept() to close(), so that closing the *)
(* connection of one event, or giving its descriptor to the next one, is   *)
(* not seen by the events after it.                                        *)
(***************************************************************************)
EXTENDS EpollServer, FiniteSetTheorems, SequenceTheorems, TLAPS

Links == {"none", "open", "closed", "reset", "over"}
Fds == 0..MaxFds

TypeOK ==
  /\ pc \in {"wait", "handle", "exit"}
  /\ events \in Seq(Fds)
  /\ watched \subseteq 1..MaxFds
  /\ fdOf \in [Clients -> Fds]
  /\ backlog \in Seq(Clients)
  /\ link \in [Clients -> Links]
  /\ pending \in [Clients -> Nat]
  /\ sent \in [Clients -> Nat]
  /\ got \in [Clients -> Nat]
  /\ seen \in [Clients -> Fds]

\* A connection waits once for accept(), has no descriptor until then, and is
\* neither new nor over.
BacklogInv ==
  /\ \A i, j \in DOMAIN backlog : backlog[i] = backlog[j] => i = j
  /\ \A i \in DOMAIN backlog :
       fdOf[backlog[i]] = 0 /\ link[backlog[i]] \in {"open", "closed", "reset"}

\* The rest of a batch names a descriptor once.
BatchInv ==
  pc = "handle" => \A i, j \in DOMAIN events : events[i] = events[j] => i = j

Inv ==
  /\ TypeOK
  /\ BacklogInv /\ BatchInv
  /\ OwnDescriptor /\ NothingLost /\ BatchIsFresh

-----------------------------------------------------------------------------
(* Sequences and minima. *)

\* What the tail of a sequence holds.
LEMMA TailFacts ==
  ASSUME NEW S, NEW s \in Seq(S), s # <<>>
  PROVE  /\ Head(s) = s[1] /\ 1 \in DOMAIN s
         /\ Tail(s) \in Seq(S)
         /\ \A i \in DOMAIN Tail(s) :
              i + 1 \in DOMAIN s /\ i \in Nat /\ i >= 1 /\ Tail(s)[i] = s[i + 1]
<1>1. /\ Len(s) \in Nat /\ Len(s) >= 1
      /\ Tail(s) \in Seq(S) /\ Len(Tail(s)) = Len(s) - 1
      /\ \A i \in 1..Len(Tail(s)) : Tail(s)[i] = s[i + 1]
  BY HeadTailProperties, EmptySeq
<1>2. DOMAIN s = 1..Len(s) /\ DOMAIN Tail(s) = 1..Len(Tail(s))
  BY <1>1
<1> QED
  BY <1>1, <1>2

\* recv() takes a part of what is there.
LEMMA MinOfTwo ==
  ASSUME NEW a \in Nat, NEW b \in Nat
  PROVE  Min({a, b}) \in Nat /\ Min({a, b}) <= b
<1>1. \E x \in {a, b} : \A y \in {a, b} : x <= y
  OBVIOUS
<1>2. Min({a, b}) \in {a, b} /\ \A y \in {a, b} : Min({a, b}) <= y
  BY <1>1, Zenon DEF Min
<1> QED
  BY <1>2

\* A batch names descriptors that are ready, each once.
LEMMA BatchFacts ==
  ASSUME NEW S \in SUBSET Fds, NEW batch \in SetToAllKPermutations(S)
  PROVE  /\ batch \in Seq(S)
         /\ \A i, j \in DOMAIN batch : batch[i] = batch[j] => i = j
<1>1. PICK T \in SUBSET S : batch \in SetToSeqs(T)
  BY DEF SetToAllKPermutations
<1>2. IsFiniteSet(T)
  <2>1. IsFiniteSet(Fds)
    BY EpollAssumption, FS_Interval DEF Fds
  <2> QED
    BY <2>1, FS_Subset
<1>3. Cardinality(T) \in Nat
  BY <1>2, FS_CardinalityType
<1>4. /\ batch \in [1..Cardinality(T) -> T]
      /\ \A i, j \in 1..Cardinality(T) : i # j => batch[i] # batch[j]
  BY <1>1 DEF SetToSeqs
<1>5. batch \in Seq(T)
  BY <1>3, <1>4
<1> QED
  BY <1>4, <1>5

-----------------------------------------------------------------------------
(* Clients. *)

\* What clients do leaves the descriptors alone and keeps ready what is ready.
LEMMA ClientStep ==
  ASSUME Inv, pc # "exit", Client
  PROVE  Inv'
<1> USE EpollAssumption
<1>1. ASSUME NEW c \in Clients, Connect(c)
      PROVE  Inv'
  <2> USE <1>1 DEF Connect
  <2>1. TypeOK'
    BY DEF Inv, TypeOK, Links
  <2>2. BacklogInv'
    <3>1. \A i \in DOMAIN backlog : backlog[i] # c
      BY DEF Inv, BacklogInv
    <3>2. fdOf[c] = 0 /\ link'[c] = "open"
      BY DEF Inv, TypeOK, OwnDescriptor
    <3>3. /\ DOMAIN backlog = 1..Len(backlog) /\ Len(backlog) \in Nat
          /\ DOMAIN backlog' = 1..Len(backlog) + 1
          /\ backlog'[Len(backlog) + 1] = c
          /\ \A i \in 1..Len(backlog) : backlog'[i] = backlog[i]
      <4>1. backlog \in Seq(Clients) /\ backlog' = Append(backlog, c)
        BY DEF Inv, TypeOK
      <4> QED
        BY <4>1, AppendProperties
    <3>4. \A i \in 1..Len(backlog) : link'[backlog[i]] = link[backlog[i]]
      <4>1. \A d \in Clients : d # c => link'[d] = link[d]
        BY DEF Inv, TypeOK
      <4>2. backlog \in Seq(Clients)
        BY DEF Inv, TypeOK
      <4> QED
        BY <3>1, <3>3, <4>1, <4>2
    <3> QED
      BY <3>1, <3>2, <3>3, <3>4 DEF Inv, BacklogInv
  <2>3. OwnDescriptor'
    <3>1. fdOf[c] = 0 /\ \A d \in Clients : d # c => link'[d] = link[d]
      BY DEF Inv, TypeOK, OwnDescriptor
    <3> QED
      BY <3>1 DEF Inv, OwnDescriptor
  <2>4. NothingLost'
    BY DEF Inv, TypeOK, NothingLost
  <2>5. BatchInv' /\ BatchIsFresh'
    <3>1. backlog' # <<>>
      <4>1. backlog \in Seq(Clients)
        BY DEF Inv, TypeOK
      <4> QED
        BY <4>1, AppendProperties
    <3>2. \A fd : Readable(fd) => Readable(fd)'
      BY <3>1 DEF Readable, Inv, TypeOK
    <3> QED
      BY <3>2 DEF Inv, BatchInv, BatchIsFresh
  <2> QED
    BY <2>1, <2>2, <2>3, <2>4, <2>5 DEF Inv
<1>2. ASSUME NEW c \in Clients, Send(c)
      PROVE  Inv'
  <2> USE <1>2 DEF Send
  <2>1. TypeOK'
    BY DEF Inv, TypeOK
  <2>2. BacklogInv' /\ OwnDescriptor' /\ BatchInv'
    BY DEF Inv, BacklogInv, OwnDescriptor, BatchInv
  <2>3. NothingLost'
    BY DEF Inv, TypeOK, NothingLost
  <2>4. BatchIsFresh'
    <3>1. \A fd : Readable(fd) => Readable(fd)'
      BY DEF Readable, Inv, TypeOK
    <3> QED
      BY <3>1 DEF Inv, BatchIsFresh
  <2> QED
    BY <2>1, <2>2, <2>3, <2>4 DEF Inv
<1>3. ASSUME NEW c \in Clients, Finish(c)
      PROVE  Inv'
  <2> USE <1>3 DEF Finish
  <2>0. /\ link[c] = "open" /\ link'[c] \in {"closed", "reset"}
        /\ \A d \in Clients : d # c => link'[d] = link[d]
        /\ link' \in [Clients -> Links]
    BY DEF Inv, TypeOK, Links
  <2>1. TypeOK'
    <3>1. pending' = pending \/ pending' = [pending EXCEPT ![c] = 0]
      OBVIOUS
    <3>2. pending' \in [Clients -> Nat]
      <4>1. pending \in [Clients -> Nat] /\ 0 \in Nat
        BY DEF Inv, TypeOK
      <4> QED
        BY <3>1, <4>1
    <3> QED
      BY <2>0, <3>2 DEF Inv, TypeOK
  <2>2. BacklogInv' /\ BatchInv'
    <3>1. backlog \in Seq(Clients)
      BY DEF Inv, TypeOK
    <3>2. \A i \in DOMAIN backlog : link'[backlog[i]] \in {"open", "closed", "reset"}
      BY <2>0, <3>1 DEF Inv, BacklogInv
    <3> QED
      BY <3>2 DEF Inv, BacklogInv, BatchInv
  <2>3. OwnDescriptor'
    BY <2>0 DEF Inv, OwnDescriptor
  <2>4. NothingLost'
    <3>1. \A d \in Clients :
            /\ link'[d] # "reset" => link[d] # "reset" /\ pending'[d] = pending[d]
            /\ link'[d] = "over" => link[d] = "over"
      BY <2>0 DEF Inv, TypeOK
    <3> QED
      BY <3>1 DEF Inv, NothingLost
  <2>5. BatchIsFresh'
    <3>1. \A d \in Clients : \/ pending'[d] = pending[d] /\ link'[d] = link[d]
                             \/ link'[d] \in {"closed", "reset"}
      BY <2>0 DEF Inv, TypeOK
    <3>2. \A fd : Readable(fd) => Readable(fd)'
      BY <3>1 DEF Readable
    <3> QED
      BY <3>2 DEF Inv, BatchIsFresh
  <2> QED
    BY <2>1, <2>2, <2>3, <2>4, <2>5 DEF Inv
<1> QED
  BY <1>1, <1>2, <1>3 DEF Client

-----------------------------------------------------------------------------
(* The loop. *)

\* epoll_wait() reports what is ready when it returns.
LEMMA WaitStep ==
  ASSUME Inv, Wait
  PROVE  Inv'
<1> DEFINE ready == {fd \in watched \cup {server_fd} : Readable(fd)}
<1>1. PICK batch \in SetToAllKPermutations(ready) : events' = batch
  BY Zenon DEF Wait
<1>2. ready \in SUBSET Fds
  <2>1. watched \cup {server_fd} \subseteq Fds
    BY EpollAssumption DEF Inv, TypeOK, Fds, server_fd
  <2> QED
    BY <2>1, Zenon
<1> HIDE DEF ready
<1>3. /\ events' \in Seq(ready)
      /\ \A i, j \in DOMAIN events' : events'[i] = events'[j] => i = j
  BY <1>1, <1>2, BatchFacts
<1>4. /\ pc' = "handle" /\ seen' = fdOf
      /\ pc = "wait"
      /\ UNCHANGED <<watched, fdOf, backlog, link, pending, sent, got>>
  BY DEF Wait
<1>5. TypeOK'
  <2>1. events' \in Seq(Fds)
    BY <1>2, <1>3
  <2> QED
    BY <1>4, <2>1 DEF Inv, TypeOK
<1>6. BacklogInv' /\ BatchInv' /\ OwnDescriptor' /\ NothingLost'
  BY <1>3, <1>4 DEF Inv, BacklogInv, BatchInv, OwnDescriptor, NothingLost
<1>7. BatchIsFresh'
  <2>1. \A i \in DOMAIN events' : Readable(events'[i])
    BY <1>3 DEF ready
  <2>2. \A fd : Readable(fd) => Readable(fd)'
    BY <1>4 DEF Readable
  <2> QED
    BY <1>4, <2>1, <2>2 DEF BatchIsFresh
<1> QED
  BY <1>5, <1>6, <1>7 DEF Inv

\* What an event leaves of the batch: other descriptors.
LEMMA RestFacts ==
  ASSUME Inv, NEW fd, Event(fd, Tail(events)), events # <<>>
  PROVE  /\ events' \in Seq(Fds)
         /\ \A i, j \in DOMAIN events' : events'[i] = events'[j] => i = j
         /\ \A i \in DOMAIN events' :
              /\ events'[i] # fd
              /\ Readable(events'[i])
              /\ events'[i] # server_fd =>
                   \A c \in Clients : fdOf[c] = events'[i] <=> seen[c] = events'[i]
<1>1. pc = "handle" /\ Head(events) = fd /\ events' = Tail(events)
  BY DEF Event
<1>2. events \in Seq(Fds)
  BY DEF Inv, TypeOK
<1>3. /\ events[1] = fd /\ 1 \in DOMAIN events
      /\ events' \in Seq(Fds)
      /\ \A i \in DOMAIN events' :
           i + 1 \in DOMAIN events /\ i \in Nat /\ i >= 1
             /\ events'[i] = events[i + 1]
  BY <1>1, <1>2, TailFacts
<1>4. \A i, j \in DOMAIN events : events[i] = events[j] => i = j
  BY <1>1 DEF Inv, BatchInv
<1>5. \A i, j \in DOMAIN events' : events'[i] = events'[j] => i = j
  <2>1. \A i, j \in DOMAIN events' : events'[i] = events'[j] => i + 1 = j + 1
    BY <1>3, <1>4
  <2> QED
    BY <1>3, <2>1
<1>6. \A i \in DOMAIN events' : events'[i] # fd
  <2>1. \A i \in DOMAIN events' : events'[i] = fd => i + 1 = 1
    BY <1>3, <1>4
  <2> QED
    BY <1>3, <2>1
<1> QED
  BY <1>1, <1>3, <1>5, <1>6 DEF Inv, BatchIsFresh

\* accept() takes a descriptor nobody has, so no event that is left is about it.
LEMMA AcceptStep ==
  ASSUME Inv, Accept
  PROVE  Inv'
<1> DEFINE c == Head(backlog)
<1>1. /\ backlog # <<>> /\ backlog' = Tail(backlog)
      /\ Event(server_fd, Tail(events)) /\ events # <<>>
      /\ UNCHANGED <<link, sent, got, seen>>
  BY DEF Accept, Event
<1>2. backlog \in Seq(Clients)
  BY DEF Inv, TypeOK
<1>3. /\ c = backlog[1] /\ 1 \in DOMAIN backlog
      /\ backlog' \in Seq(Clients)
      /\ \A i \in DOMAIN backlog' :
           i + 1 \in DOMAIN backlog /\ i \in Nat /\ i >= 1
             /\ backlog'[i] = backlog[i + 1]
  BY <1>1, <1>2, TailFacts
<1> HIDE DEF c
<1>4. c \in Clients /\ fdOf[c] = 0 /\ link[c] \in {"open", "closed", "reset"}
  BY <1>2, <1>3 DEF Inv, BacklogInv
<1>5. /\ \A i, j \in DOMAIN backlog' : backlog'[i] = backlog'[j] => i = j
      /\ \A i \in DOMAIN backlog' :
           /\ backlog'[i] # c /\ fdOf[backlog'[i]] = 0
           /\ link[backlog'[i]] \in {"open", "closed", "reset"}
  <2>1. \A i, j \in DOMAIN backlog' : backlog'[i] = backlog'[j] => i + 1 = j + 1
    BY <1>3 DEF Inv, BacklogInv
  <2>2. \A i \in DOMAIN backlog' : backlog'[i] = c => i + 1 = 1
    BY <1>3 DEF Inv, BacklogInv
  <2>3. \A i \in DOMAIN backlog' :
          /\ fdOf[backlog'[i]] = 0
          /\ link[backlog'[i]] \in {"open", "closed", "reset"}
    BY <1>3 DEF Inv, BacklogInv
  <2> QED
    BY <1>3, <2>1, <2>2, <2>3
<1>6. /\ events' \in Seq(Fds)
      /\ \A i, j \in DOMAIN events' : events'[i] = events'[j] => i = j
      /\ \A i \in DOMAIN events' :
           /\ events'[i] # server_fd
           /\ Readable(events'[i])
           /\ \A d \in Clients : fdOf[d] = events'[i] <=> seen[d] = events'[i]
  BY <1>1, RestFacts
<1>7. CASE Free = {} /\ Exit /\ UNCHANGED <<fdOf, watched>>
  <2> USE DEF Exit
  <2>1. TypeOK'
    BY <1>1, <1>3, <1>6, <1>7 DEF Inv, TypeOK
  <2>2. BacklogInv'
    BY <1>1, <1>5, <1>7 DEF BacklogInv
  <2>3. OwnDescriptor' /\ NothingLost'
    BY <1>1, <1>7 DEF Inv, OwnDescriptor, NothingLost
  <2>4. BatchInv' /\ BatchIsFresh'
    BY <1>7 DEF BatchInv, BatchIsFresh
  <2> QED
    BY <2>1, <2>2, <2>3, <2>4 DEF Inv
<1>8. ASSUME NEW fd \in Free, fdOf' = [fdOf EXCEPT ![c] = fd],
             watched' = watched \cup {fd}, UNCHANGED <<pc, pending>>
      PROVE  Inv'
  <2>1. fd \in 1..MaxFds /\ fd # 0 /\ fd \in Fds /\ \A d \in Clients : fdOf[d] # fd
    BY EpollAssumption DEF Free, Fds
  <2>2. /\ fdOf' \in [Clients -> Fds] /\ fdOf'[c] = fd
        /\ \A d \in Clients : d # c => fdOf'[d] = fdOf[d]
    BY <1>4, <1>8, <2>1 DEF Inv, TypeOK
  <2>3. TypeOK'
    BY <1>1, <1>3, <1>6, <1>8, <2>1, <2>2 DEF Inv, TypeOK
  <2>4. BacklogInv'
    <3>1. \A i \in DOMAIN backlog' : fdOf'[backlog'[i]] = 0
      BY <1>3, <1>5, <2>2
    <3> QED
      BY <1>1, <1>5, <3>1 DEF BacklogInv
  <2>5. OwnDescriptor'
    <3>1. watched' = {fdOf'[d] : d \in Clients} \ {0}
      BY <1>4, <1>8, <2>1, <2>2 DEF Inv, OwnDescriptor
    <3>2. \A a, b \in Clients : fdOf'[a] = fdOf'[b] /\ fdOf'[a] # 0 => a = b
      BY <2>1, <2>2 DEF Inv, OwnDescriptor
    <3>3. \A d \in Clients : fdOf'[d] # 0 => link[d] \in {"open", "closed", "reset"}
      BY <1>4, <2>2 DEF Inv, OwnDescriptor
    <3> QED
      BY <1>1, <3>1, <3>2, <3>3 DEF OwnDescriptor
  <2>6. NothingLost'
    BY <1>1, <1>8 DEF Inv, NothingLost
  <2>7. BatchInv'
    BY <1>6 DEF BatchInv
  <2>8. BatchIsFresh'
    <3> SUFFICES ASSUME NEW i \in DOMAIN events'
                 PROVE  /\ Readable(events[i])'
                        /\ \A d \in Clients :
                             fdOf'[d] = events'[i] <=> seen'[d] = events'[i]
      BY DEF BatchIsFresh
    <3>1. PICK d \in Clients :
            /\ fdOf[d] = events'[i] /\ events'[i] \in watched
            /\ pending[d] > 0 \/ link[d] \in {"closed", "reset"}
      BY <1>6 DEF Readable
    <3>2. d # c /\ fdOf'[d] = events'[i] /\ events'[i] # fd
      BY <1>4, <1>6, <2>1, <2>2, <3>1 DEF server_fd
    <3>3. Readable(events[i])'
      BY <1>1, <1>8, <3>1, <3>2 DEF Readable
    <3> QED
      BY <1>1, <1>4, <1>6, <2>2, <3>2, <3>3 DEF server_fd
  <2> QED
    BY <2>3, <2>4, <2>5, <2>6, <2>7, <2>8 DEF Inv
<1> QED
  BY <1>7, <1>8 DEF Accept, c

\* An event about a client is about no other client.
LEMMA OthersLeft ==
  ASSUME Inv, NEW c \in Clients, fdOf[c] # 0, Event(fdOf[c], Tail(events)),
         events # <<>>
  PROVE  /\ pc = "handle"
         /\ events' \in Seq(Fds)
         /\ BatchInv'
         /\ \A i \in DOMAIN events' :
              /\ fdOf[c] # events'[i]
              /\ \/ events'[i] = server_fd /\ backlog # <<>>
                 \/ \E d \in Clients \ {c} :
                      /\ fdOf[d] = events'[i] /\ events'[i] \in watched
                      /\ pending[d] > 0 \/ link[d] \in {"closed", "reset"}
              /\ events'[i] # server_fd =>
                   \A d \in Clients : fdOf[d] = events'[i] <=> seen[d] = events'[i]
<1>1. /\ events' \in Seq(Fds)
      /\ \A i, j \in DOMAIN events' : events'[i] = events'[j] => i = j
      /\ \A i \in DOMAIN events' :
           /\ events'[i] # fdOf[c]
           /\ Readable(events'[i])
           /\ events'[i] # server_fd =>
                \A d \in Clients : fdOf[d] = events'[i] <=> seen[d] = events'[i]
  BY RestFacts
<1>2. \A i \in DOMAIN events' :
        \/ events'[i] = server_fd /\ backlog # <<>>
        \/ \E d \in Clients \ {c} :
             /\ fdOf[d] = events'[i] /\ events'[i] \in watched
             /\ pending[d] > 0 \/ link[d] \in {"closed", "reset"}
  BY <1>1 DEF Readable
<1>3. pc = "handle"
  BY DEF Event
<1> QED
  BY <1>1, <1>2, <1>3 DEF BatchInv

\* recv() on one connection changes nothing of the others.
LEMMA RecvStep ==
  ASSUME Inv, NEW c \in Clients, Recv(c)
  PROVE  Inv'
<1>1. /\ fdOf[c] # 0 /\ Event(fdOf[c], Tail(events)) /\ events # <<>>
      /\ UNCHANGED <<pc, watched, fdOf, backlog, link, sent, seen>>
  BY DEF Recv, Event
<1>2. /\ pending \in [Clients -> Nat] /\ got \in [Clients -> Nat]
      /\ sent \in [Clients -> Nat]
  BY DEF Inv, TypeOK
<1>3. PICK n : /\ n = Min({BUF_SIZE, pending[c]})
               /\ pending' = [pending EXCEPT ![c] = @ - n]
               /\ got' = [got EXCEPT ![c] = @ + n]
  BY DEF Recv
<1>4. n \in Nat /\ n <= pending[c]
  BY <1>2, <1>3, EpollAssumption, MinOfTwo
<1>5. /\ pending' \in [Clients -> Nat] /\ got' \in [Clients -> Nat]
      /\ pending'[c] = pending[c] - n /\ got'[c] = got[c] + n
      /\ \A d \in Clients : d # c => pending'[d] = pending[d] /\ got'[d] = got[d]
  BY <1>2, <1>3, <1>4
<1>6. TypeOK'
  BY <1>1, <1>5, OthersLeft DEF Inv, TypeOK
<1>7. BacklogInv' /\ OwnDescriptor'
  BY <1>1 DEF Inv, BacklogInv, OwnDescriptor
<1>8. NothingLost'
  <2>1. \A d \in Clients : got'[d] + pending'[d] = got[d] + pending[d]
    BY <1>2, <1>4, <1>5
  <2>2. \A d \in Clients : link[d] = "over" => got'[d] = got[d]
    BY <1>1, <1>5 DEF Inv, OwnDescriptor
  <2> QED
    BY <1>1, <2>1, <2>2 DEF Inv, NothingLost
<1>9. BatchInv' /\ BatchIsFresh'
  <2>1. \A i \in DOMAIN events' : Readable(events[i])'
    BY <1>1, <1>5, OthersLeft DEF Readable
  <2> QED
    BY <1>1, <2>1, OthersLeft DEF BatchIsFresh
<1> QED
  BY <1>6, <1>7, <1>8, <1>9 DEF Inv

\* close() gives back a descriptor that no event left is about.
LEMMA RecvEndStep ==
  ASSUME Inv, NEW c \in Clients, RecvEnd(c)
  PROVE  Inv'
<1>1. /\ fdOf[c] # 0 /\ Event(fdOf[c], Tail(events)) /\ events # <<>>
      /\ link[c] = "closed"
      /\ UNCHANGED <<pc, backlog, pending, sent, got, seen>>
  BY DEF RecvEnd, Event
<1>2. /\ watched' = watched \ {fdOf[c]}
      /\ fdOf' = [fdOf EXCEPT ![c] = 0]
      /\ link' = [link EXCEPT ![c] = "over"]
  BY DEF RecvEnd
<1>3. /\ fdOf' \in [Clients -> Fds] /\ fdOf'[c] = 0
      /\ link' \in [Clients -> Links] /\ link'[c] = "over"
      /\ \A d \in Clients : d # c => fdOf'[d] = fdOf[d] /\ link'[d] = link[d]
  BY <1>2, EpollAssumption DEF Inv, TypeOK, Links, Fds
<1>4. TypeOK'
  BY <1>1, <1>2, <1>3, OthersLeft DEF Inv, TypeOK
<1>5. BacklogInv'
  <2>1. \A i \in DOMAIN backlog : backlog[i] \in Clients /\ backlog[i] # c
    BY <1>1 DEF Inv, TypeOK, BacklogInv
  <2> QED
    BY <1>1, <1>3, <2>1 DEF Inv, BacklogInv
<1>6. OwnDescriptor'
  <2>1. watched' = {fdOf'[d] : d \in Clients} \ {0}
    BY <1>1, <1>2, <1>3 DEF Inv, OwnDescriptor
  <2>2. \A a, b \in Clients : fdOf'[a] = fdOf'[b] /\ fdOf'[a] # 0 => a = b
    BY <1>3 DEF Inv, OwnDescriptor
  <2>3. \A d \in Clients : fdOf'[d] # 0 => link'[d] \in {"open", "closed", "reset"}
    BY <1>3 DEF Inv, OwnDescriptor
  <2> QED
    BY <2>1, <2>2, <2>3 DEF OwnDescriptor
<1>7. NothingLost'
  <2>1. got[c] + pending[c] = sent[c] /\ pending[c] = 0 /\ got[c] \in Nat
    BY <1>1 DEF Inv, TypeOK, NothingLost, RecvEnd, Event
  <2> QED
    BY <1>1, <1>3, <2>1 DEF Inv, NothingLost, Event
<1>8. BatchInv' /\ BatchIsFresh'
  <2> SUFFICES ASSUME NEW i \in DOMAIN events'
               PROVE  /\ Readable(events[i])'
                      /\ events'[i] # server_fd =>
                           \A d \in Clients :
                             fdOf'[d] = events'[i] <=> seen'[d] = events'[i]
    BY <1>1, OthersLeft DEF BatchIsFresh
  <2>1. /\ fdOf[c] # events'[i]
        /\ events'[i] # server_fd =>
             \A d \in Clients : fdOf[d] = events'[i] <=> seen[d] = events'[i]
    BY <1>1, OthersLeft
  <2>2. Readable(events[i])'
    <3>1. CASE events'[i] = server_fd /\ backlog # <<>>
      BY <1>1, <3>1 DEF Readable
    <3>2. ASSUME NEW d \in Clients \ {c}, fdOf[d] = events'[i],
                 events'[i] \in watched,
                 pending[d] > 0 \/ link[d] \in {"closed", "reset"}
          PROVE  Readable(events[i])'
      BY <1>1, <1>2, <1>3, <2>1, <3>2 DEF Readable
    <3> QED
      BY <1>1, <3>1, <3>2, OthersLeft
  <2> QED
    BY <1>1, <1>3, <2>1, <2>2 DEF server_fd
<1> QED
  BY <1>4, <1>5, <1>6, <1>7, <1>8 DEF Inv

\* Every step keeps the invariant.
LEMMA Step ==
  ASSUME Inv, Next
  PROVE  Inv'
<1>1. CASE EndOfBatch
  BY <1>1
  DEF EndOfBatch, Inv, TypeOK, BacklogInv, BatchInv, OwnDescriptor, NothingLost,
      BatchIsFresh
<1>2. ASSUME NEW c \in Clients, RecvFails(c)
      PROVE  Inv'
  <2>1. /\ fdOf[c] # 0 /\ Event(fdOf[c], Tail(events)) /\ events # <<>>
        /\ pc' = "exit" /\ pending' = [d \in Clients |-> 0]
        /\ UNCHANGED <<watched, fdOf, backlog, link, sent, got, seen>>
    BY <1>2 DEF RecvFails, Exit, Event
  <2>2. TypeOK'
    BY <2>1, OthersLeft DEF Inv, TypeOK
  <2> QED
    BY <2>1, <2>2
    DEF Inv, BacklogInv, BatchInv, OwnDescriptor, NothingLost, BatchIsFresh
<1>3. CASE Done
  BY <1>3
  DEF Done, vars, Inv, TypeOK, BacklogInv, BatchInv, OwnDescriptor, NothingLost,
      BatchIsFresh, Readable
<1> QED
  BY <1>1, <1>2, <1>3, WaitStep, AcceptStep, RecvStep, RecvEndStep, ClientStep
  DEF Next, Handle

\* The invariant holds in every reachable state.
LEMMA InvCorrect == Spec => []Inv
<1>1. Init => Inv
  <2> SUFFICES ASSUME Init PROVE Inv
    OBVIOUS
  <2>1. TypeOK
    BY EpollAssumption DEF Init, TypeOK, Fds, Links
  <2>2. BacklogInv /\ BatchInv /\ OwnDescriptor /\ NothingLost /\ BatchIsFresh
    BY EpollAssumption
    DEF Init, BacklogInv, BatchInv, OwnDescriptor, NothingLost, BatchIsFresh
  <2> QED
    BY <2>1, <2>2 DEF Inv
<1>2. Inv /\ [Next]_vars => Inv'
  <2>1. CASE UNCHANGED vars
    BY <2>1
    DEF vars, Inv, TypeOK, BacklogInv, BatchInv, OwnDescriptor, NothingLost,
        BatchIsFresh, Readable
  <2> QED
    BY <2>1, Step
<1> QED
  BY <1>1, <1>2, PTL DEF Spec

\* However connections end and descriptors are used again while a batch is
\* handled, an event is about the connection it was reported for, and neither
\* accept() nor recv() blocks on it.
THEOREM EventsStayTrue == Spec => []BatchIsFresh
BY InvCorrect, PTL DEF Inv

\* While the server runs, what clients sent is received or can still be, all of it
\* before their connection is closed, unless they reset it.
THEOREM AllReceived == Spec => []NothingLost
BY InvCorrect, PTL DEF Inv

\* Only a client that resets its connection, or a want of descriptors, ends the
\* server.
THEOREM EndsOnlyForCause == Spec => []EndsForCause
<1>1. Init => EndsForCause
  BY DEF Init, EndsForCause
<1>2. EndsForCause /\ [Next]_vars => EndsForCause'
  <2> SUFFICES ASSUME EndsForCause, [Next]_vars, pc' = "exit"
               PROVE  EndsForCause'
    BY DEF EndsForCause
  <2>1. CASE pc = "exit"
    <3>1. UNCHANGED <<pc, fdOf, link>>
      BY <2>1 DEF Next, Wait, Handle, Accept, EndOfBatch, Recv, RecvEnd, RecvFails,
                  Event, Done, vars
    <3>2. QED
      BY <2>1, <3>1 DEF EndsForCause, Free
  <2>2. CASE pc # "exit"
    <3>1. Accept \/ \E c \in Clients : RecvFails(c)
      BY <2>2 DEF Next, Wait, Handle, EndOfBatch, Recv, RecvEnd, Client, Connect,
                  Send, Finish, Done, vars
    <3>2. CASE Accept
      <4>1. Free = {} /\ UNCHANGED fdOf
        BY <2>2, <3>2, Zenon DEF Accept, Exit
      <4>2. Free' = {}
        BY <4>1 DEF Free
      <4>3. QED
        BY <4>2 DEF EndsForCause
    <3>3. ASSUME NEW c \in Clients, RecvFails(c) PROVE EndsForCause'
      BY <3>3 DEF RecvFails, EndsForCause
    <3>4. QED
      BY <3>1, <3>2, <3>3
  <2>3. QED
    BY <2>1, <2>2
<1>3. QED
  BY <1>1, <1>2, PTL DEF Spec

\* From accept() until its end a connection has a descriptor of its own, and the
\* epoll instance watches these and no others.
THEOREM NoSharedDescriptor == Spec => []OwnDescriptor
BY InvCorrect, PTL DEF Inv
=============================================================================
