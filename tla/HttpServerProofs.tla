-------------------------- MODULE HttpServerProofs --------------------------
(***************************************************************************)
(* What HttpServer guarantees for any number of clients, any range of      *)
(* ports and any limit: the types, the count of children, the port scan,   *)
(* and that the parent leaks no descriptor.                                *)
(***************************************************************************)
EXTENDS HttpServer, FiniteSetTheorems, TLAPS

\* The types need to know that the parent holds a client's descriptor when it
\* forks, so the two are proved together.
Inv == TypeOK /\ NoDescriptorLeak

\* Init establishes Inv and every step keeps it.
LEMMA InvCorrect == Spec => []Inv
<1> USE ServerAssumption DEF Ports, Kids, Locations, ChildStates
<1>1. Init => Inv
  BY DEF Init, Inv, TypeOK, NoDescriptorLeak
<1>2. Inv /\ [Next]_vars => Inv'
  <2> SUFFICES ASSUME Inv, [Next]_vars PROVE Inv'
    OBVIOUS
  <2> USE DEF Inv, TypeOK, NoDescriptorLeak
  <2>1. CASE TryNextPort
    BY <2>1 DEF TryNextPort
  <2>2. CASE Bind
    BY <2>2 DEF Bind
  <2>3. CASE GiveUp \/ Listen
    BY <2>3 DEF GiveUp, Listen
  <2>4. CASE LaunchBrowser
    BY <2>4 DEF LaunchBrowser
  <2>5. CASE CheckLoad \/ Wake \/ Select \/ BuryDone
    BY <2>5 DEF CheckLoad, Wake, Select, BuryDone
  <2>6. CASE Accept \/ AcceptFails
    <3>1. queue # <<>>
      BY <2>6 DEF Accept, AcceptFails
    <3>2. Head(queue) \in Clients /\ Tail(queue) \in Seq(Clients)
      BY <3>1
    <3>3. CASE Accept
      BY <3>2, <3>3 DEF Accept
    <3>4. CASE AcceptFails
      BY <3>2, <3>4 DEF AcceptFails
    <3> QED
      BY <2>6, <3>3, <3>4
  <2>7. CASE Fork \/ ForkFails
    <3>1. fds = {connection} /\ connection \in Clients
      BY <2>7 DEF Fork, ForkFails
    <3>2. CASE Fork
      BY <3>1, <3>2 DEF Fork
    <3>3. CASE ForkFails
      BY <3>1, <3>3 DEF ForkFails
    <3> QED
      BY <2>7, <3>2, <3>3
  <2>8. CASE \E k \in Kids : BuryOne(k)
    BY <2>8 DEF BuryOne
  <2>9. CASE World
    <3>1. ASSUME NEW c \in Clients, Connect(c) PROVE Inv'
      <4>1. queue' \in Seq(Clients)
        BY <3>1 DEF Connect
      <4> QED
        BY <3>1, <4>1 DEF Connect, parentVars
    <3>2. ASSUME NEW k \in Kids, ChildEnds(k) PROVE Inv'
      BY <3>2 DEF ChildEnds, parentVars
    <3> QED
      BY <2>9, <3>1, <3>2 DEF World
  <2>10. CASE UNCHANGED vars
    BY <2>10 DEF vars
  <2> QED
    BY <2>1, <2>2, <2>3, <2>4, <2>5, <2>6, <2>7, <2>8, <2>9, <2>10
    DEF Next, Startup, Loop, Finished
<1> QED
  BY <1>1, <1>2, PTL DEF Spec

-----------------------------------------------------------------------------
\* The children not yet buried are finitely many.
LEMMA UnburiedFinite == IsFiniteSet(Unburied)
<1>1. IsFiniteSet(Kids)
  BY ServerAssumption, FS_AddElement DEF Kids
<1>2. Unburied \in SUBSET Kids
  BY DEF Unburied
<1> QED
  BY <1>1, <1>2, FS_Subset

\* A child that is forked joins Unburied, one that is buried leaves it, one
\* that ends stays in it.
LEMMA UnburiedChanges ==
  ASSUME TypeOK, NEW k \in Kids, NEW s \in ChildStates,
         child' = [child EXCEPT ![k] = s]
  PROVE  Unburied' = IF s \in {"running", "zombie"}
                     THEN Unburied \cup {k} ELSE Unburied \ {k}
BY DEF TypeOK, Unburied, ChildStates

\* No child is forked for somebody who has one: the browser's is forked once,
\* and the connections the parent or the queue holds are without a child and
\* all different.
Fresh ==
  /\ pc \in {"scan", "listen", "page"} => child[Browser] = "none"
  /\ pc = "fork" => child[connection] = "none"
  /\ \A i \in 1..Len(queue) :
       /\ child[queue[i]] = "none"
       /\ pc = "fork" => queue[i] # connection
  /\ \A i, j \in 1..Len(queue) : queue[i] = queue[j] => i = j

\* Every step keeps the descriptors of queued connections distinct.
LEMMA FreshStep == Inv /\ Fresh /\ [Next]_vars => Fresh'
<1> SUFFICES ASSUME Inv, Fresh, [Next]_vars PROVE Fresh'
  OBVIOUS
<1> USE ServerAssumption DEF Inv, TypeOK, Fresh, Kids, ChildStates
<1>1. CASE Startup
  BY <1>1 DEF Startup, TryNextPort, Bind, GiveUp, Listen, LaunchBrowser
<1>2. CASE CheckLoad \/ Wake \/ Select \/ BuryDone
  BY <1>2 DEF CheckLoad, Wake, Select, BuryDone
<1>3. CASE Accept \/ AcceptFails
  <2>1. queue # <<>> /\ pc = "accept"
    BY <1>3 DEF Accept, AcceptFails
  <2>2. /\ Head(queue) = queue[1]
        /\ Len(Tail(queue)) = Len(queue) - 1
        /\ \A i \in 1..Len(Tail(queue)) : Tail(queue)[i] = queue[i + 1]
    BY <2>1
  <2>3. CASE Accept
    BY <2>1, <2>2, <2>3 DEF Accept
  <2>4. CASE AcceptFails
    <3>1. pc' # "fork" /\ pc' = "bury" /\ UNCHANGED child
      BY <2>4 DEF AcceptFails
    <3>2. CASE queue' = Tail(queue)
      BY <2>1, <2>2, <3>1, <3>2
    <3>3. CASE UNCHANGED queue
      BY <3>1, <3>3
    <3> QED
      BY <2>4, <3>2, <3>3 DEF AcceptFails
  <2> QED
    BY <1>3, <2>3, <2>4
<1>4. CASE Fork \/ ForkFails
  BY <1>4 DEF Fork, ForkFails, NoDescriptorLeak
<1>5. ASSUME NEW k \in Kids, BuryOne(k) \/ ChildEnds(k) PROVE Fresh'
  BY <1>5 DEF BuryOne, ChildEnds, parentVars, NoDescriptorLeak
<1>6. ASSUME NEW c \in Clients, Connect(c) PROVE Fresh'
  <2>1. /\ Len(queue') = Len(queue) + 1
        /\ queue'[Len(queue) + 1] = c
        /\ \A i \in 1..Len(queue) : queue'[i] = queue[i] /\ queue[i] # c
    BY <1>6 DEF Connect, QueuedConnections
  <2>2. pc = "fork" => connection # c
    BY <1>6 DEF Connect, NoDescriptorLeak
  <2>3. UNCHANGED <<pc, child, connection>> /\ child[c] = "none"
    BY <1>6 DEF Connect, parentVars
  <2> QED
    BY <2>1, <2>2, <2>3
<1>7. CASE UNCHANGED vars
  BY <1>7 DEF vars
<1> QED
  BY <1>1, <1>2, <1>3, <1>4, <1>5, <1>6, <1>7
  DEF Next, Loop, World, Finished

\* The count the parent keeps is the number of its unburied children whatever
\* the number of connections: no failed fork, no browser child and no order of
\* exits makes it drift.
THEOREM CountIsExact == Spec => []ChildrenCounted
<1>1. Init => Fresh /\ ChildrenCounted
  <2>1. ASSUME Init PROVE Unburied = {}
    BY <2>1 DEF Init, Unburied
  <2> QED
    <3>1. ASSUME Init PROVE ChildrenCounted
      BY <2>1, <3>1, FS_EmptySet DEF Init, ChildrenCounted
    <3>2. ASSUME Init PROVE Fresh
      BY <3>2 DEF Init, Fresh, Kids
    <3> QED
      BY <3>1, <3>2
<1>2. Inv /\ Fresh /\ ChildrenCounted /\ [Next]_vars => ChildrenCounted'
  <2> SUFFICES ASSUME Inv, Fresh, ChildrenCounted, [Next]_vars
               PROVE  ChildrenCounted'
    OBVIOUS
  <2>a. TypeOK
    BY DEF Inv
  <2> USE DEF ChildrenCounted
  <2>1. ASSUME UNCHANGED <<child, nchildren>> PROVE ChildrenCounted'
    BY <2>1 DEF Unburied
  <2>2. ASSUME NEW k \in Kids, child[k] = "none", nchildren' = nchildren + 1,
               child' = [child EXCEPT ![k] = "running"]
        PROVE  ChildrenCounted'
    <3>1. Unburied' = Unburied \cup {k}
      BY <2>a, <2>2, UnburiedChanges DEF ChildStates
    <3>2. k \notin Unburied
      BY <2>2 DEF Unburied
    <3> QED
      BY <2>2, <3>1, <3>2, UnburiedFinite, FS_AddElement
  <2>3. ASSUME NEW k \in Kids, BuryOne(k) PROVE ChildrenCounted'
    <3>1. Unburied' = Unburied \ {k}
      BY <2>a, <2>3, UnburiedChanges DEF BuryOne, ChildStates
    <3>2. k \in Unburied
      BY <2>3 DEF BuryOne, Unburied
    <3>3. nchildren' = nchildren - 1
      BY <2>3 DEF BuryOne
    <3> QED
      BY <3>1, <3>2, <3>3, UnburiedFinite, FS_RemoveElement
  <2>4. ASSUME NEW k \in Kids, ChildEnds(k) PROVE ChildrenCounted'
    <3>1. Unburied' = Unburied \cup {k} /\ k \in Unburied
      BY <2>a, <2>4, UnburiedChanges DEF ChildEnds, ChildStates, Unburied
    <3>2. nchildren' = nchildren
      BY <2>4 DEF ChildEnds, parentVars
    <3> QED
      BY <3>1, <3>2, UnburiedFinite, FS_AddElement
  <2>5. CASE LaunchBrowser
    BY <2>1, <2>2, <2>5 DEF LaunchBrowser, Fresh, Kids
  <2>6. CASE Fork
    <3>1. connection \in Kids /\ child[connection] = "none"
      BY <2>6 DEF Fork, Fresh, Inv, TypeOK, NoDescriptorLeak, Kids
    <3> QED
      BY <2>2, <2>6, <3>1 DEF Fork
  <2>7. CASE TryNextPort \/ Bind \/ GiveUp \/ Listen \/ CheckLoad \/ Wake
             \/ Select \/ Accept \/ AcceptFails \/ ForkFails \/ BuryDone
    BY <2>1, <2>7
    DEF TryNextPort, Bind, GiveUp, Listen, CheckLoad, Wake, Select, Accept,
        AcceptFails, ForkFails, BuryDone
  <2>8. ASSUME NEW c \in Clients, Connect(c) PROVE ChildrenCounted'
    BY <2>1, <2>8 DEF Connect, parentVars
  <2>9. CASE UNCHANGED vars
    BY <2>1, <2>9 DEF vars
  <2> QED
    BY <2>3, <2>4, <2>5, <2>6, <2>7, <2>8, <2>9
    DEF Next, Startup, Loop, World, Finished
<1> QED
  BY <1>1, <1>2, InvCorrect, FreshStep, PTL DEF Spec

\* The parent never leaks the descriptor of a connection, however many come
\* and whichever forks fail.
THEOREM NoLeak == Spec => []NoDescriptorLeak
BY InvCorrect, PTL DEF Inv

\* For every range of ports the scan ends at the first usable one, or gives up
\* when there is none.
ScanInv ==
  /\ FirstUsablePort
  /\ \A p \in Ports : p < iPort => p \in unusable
  /\ listener # 0 => pc # "scan"

\* The port that is served is the first usable one of the range, and the server
\* gives up only if none is: the loop over iPort in http_server().
THEOREM ScanIsRight == Spec => []FirstUsablePort
<1> USE ServerAssumption DEF Inv, TypeOK, ScanInv, FirstUsablePort, Ports
<1>1. Init => ScanInv
  BY DEF Init
<1>2. Inv /\ ScanInv /\ [Next]_vars => ScanInv'
  <2> SUFFICES ASSUME Inv, ScanInv, [Next]_vars PROVE ScanInv'
    OBVIOUS
  <2>1. CASE TryNextPort
    BY <2>1 DEF TryNextPort
  <2>2. CASE Bind
    BY <2>2 DEF Bind
  <2>3. CASE GiveUp
    <3>1. unusable = Ports
      <4>1. \A p \in Ports : p \in unusable
        BY <2>3 DEF GiveUp
      <4> QED
        BY <4>1
    <3> QED
      BY <2>3, <3>1 DEF GiveUp
  <2>4. ASSUME UNCHANGED <<iPort, unusable, listener>>,
               pc # "scan", pc' \notin {"scan", "exit"}
        PROVE  ScanInv'
    BY <2>4
  <2>5. CASE Listen \/ LaunchBrowser \/ Loop
    BY <2>4, <2>5 DEF Listen, LaunchBrowser, Loop, CheckLoad, Wake, Select,
       Accept, AcceptFails, Fork, ForkFails, BuryOne, BuryDone
  <2>6. CASE World \/ UNCHANGED vars
    <3>1. UNCHANGED <<iPort, unusable, listener, pc>>
      BY <2>6 DEF World, Connect, ChildEnds, parentVars, vars
    <3> QED
      BY <3>1
  <2> QED
    BY <2>1, <2>2, <2>3, <2>5, <2>6 DEF Next, Startup, Finished
<1> QED
  BY <1>1, <1>2, InvCorrect, PTL DEF Spec
=============================================================================
