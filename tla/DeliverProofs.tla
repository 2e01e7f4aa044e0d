--------------------------- MODULE DeliverProofs ----------------------------
(***************************************************************************)
(* What Deliver guarantees for every tree of files, every URL and every    *)
(* file -auth, and for every size of pipe, of posted data and of output,   *)
(* however many addresses a server has.  The two parts share their steps   *)
(* and nothing else, so each has an invariant of its own.                  *)
(***************************************************************************)
EXTENDS Deliver, SequenceTheorems, TLAPS

-----------------------------------------------------------------------------
(* The way through a program. *)

\* Before the exchange with a program begins.
Before == {"idle", "pipes", "fork", "spec", "connect", "relight", "fallback"}

GatewayType ==
  /\ gpc \in Before \cup {"write", "read", "ended"}
  /\ proto \in {"cgi", "scgi"}
  /\ size \in Nat /\ wrote \in Nat /\ addr \in Nat
  /\ toProg \in Nat /\ fromProg \in Nat
  /\ taken \in Nat /\ given \in Nat /\ got \in Nat
  /\ sized \in BOOLEAN /\ limit \in Nat /\ part \in BOOLEAN
  /\ zRelight \in BOOLEAN /\ polite \in BOOLEAN
  /\ prog \in {"none", "running", "deaf", "exited"}
  /\ relit \in Nat /\ tries \in Nat

\* What a server threw away: only one that has not read all of its request does.
ThrownAway == proto = "scgi" /\ taken < size /\ prog = "exited"

\* No unit is lost on the way, in either direction; and a polite program exits
\* only when it has read and written everything.
UnitsInv ==
  /\ gpc \in Before =>
       /\ prog = "none" /\ ~polite
       /\ wrote = 0 /\ toProg = 0 /\ taken = 0
       /\ fromProg = 0 /\ given = 0 /\ got = 0 /\ ~sized
  /\ wrote = toProg + taken /\ wrote <= size
  /\ polite /\ gpc = "read" => wrote = size
  /\ given = got + fromProg \/ ThrownAway
  /\ polite => prog # "deaf"
  /\ polite /\ prog = "exited" => taken = size /\ given = MaxOut
  /\ polite /\ given > 0 => taken = size

\* What is read of a reply has the end that its header sets, which is its own end if
\* the program is polite and all of it is wanted.
SizeInv ==
  /\ got = 0 => ~sized
  /\ sized => got <= limit
  /\ sized /\ polite => limit = MaxOut \/ part

\* The addresses are gone through once, and once more after the relight command.
RelightInv ==
  /\ gpc \in {"idle", "pipes", "fork", "spec"} => relit = 0 /\ tries = 0
  /\ relit <= 1 /\ (relit = 1 => ~zRelight)
  /\ tries <= relit + 1
  /\ gpc = "connect" => tries = relit
  /\ gpc = "relight" => zRelight /\ tries = relit + 1
  /\ gpc = "fallback" =>
       ~zRelight /\ tries = relit + 1 /\ addr > Addresses
  /\ result # "none" => gpc = "ended"

GatewayInv ==
  GatewayType /\ UnitsInv /\ SizeInv /\ RelightInv /\ WholeReply /\ RelightOnce

\* It holds at first, before any program is known.
LEMMA GatewayBegins == Init => GatewayInv
<1> SUFFICES ASSUME Init PROVE GatewayInv
  OBVIOUS
<1> USE DEF Init, GatewayInit
<1>1. GatewayType
  BY DEF GatewayType, Before
<1>2. UnitsInv /\ SizeInv
  BY DEF UnitsInv, SizeInv, Before
<1>3. RelightInv
  BY DEF RelightInv
<1>4. WholeReply /\ RelightOnce
  BY DEF WholeReply, RelightOnce
<1> QED
  BY <1>1, <1>2, <1>3, <1>4 DEF GatewayInv

\* A request that ends leaves all but its result as it was.
LEMMA EndKeeps ==
  ASSUME NEW how, End(how)
  PROVE  /\ gpc' = "ended" /\ result' = how
         /\ UNCHANGED <<proto, size, zRelight, zFallback, addr, held, polite,
                        relit, tries, wrote, toProg, fromProg, taken, given, got,
                        sized, limit, part, prog>>
BY DEF End, setup, traffic, header

\* Most ends are neither a reply nor a broken pipe nor the fallback.
LEMMA EndInv ==
  ASSUME GatewayInv, NEW how \in {"error", "alarm"}, End(how), gpc # "ended"
  PROVE  GatewayInv'
BY EndKeeps DEF GatewayInv, GatewayType, UnitsInv, SizeInv, RelightInv, WholeReply,
  RelightOnce, Before, ThrownAway

\* What the program does on its own.
LEMMA ProgramStep ==
  ASSUME GatewayInv, Program
  PROVE  GatewayInv'
<1> USE DEF GatewayInv, GatewayType, UnitsInv, SizeInv, RelightInv, WholeReply,
            RelightOnce, Before, ThrownAway, setup, traffic, header
<1>1. gpc \in {"write", "read"}
  BY DEF Program
<1>2. CASE ProgReads
  BY <1>1, <1>2 DEF ProgReads
<1>3. CASE ProgWrites
  BY <1>1, <1>3 DEF ProgWrites, InputEnded
<1>4. CASE ProgCloses
  BY <1>1, <1>4 DEF ProgCloses
<1>5. CASE ProgExits
  BY <1>1, <1>5 DEF ProgExits, InputEnded
<1> QED
  BY <1>2, <1>3, <1>4, <1>5 DEF Program

\* What the server does from its pipes to its reply.
LEMMA ServerStep ==
  ASSUME GatewayInv, Server
  PROVE  GatewayInv'
<1>1. CASE Pipes
  <2>1. gpc = "pipes" /\ (End("error") \/
          (/\ gpc' = "fork"
           /\ UNCHANGED <<proto, size, zRelight, zFallback, addr, polite, relit,
                          tries, traffic, prog, result>>))
    BY <1>1, Zenon DEF Pipes
  <2>2. CASE End("error")
    BY <2>1, <2>2, EndInv
  <2>3. CASE ~End("error")
    BY <2>1, <2>3 DEF GatewayInv, GatewayType, UnitsInv, SizeInv, RelightInv, WholeReply,
       RelightOnce, Before, ThrownAway, traffic, header
  <2> QED
    BY <2>2, <2>3
<1> USE DEF GatewayInv, GatewayType, UnitsInv, SizeInv, RelightInv, WholeReply,
            RelightOnce, Before, ThrownAway, setup, traffic, header
<1>2. CASE Fork
  BY <1>2 DEF Fork
<1>3. CASE ReadSpec
  BY <1>3, EndInv DEF ReadSpec
<1>4. CASE TryAddress
  BY <1>4 DEF TryAddress
<1>5. CASE NoServer
  BY <1>5 DEF NoServer
<1>6. CASE Relight
  <2>1. CASE End("error")
    BY <1>6, <2>1, EndInv DEF Relight
  <2>2. CASE ~End("error")
    <3>1. /\ gpc = "relight" /\ gpc' = "connect" /\ relit' = relit + 1
          /\ ~zRelight' /\ zRelight' \in BOOLEAN /\ addr' = 1
          /\ UNCHANGED <<proto, size, polite, tries, wrote, toProg, fromProg,
                         taken, given, got, sized, limit, part, prog, result>>
      BY <1>6, <2>2 DEF Relight
    <3>2. relit = 0 /\ tries = 1
      BY <3>1
    <3> QED
      BY <3>1, <3>2
  <2> QED
    BY <2>1, <2>2
<1>7. CASE Fallback
  BY <1>7, EndInv, EndKeeps DEF Fallback
<1>8. CASE Write
  BY <1>8 DEF Write
<1>9. CASE BrokenPipe
  BY <1>9, EndKeeps DEF BrokenPipe
<1>10. CASE WriteEnd
  BY <1>10 DEF WriteEnd
<1>11. CASE Read
  <2>1. CASE got = 0
    <3>1. /\ gpc = "read" /\ gpc' = "read" /\ fromProg > 0
          /\ fromProg' = fromProg - 1 /\ got' = 1 /\ ReadHeader
          /\ UNCHANGED <<proto, size, zRelight, zFallback, addr, polite, relit,
                         tries, wrote, toProg, taken, given, prog, result>>
      BY <1>11, <2>1 DEF Read
    <3>2. CASE sized' = FALSE
      <4>1. limit' = limit /\ part' = part
        BY <3>1, <3>2 DEF ReadHeader
      <4>2. ~sized' /\ sized' \in BOOLEAN
        BY <3>2, Zenon
      <4> QED
        BY <2>1, <3>1, <4>1, <4>2
    <3>3. CASE sized' = TRUE
      <4>1. /\ part' \in BOOLEAN /\ limit' \in 1..(MaxOut + 1)
            /\ polite => limit' = MaxOut \/ part'
        BY <3>1, <3>3 DEF ReadHeader
      <4> QED
        BY <2>1, <3>1, <3>3, <4>1, GatewayAssumption
    <3> QED
      BY <3>1, <3>2, <3>3 DEF ReadHeader
  <2>2. CASE got # 0
    BY <1>11, <2>2 DEF Read, Wanted
  <2> QED
    BY <2>1, <2>2
<1>12. CASE ReadEnd
  BY <1>12, EndKeeps DEF ReadEnd, Wanted
<1> QED
  BY <1>1, <1>2, <1>3, <1>4, <1>5, <1>6, <1>7, <1>8, <1>9, <1>10, <1>11, <1>12
  DEF Server

\* Every step, those of the search included.
LEMMA GatewayStep == GatewayInv /\ [Next]_vars => GatewayInv'
<1> SUFFICES ASSUME GatewayInv, [Next]_vars PROVE GatewayInv'
  OBVIOUS
<1>1. CASE UNCHANGED gatewayVars
  BY <1>1 DEF gatewayVars, setup, traffic, header, GatewayInv, GatewayType, UnitsInv,
    SizeInv, RelightInv, WholeReply, RelightOnce, Before, ThrownAway
<1>2. CASE Begin
  BY <1>2, GatewayAssumption DEF Begin, traffic, header, GatewayInv, GatewayType, UnitsInv,
    SizeInv, RelightInv, WholeReply, RelightOnce, Before, ThrownAway
<1>3. CASE Server
  BY <1>3, ServerStep
<1>4. CASE Program
  BY <1>4, ProgramStep
<1>5. CASE Alarm
  BY <1>5, EndInv DEF Alarm
<1> QED
  BY <1>1, <1>2, <1>3, <1>4, <1>5
  DEF Next, Process, Client, Peer, Timer, Stop, vars

\* In every state.
LEMMA GatewayCorrect == Spec => []GatewayInv
BY GatewayBegins, GatewayStep, PTL DEF Spec

\* A reply that ends holds all that the program wrote, but for what an SCGI server
\* threw away; a broken pipe ends the server only if the program stopped reading;
\* a polite program was given all that was posted, and all it wrote was read
\* (SendScgiRequest(), the CGI branch of ProcessOneRequest(), CgiHandleReply()).
THEOREM RepliesWhole == Spec => []WholeReply
BY GatewayCorrect, PTL DEF GatewayInv

\* The relight command runs at most once, the addresses are tried again after it,
\* and only then does the fallback file stand in for the server
\* (SendScgiRequest()).
THEOREM RelitOnce == Spec => []RelightOnce
BY GatewayCorrect, PTL DEF GatewayInv

-----------------------------------------------------------------------------
(* Paths. *)

\* The first names of a path.
LEMMA PrefixFacts ==
  ASSUME NEW S, NEW p \in Seq(S), NEW k \in 0..Len(p)
  PROVE  /\ SubSeq(p, 1, k) \in Seq(S) /\ Len(SubSeq(p, 1, k)) = k
         /\ \A j \in 0..k : SubSeq(SubSeq(p, 1, k), 1, j) = SubSeq(p, 1, j)
         /\ SubSeq(p, k + 1, Len(p)) \in Seq(S)
         /\ SubSeq(p, 1, k) \o SubSeq(p, k + 1, Len(p)) = p
<1>1. /\ SubSeq(p, 1, k) \in Seq(S) /\ Len(SubSeq(p, 1, k)) = k
      /\ SubSeq(p, k + 1, Len(p)) \in Seq(S)
  OBVIOUS
<1>2. ASSUME NEW j \in 0..k
      PROVE  SubSeq(SubSeq(p, 1, k), 1, j) = SubSeq(p, 1, j)
  <2>1. CASE j = 0
    BY <1>1, <2>1, SubSeqEmpty
  <2>2. CASE j # 0
    BY <1>1, <2>2, SubSeqOfSubSeq
  <2> QED
    BY <2>1, <2>2
<1>3. SubSeq(p, 1, k) \o SubSeq(p, k + 1, Len(p)) = p
  <2>1. SubSeq(p, 1, k) \o SubSeq(p, k + 1, Len(p)) = SubSeq(p, 1, Len(p))
    <3>1. 1 \in 1..Len(p) + 1 /\ k \in 1 - 1..Len(p) /\ Len(p) \in k..Len(p)
      OBVIOUS
    <3> QED
      BY <3>1, ConcatAdjacentSubSeq
  <2> QED
    BY <2>1, SubSeqFull
<1> QED
  BY <1>1, <1>2, <1>3

\* A path with a name appended.
LEMMA AppendFacts ==
  ASSUME NEW S, NEW p \in Seq(S), NEW x \in S
  PROVE  /\ Append(p, x) \in Seq(S) /\ Len(Append(p, x)) = Len(p) + 1
         /\ \A j \in 0..Len(p) : SubSeq(Append(p, x), 1, j) = SubSeq(p, 1, j)
         /\ Front(Append(p, x)) = p /\ Last(Append(p, x)) = x
<1> DEFINE q == Append(p, x)
<1>1. /\ q \in Seq(S) /\ Len(q) = Len(p) + 1 /\ q[Len(p) + 1] = x
      /\ \A i \in 1..Len(p) : q[i] = p[i]
  BY AppendProperties
<1> HIDE DEF q
<1>2. ASSUME NEW j \in 0..Len(p)
      PROVE  SubSeq(q, 1, j) = SubSeq(p, 1, j)
  BY <1>1, SubSeqProperties, SeqEqual
<1>3. SubSeq(q, 1, Len(p)) = p
  BY <1>2, SubSeqFull
<1>4. Front(q) = p /\ Last(q) = x
  BY <1>1, <1>3 DEF Front, Last
<1> QED
  BY <1>1, <1>2, <1>4 DEF q
-----------------------------------------------------------------------------
(* The search for a file. *)

\* What a path and a URL are.
Path == Seq(Names)
AllURLs == [path : Path, slash : BOOLEAN]

LocateType ==
  /\ url \in AllURLs /\ to \in AllURLs
  /\ useHttps \in BOOLEAN
  /\ level \in Nat /\ line \in Nat
  /\ pc \in {"walk", "climb"} => level <= Len(url.path)
  /\ pc # "program" => IsTree(tree)

\* The names in the source are names.
LEMMA OwnNames ==
  /\ "not-found.html" \in Names
  /\ \A k \in DOMAIN azIndex : azIndex[k] \in Names
  /\ DOMAIN azIndex = 1..4
<1>1. DOMAIN azIndex = 1..4
  BY DEF azIndex
<1> QED
  BY <1>1, LocateAssumption

\* The index file that is taken.
FirstUsable(d) == CHOOSE k \in Usable(d) : \A m \in Usable(d) : k <= m

\* The first of the index files that can be read.
LEMMA FirstIndex ==
  ASSUME NEW d, Usable(d) # {}
  PROVE  /\ FirstUsable(d) \in Usable(d)
         /\ \A m \in Usable(d) : FirstUsable(d) <= m
<1>1. Usable(d) \subseteq 1..4
  BY OwnNames DEF Usable
<1>2. \E k \in Usable(d) : \A m \in Usable(d) : k <= m
  <2> DEFINE U == Usable(d)
  <2> HIDE DEF U
  <2>1. U \subseteq 1..4 /\ U # {}
    BY <1>1 DEF U
  <2>2. \E k \in U : \A m \in U : k <= m
    <3>1. CASE 1 \in U
      BY <2>1, <3>1
    <3>2. CASE 1 \notin U /\ 2 \in U
      BY <2>1, <3>2
    <3>3. CASE 1 \notin U /\ 2 \notin U /\ 3 \in U
      BY <2>1, <3>3
    <3>4. CASE 1 \notin U /\ 2 \notin U /\ 3 \notin U
      <4>1. U \subseteq {4}
        BY <2>1, <3>4
      <4>2. 4 \in U
        BY <2>1, <4>1
      <4>3. \A m \in U : 4 <= m
        BY <4>1
      <4> QED
        BY <4>2, <4>3
    <3> QED
      BY <3>1, <3>2, <3>3, <3>4
  <2> QED
    BY <2>2 DEF U
<1> QED
  BY <1>2 DEF FirstUsable

\* What clients ask for has the shape of a URL.
LEMMA URLsAreURLs == URLs \subseteq AllURLs /\ Root \in AllURLs
<1>1. \A u \in URLs : u \in AllURLs
  BY LocateAssumption, Zenon DEF IsURL, AllURLs, Path
<1>2. <<>> \in Path
  BY DEF Path
<1>3. Root \in AllURLs
  BY <1>2 DEF Root, AllURLs
<1> QED
  BY <1>1, <1>3

\* So has what names a file.
LEMMA FileURLs ==
  ASSUME NEW f \in Path
  PROVE  /\ FileURL(f) \in AllURLs
         /\ FileURL(f).path = f /\ FileURL(f).slash = FALSE
BY DEF FileURL, AllURLs

\* What a URL begins with.
LEMMA URLPrefixes ==
  ASSUME url \in AllURLs, NEW k \in 0..Len(url.path)
  PROVE  /\ url.path \in Path /\ Len(url.path) \in Nat
         /\ Prefix(k) \in Path /\ Len(Prefix(k)) = k
         /\ \A j \in 0..k : SubSeq(Prefix(k), 1, j) = Prefix(j)
         /\ Prefix(k) \o SubSeq(url.path, k + 1, Len(url.path)) = url.path
         /\ Prefix(Len(url.path)) = url.path
<1>1. url.path \in Seq(Names) /\ Len(url.path) \in Nat
  BY DEF AllURLs, Path
<1> DEFINE p == url.path
<1> HIDE DEF p
<1>2. /\ SubSeq(p, 1, k) \in Seq(Names) /\ Len(SubSeq(p, 1, k)) = k
      /\ \A j \in 0..k : SubSeq(SubSeq(p, 1, k), 1, j) = SubSeq(p, 1, j)
      /\ SubSeq(p, 1, k) \o SubSeq(p, k + 1, Len(p)) = p
  BY <1>1, PrefixFacts DEF p
<1>3. SubSeq(p, 1, Len(p)) = p
  BY <1>1, SubSeqFull DEF p
<1> QED
  BY <1>1, <1>2, <1>3, Zenon DEF Prefix, Path, p

\* And the rest of it.
Rest(k) == SubSeq(url.path, k + 1, Len(url.path))

LEMMA URLWhole ==
  ASSUME url \in AllURLs, NEW k \in 0..Len(url.path)
  PROVE  Prefix(k) \o Rest(k) = url.path
BY URLPrefixes DEF Rest

\* What is there has its directories, those that are named by the URL included.
LEMMA DirsAbove ==
  ASSUME url \in AllURLs, IsTree(tree), NEW k \in 0..Len(url.path),
         Exists(Prefix(k)), NEW j \in 0..(k - 1)
  PROVE  Exists(Prefix(j)) /\ tree[Prefix(j)] = "dir"
<1>1. Len(Prefix(k)) = k /\ SubSeq(Prefix(k), 1, j) = Prefix(j)
  <2>1. j \in 0..k
    OBVIOUS
  <2> QED
    BY <2>1, URLPrefixes
<1> QED
  BY <1>1 DEF IsTree, Exists

\* The root is there.
LEMMA RootThere ==
  ASSUME IsTree(tree)
  PROVE  Exists(Prefix(0)) /\ tree[Prefix(0)] = "dir"
<1>1. Prefix(0) = <<>>
  BY SubSeqEmpty DEF Prefix
<1> QED
  BY <1>1 DEF IsTree, Exists

\* The types hold at first.
LEMMA LocateBegins == Init => LocateType
BY LocateAssumption, URLsAreURLs DEF Init, LocateInit, LocateType

\* They are kept.
LEMMA LocateTypeStep == LocateType /\ [Next]_vars => LocateType'
<1> SUFFICES ASSUME LocateType, [Next]_vars PROVE LocateType'
  OBVIOUS
<1> USE DEF LocateType, locals, https
<1>0. url.path \in Path
  BY DEF AllURLs
<1>1. CASE UNCHANGED locateVars
  BY <1>1 DEF locateVars
<1>2. CASE Begin
  BY <1>2, URLsAreURLs DEF Begin
<1>3. CASE Follow \/ StayOnHttp
  <2>1. /\ pc' = "request" /\ url' \in AllURLs /\ to' = Root /\ tree' = tree
        /\ level' = 0 /\ line' = 0 /\ pc = "replied"
    BY <1>3, URLsAreURLs DEF Follow, StayOnHttp, NextRequest
  <2>2. useHttps' \in BOOLEAN
    BY <1>3, Zenon DEF Follow, StayOnHttp
  <2> QED
    BY <2>1, <2>2, URLsAreURLs
<1>4. CASE CheckName \/ FindHome
  BY <1>4 DEF CheckName, FindHome, Reply, WalkTo
<1>5. CASE Forward
  BY <1>0, <1>5, URLsAreURLs DEF Path, Forward, Reply, WalkTo, Redirect
<1>6. CASE Missing
  <2>1. level # 0
    BY <1>6, RootThere DEF Missing
  <2> QED
    BY <1>6, <2>1 DEF Missing, WalkTo
<1>7. CASE AtFile \/ Descend
  BY <1>0, <1>7 DEF AtEnd, Path, AtFile, Descend, Found, Reply, WalkTo
<1>8. CASE AtDirectory
  <2>1. \A jj \in DOMAIN azIndex : FileURL(Append(url.path, azIndex[jj])) \in AllURLs
    BY <1>0, OwnNames, AppendFacts, FileURLs DEF Path
  <2>2. Usable(url.path) # {} => FirstUsable(url.path) \in DOMAIN azIndex
    BY FirstIndex DEF Usable
  <2> QED
    BY <1>8, <2>1, <2>2 DEF AtDirectory, FirstUsable, Found, Reply, Redirect
<1>9. CASE Climb
  <2>1. FileURL(notFoundPage(Prefix(level))) \in AllURLs
    <3>1. Prefix(level) \in Seq(Names)
      BY <1>0, <1>9, URLPrefixes DEF Climb, Path
    <3>2. notFoundPage(Prefix(level)) \in Path
      BY <3>1, OwnNames, AppendFacts DEF notFoundPage, Path
    <3> QED
      BY <3>2, FileURLs
  <2> QED
    BY <1>9, <2>1 DEF Climb, Reply, WalkTo, Redirect
<1>10. CASE OpenAuth \/ ReadAuth \/ EndAuth \/ Dispatch
  BY <1>10 DEF OpenAuth, ReadAuth, EndAuth, Dispatch, Reply, Redirect, ProgramFound
<1> QED
  BY <1>1, <1>2, <1>3, <1>4, <1>5, <1>6, <1>7, <1>8, <1>9, <1>10
  DEF Next, Process, Lookup, Client, Peer, Timer, Stop, vars, locateVars

-----------------------------------------------------------------------------
(* The file -auth. *)

\* The lines of -auth that were read decide nothing, and what was decided is right.
AuthInv ==
  /\ auth \in Seq(AuthLines)
  /\ pc \notin {"lines", "dispatch", "cgi", "scgi", "replied"} =>
       auth = <<>> /\ authFile = "none"
  /\ pc = "lines" =>
       /\ authFile = "read"
       /\ line \in 1..(Len(auth) + 1)
       /\ \A m \in 1..(line - 1) : AuthLine(auth[m]) = "next"
  /\ AuthObeyed

\* What the lines before the one that is read say.
LEMMA LinesPassed ==
  ASSUME AuthInv, pc = "lines"
  PROVE  /\ DOMAIN auth = 1..Len(auth) /\ Len(auth) \in Nat
         /\ line \in 1..(Len(auth) + 1)
         /\ \A m \in 1..(line - 1) :
              /\ auth[m] \notin {"mine", "anyone", "bad"}
              /\ auth[m] \in {"https-only", "http-redirect"} => useHttps
BY DEF AuthInv, AuthLine

\* The line that is read decides as all of the file does.
LEMMA Decided ==
  ASSUME AuthInv, pc = "lines"
  PROVE  /\ line <= Len(auth) /\ AuthLine(auth[line]) = "admit" => Admitted
         /\ line <= Len(auth) /\ AuthLine(auth[line]) \in {"refuse", "redirect", "bad"}
              => ~Admitted
         /\ line > Len(auth) => ~Admitted
<1>0. authFile = "read"
  BY DEF AuthInv
<1>1. ASSUME line <= Len(auth), AuthLine(auth[line]) = "admit" PROVE Admitted
  <2>1. Admits(line) /\ line \in DOMAIN auth
    BY <1>1, LinesPassed DEF Admits, AuthLine
  <2> QED
    BY <2>1 DEF Admitted
<1>2. ASSUME line <= Len(auth),
             AuthLine(auth[line]) \in {"refuse", "redirect", "bad"}
      PROVE  ~Admitted
  <2>1. /\ auth[line] \notin {"mine", "anyone"}
        /\ \/ auth[line] = "bad"
           \/ auth[line] \in {"https-only", "http-redirect"} /\ ~useHttps
    BY <1>2 DEF AuthLine
  <2>2. ASSUME NEW k \in DOMAIN auth PROVE ~Admits(k)
    <3>1. k \in 1..Len(auth) /\ line \in 1..Len(auth)
      BY <1>2, LinesPassed
    <3>2. CASE k < line
      BY <3>1, <3>2, LinesPassed DEF Admits
    <3>3. CASE k = line
      BY <2>1, <3>3 DEF Admits
    <3>4. CASE k > line
      <4>1. line \in 1..(k - 1)
        BY <3>1, <3>4
      <4> QED
        BY <2>1, <4>1 DEF Admits
    <3> QED
      BY <3>1, <3>2, <3>3, <3>4
  <2> QED
    BY <1>0, <2>2 DEF Admitted
<1>3. ASSUME line > Len(auth) PROVE ~Admitted
  <2>1. ASSUME NEW k \in DOMAIN auth PROVE ~Admits(k)
    <3>1. k \in 1..(line - 1)
      BY <1>3, LinesPassed
    <3> QED
      BY <3>1, LinesPassed DEF Admits
  <2> QED
    BY <1>0, <2>1 DEF Admitted
<1> QED
  BY <1>1, <1>2, <1>3

\* Nothing is read at first.
LEMMA AuthBegins == Init => AuthInv
BY DEF Init, LocateInit, AuthInv, AuthObeyed

\* Where -auth is not read and not left.
LEMMA AuthElsewhere ==
  ASSUME AuthInv, UNCHANGED <<authFile, auth, useHttps>>,
         pc \notin {"lines", "dispatch", "cgi", "scgi", "replied"},
         pc' \notin {"lines", "dispatch", "cgi", "scgi"},
         pc' = "replied" => tag' \notin {0, 110, 140, 160, 170, 180, 460}
  PROVE  AuthInv'
BY DEF AuthInv, AuthObeyed

\* Where the lines stay.
LEMMA AdmittedStays ==
  ASSUME UNCHANGED <<authFile, auth, useHttps>>
  PROVE  Admitted' = Admitted
BY DEF Admitted, Admits

\* Every step obeys -auth.
LEMMA AuthStep == AuthInv /\ [Next]_vars => AuthInv'
<1> SUFFICES ASSUME AuthInv, [Next]_vars PROVE AuthInv'
  OBVIOUS
<1> USE DEF locals, https
<1>1. CASE UNCHANGED locateVars
  BY <1>1 DEF locateVars, AuthInv, AuthObeyed, Admitted, Admits, AuthLine
<1>2. CASE Begin
  BY <1>2 DEF Begin, AuthInv, AuthObeyed
<1>3. CASE Follow \/ StayOnHttp
  <2>1. pc' = "request" /\ auth' = <<>> /\ authFile' = "none"
    BY <1>3 DEF Follow, StayOnHttp, NextRequest
  <2> QED
    BY <2>1 DEF AuthInv, AuthObeyed
<1>4. CASE CheckName \/ FindHome \/ Forward \/ Missing \/ AtFile \/ Descend
  BY <1>4, AuthElsewhere
  DEF CheckName, FindHome, Forward, Missing, AtFile, Descend, Reply, WalkTo, Redirect,
    Found
<1>5. CASE AtDirectory \/ Climb
  BY <1>5, AuthElsewhere DEF AtDirectory, Climb, Reply, WalkTo, Redirect, Found
<1>6. CASE OpenAuth
  <2>0. CASE pc' = "dispatch"
    <3>1. authFile' \in {"absent", "locked"} /\ auth' = auth
      BY <1>6, <2>0 DEF OpenAuth, Reply
    <3>2. Admitted'
      BY <3>1 DEF Admitted
    <3> QED
      BY <2>0, <3>1, <3>2 DEF AuthInv, AuthObeyed
  <2>1. CASE pc' = "replied"
    BY <1>6, <2>1, AuthElsewhere DEF OpenAuth, Reply
  <2>2. CASE pc' = "lines"
    <3>1. line' = 1 /\ authFile' = "read"
          /\ auth' \in UNION {[1..n -> AuthLines] : n \in 0..MaxLines}
      BY <1>6, <2>2 DEF OpenAuth, Reply
    <3>2. PICK n \in 0..MaxLines : auth' \in [1..n -> AuthLines]
      BY <3>1
    <3>3. n \in Nat
      BY LocateAssumption
    <3>4. auth' \in Seq(AuthLines) /\ Len(auth') = n
      BY <3>2, <3>3
    <3> QED
      BY <2>2, <3>1, <3>3, <3>4 DEF AuthInv, AuthObeyed
  <2> QED
    BY <1>6, <2>0, <2>1, <2>2 DEF OpenAuth, Reply
<1>7. CASE ReadAuth
  <2>0. /\ pc = "lines" /\ line <= Len(auth) /\ UNCHANGED <<authFile, auth, useHttps>>
        /\ AuthLine(auth[line]) \in {"admit", "refuse", "redirect", "bad", "next"}
    BY <1>7 DEF ReadAuth, Reply, Redirect, AuthLine
  <2>1. Admitted' = Admitted
    BY <2>0, AdmittedStays
  <2>2. CASE AuthLine(auth[line]) = "admit"
    BY <1>7, <2>0, <2>1, <2>2, Decided DEF ReadAuth, AuthInv, AuthObeyed
  <2>3. CASE AuthLine(auth[line]) \in {"refuse", "redirect", "bad"}
    <3>1. pc' = "replied" /\ tag' \in {160, 170, 180}
      BY <1>7, <2>3 DEF ReadAuth, Reply, Redirect
    <3> QED
      BY <2>0, <2>1, <2>3, <3>1, Decided DEF AuthInv, AuthObeyed
  <2>4. CASE AuthLine(auth[line]) = "next"
    <3>1. pc' = "lines" /\ line' = line + 1
      BY <1>7, <2>0, <2>4 DEF ReadAuth
    <3>2. \A m \in 1..line : AuthLine(auth[m]) = "next"
      BY <2>0, <2>4, LinesPassed DEF AuthInv
    <3>3. \A m \in 1..line : (AuthLine(auth[m]) = "next")'
      BY <2>0, <3>2 DEF AuthLine
    <3>4. line' \in 1..(Len(auth') + 1) /\ line' - 1 = line
      BY <2>0, <3>1, LinesPassed
    <3> QED
      BY <2>0, <3>1, <3>3, <3>4 DEF AuthInv, AuthObeyed
  <2> QED
    BY <2>0, <2>2, <2>3, <2>4
<1>8. CASE EndAuth
  <2>1. /\ pc = "lines" /\ line > Len(auth) /\ UNCHANGED <<authFile, auth, useHttps>>
        /\ pc' = "replied" /\ tag' = 110
    BY <1>8 DEF EndAuth, Reply
  <2>2. Admitted' = Admitted
    BY <2>1, AdmittedStays
  <2> QED
    BY <2>1, <2>2, Decided DEF AuthInv, AuthObeyed
<1>9. CASE Dispatch
  <2>1. /\ pc = "dispatch" /\ UNCHANGED <<authFile, auth, useHttps>>
        /\ \/ pc' \in {"cgi", "scgi"}
           \/ pc' = "replied" /\ tag' \in {0, 140, 460}
    BY <1>9 DEF Dispatch, Reply, ProgramFound
  <2>2. Admitted' = Admitted
    BY <2>1, AdmittedStays
  <2> QED
    BY <2>1, <2>2 DEF AuthInv, AuthObeyed
<1> QED
  BY <1>1, <1>2, <1>3, <1>4, <1>5, <1>6, <1>7, <1>8, <1>9
  DEF Next, Process, Lookup, Client, Peer, Timer, Stop, vars, locateVars

-----------------------------------------------------------------------------
(* The walk and the search for a page. *)

\* A directory on the way to the URL, the first place where there is nothing, and
\* a directory without a not-found page.
Directory(k) == Exists(Prefix(k)) /\ tree[Prefix(k)] = "dir"
NothingAt(n) ==
  /\ n \in 1..Len(url.path) /\ ~Exists(Prefix(n))
  /\ \A j \in 0..(n - 1) : Directory(j)
NoPage(k) == ~Readable(notFoundPage(Prefix(k)))

\* The walk has come through directories, and the search for a page has passed
\* directories without one.
WalkInv ==
  /\ pc = "walk" => \A j \in 0..(level - 1) : Directory(j)
  /\ pc = "climb" =>
       \E n \in (level + 1)..Len(url.path) :
         NothingAt(n) /\ \A j \in (level + 1)..(n - 1) : NoPage(j)

\* What LookupIsRight says of a file, and of a page in directory k or none.
FileRight ==
  /\ Readable(zFile)
  /\ \A k \in 0..(Len(zFile) - 1) : tree[SubSeq(zFile, 1, k)] = "dir"
  /\ \/ zFile \o zPathInfo = url.path
     \/ /\ zPathInfo = <<>> /\ url.slash /\ Front(zFile) = url.path
        /\ \E k \in DOMAIN azIndex :
             /\ Last(zFile) = azIndex[k]
             /\ \A m \in 1..(k - 1) : ~Readable(Append(url.path, azIndex[m]))

PageRight ==
  /\ ~Exists(Prefix(Deepest + 1))
  /\ LET pages == {k \in Ancestors : Readable(notFoundPage(Prefix(k)))}
     IN  IF tag = 380 THEN pages = {}
         ELSE \E k \in pages : /\ \A m \in pages : m <= k
                               /\ to = FileURL(notFoundPage(Prefix(k)))

LookupInv ==
  /\ pc = "auth" => FileRight
  /\ pc = "replied" /\ tag \in {370, 380} => PageRight

\* LookupIsRight in two parts.
LEMMA LookupParts == LookupIsRight <=> LookupInv
BY DEF LookupIsRight, LookupInv, FileRight, PageRight

\* The nearest directory is the one above the first element that is not there.
LEMMA Nearest ==
  ASSUME url \in AllURLs, IsTree(tree), NEW n, NothingAt(n)
  PROVE  Ancestors = 0..(n - 1) /\ Deepest = n - 1
<1>1. n \in 1..Len(url.path) /\ Len(url.path) \in Nat
  BY DEF NothingAt, AllURLs, Path
<1>2. Ancestors = 0..(n - 1)
  <2>1. ASSUME NEW k \in 0..Len(url.path), Directory(k) PROVE k \in 0..(n - 1)
    <3>1. CASE k = n
      BY <2>1, <3>1 DEF NothingAt, Directory
    <3>2. CASE k > n
      <4>1. n \in 0..(k - 1) /\ Exists(Prefix(k))
        BY <1>1, <2>1, <3>2 DEF Directory
      <4> QED
        BY <4>1, DirsAbove DEF NothingAt
    <3> QED
      BY <1>1, <3>1, <3>2
  <2>2. ASSUME NEW k \in 0..(n - 1) PROVE k \in 0..Len(url.path) /\ Directory(k)
    BY <1>1 DEF NothingAt
  <2>3. Ancestors = {k \in 0..Len(url.path) : Directory(k)}
    BY DEF Ancestors, Directory
  <2> HIDE DEF Directory
  <2> QED
    BY <2>1, <2>2, <2>3
<1>3. Deepest \in 0..(n - 1) /\ \A m \in 0..(n - 1) : m <= Deepest
  <2>1. \E k \in 0..(n - 1) : \A m \in 0..(n - 1) : m <= k
    <3>1. n - 1 \in 0..(n - 1) /\ \A m \in 0..(n - 1) : m <= n - 1
      BY <1>1
    <3> QED
      BY <3>1
  <2> QED
    BY <1>2, <2>1 DEF Deepest
<1> QED
  BY <1>1, <1>2, <1>3

\* The place stays right while nothing that it depends on changes.
LEMMA SamePlace ==
  ASSUME UNCHANGED <<url, tree>>
  PROVE  /\ \A f : Exists(f)' = Exists(f) /\ Readable(f)' = Readable(f)
         /\ \A k : Prefix(k)' = Prefix(k) /\ Directory(k)' = Directory(k)
         /\ \A k : NoPage(k)' = NoPage(k) /\ NothingAt(k)' = NothingAt(k)
         /\ Ancestors' = Ancestors /\ Deepest' = Deepest
<1>1. \A f : Exists(f)' = Exists(f) /\ Readable(f)' = Readable(f)
  BY Zenon DEF Exists, Readable
<1>2. \A k : Prefix(k)' = Prefix(k)
  BY Zenon DEF Prefix
<1>3. \A k : Directory(k)' = Directory(k) /\ NoPage(k)' = NoPage(k)
  BY Zenon DEF Directory, NoPage, Exists, Readable, Prefix, notFoundPage
<1>4. \A k : NothingAt(k)' = NothingAt(k)
  BY Zenon DEF NothingAt, Directory, Exists, Prefix
<1>5. Ancestors' = Ancestors
  BY Zenon DEF Ancestors, Exists, Prefix
<1>6. Deepest' = Deepest
  BY <1>5, Zenon DEF Deepest
<1> QED
  BY <1>1, <1>2, <1>3, <1>4, <1>5, <1>6

\* The walk has not begun at first.
LEMMA WalkBegins == Init => WalkInv /\ LookupInv
BY DEF Init, LocateInit, WalkInv, LookupInv

\* Where there is no walk and no search.
LEMMA WalkElsewhere ==
  ASSUME pc' \notin {"walk", "climb", "auth"},
         pc' = "replied" => tag' \notin {370, 380}
  PROVE  WalkInv' /\ LookupInv'
BY DEF WalkInv, LookupInv

\* The file that ends the walk.
LEMMA FileFound ==
  ASSUME LocateType, WalkInv, AtFile
  PROVE  WalkInv' /\ LookupInv'
<1>1. /\ pc = "walk" /\ UNCHANGED <<url, tree>> /\ url \in AllURLs
      /\ level \in 0..Len(url.path)
  BY DEF AtFile, Reply, Found, locals, https, LocateType
<1>2. CASE ~Readable(Prefix(level))
  BY <1>2, WalkElsewhere DEF AtFile, Reply
<1>3. CASE Readable(Prefix(level))
  <2>1. pc' = "auth" /\ zFile' = Prefix(level) /\ zPathInfo' = Rest(level)
    BY <1>3 DEF AtFile, Found, Rest
  <2>2. Len(Prefix(level)) = level
    BY <1>1, URLPrefixes
  <2>3. \A k \in 0..(level - 1) :
          SubSeq(Prefix(level), 1, k) = Prefix(k) /\ tree[Prefix(k)] = "dir"
    <3>1. \A k \in 0..(level - 1) : Directory(k)
      BY <1>1 DEF WalkInv
    <3>2. \A k \in 0..(level - 1) : SubSeq(Prefix(level), 1, k) = Prefix(k)
      BY <1>1, URLPrefixes
    <3> QED
      BY <3>1, <3>2 DEF Directory
  <2>4. Prefix(level) \o Rest(level) = url.path
    BY <1>1, URLWhole
  <2>5. \A k \in 0..(Len(zFile') - 1) : tree'[SubSeq(zFile', 1, k)] = "dir"
    BY <1>1, <2>1, <2>2, <2>3
  <2>6. Readable(zFile)'
    BY <1>1, <1>3, <2>1 DEF Readable, Exists
  <2>7. (zFile \o zPathInfo = url.path)'
    BY <1>1, <2>1, <2>4
  <2>8. FileRight'
    BY <2>5, <2>6, <2>7, Zenon DEF FileRight
  <2> QED
    BY <2>1, <2>8 DEF WalkInv, LookupInv
<1> QED
  BY <1>2, <1>3

\* The index file that is found.
LEMMA IndexFound ==
  ASSUME LocateType, WalkInv, AtDirectory
  PROVE  WalkInv' /\ LookupInv'
<1> DEFINE jj == FirstUsable(url.path)
           index == Append(url.path, azIndex[jj])
<1>1. pc = "walk" /\ UNCHANGED <<url, tree>> /\ url.path \in Seq(Names) /\ IsTree(tree)
  BY DEF AtDirectory, Reply, Found, Redirect, locals, LocateType, AllURLs, Path
<1>2. CASE pc' # "auth"
  BY <1>2, WalkElsewhere DEF AtDirectory, Reply, Redirect, Found
<1>3. CASE pc' = "auth"
  <2>1. /\ Usable(url.path) # {} /\ url.slash
        /\ zFile' = index /\ zPathInfo' = <<>>
    BY <1>3 DEF AtDirectory, Reply, Redirect, Found, FirstUsable
  <2>2. jj \in Usable(url.path) /\ \A m \in Usable(url.path) : jj <= m
    BY <2>1, FirstIndex
  <2>3. jj \in DOMAIN azIndex /\ Readable(index)
    BY <2>2 DEF Usable
  <2>4. Front(index) = url.path /\ Last(index) = azIndex[jj]
    BY <1>1, <2>3, OwnNames, AppendFacts
  <2>5. \A m \in 1..(jj - 1) : ~Readable(Append(url.path, azIndex[m]))
    <3>1. \A m \in 1..(jj - 1) : m \in DOMAIN azIndex /\ ~(jj <= m)
      BY <2>3, OwnNames
    <3> QED
      BY <2>2, <3>1, Zenon DEF Usable
  <2>6. \A k \in 0..(Len(index) - 1) : tree[SubSeq(index, 1, k)] = "dir"
    BY <1>1, <2>3 DEF IsTree, Readable, Exists
  <2> HIDE DEF jj, index
  <2>7. \A f : Readable(f)' = Readable(f)
    BY <1>1, SamePlace
  <2>8. FileRight'
    <3>1. Readable(zFile)'
      BY <2>1, <2>3, <2>7
    <3>2. \A k \in 0..(Len(zFile') - 1) : tree'[SubSeq(zFile', 1, k)] = "dir"
      BY <1>1, <2>1, <2>6
    <3>3. zPathInfo' = <<>> /\ url'.slash /\ Front(zFile') = url'.path
      BY <1>1, <2>1, <2>4
    <3>4. \E k \in DOMAIN azIndex :
            /\ Last(zFile') = azIndex[k]
            /\ \A m \in 1..(k - 1) : ~Readable(Append(url.path, azIndex[m]))'
      BY <1>1, <2>1, <2>3, <2>4, <2>5, <2>7
    <3> QED
      BY <3>1, <3>2, <3>3, <3>4, Zenon DEF FileRight
  <2> QED
    BY <1>3, <2>8 DEF WalkInv, LookupInv
<1> QED
  BY <1>2, <1>3

\* The search for a page.
LEMMA PageSearched ==
  ASSUME LocateType, WalkInv, Climb
  PROVE  WalkInv' /\ LookupInv'
<1>1. /\ pc = "climb" /\ UNCHANGED <<url, tree>> /\ url \in AllURLs /\ IsTree(tree)
      /\ level \in Nat
  BY DEF Climb, Reply, WalkTo, Redirect, locals, LocateType
<1>2. PICK n \in (level + 1)..Len(url.path) :
        NothingAt(n) /\ \A j \in (level + 1)..(n - 1) : NoPage(j)
  BY <1>1 DEF WalkInv
<1>3. /\ \A f : Exists(f)' = Exists(f) /\ Readable(f)' = Readable(f)
      /\ \A k : Prefix(k)' = Prefix(k)
      /\ \A k : NoPage(k)' = NoPage(k) /\ NothingAt(k)' = NothingAt(k)
      /\ Ancestors' = Ancestors /\ Deepest' = Deepest
  BY <1>1, SamePlace
<1>4. Ancestors = 0..(n - 1) /\ Deepest = n - 1
  BY <1>1, <1>2, Nearest
<1>5. ~Exists(Prefix(Deepest + 1))'
  <2>1. Deepest + 1 = n
    BY <1>2, <1>4
  <2> QED
    BY <1>2, <1>3, <2>1 DEF NothingAt
<1>6. CASE Readable(notFoundPage(Prefix(level)))
  <2>1. /\ pc' = "replied" /\ tag' = 370 /\ level' = level
        /\ to' = FileURL(notFoundPage(Prefix(level)))
    BY <1>6 DEF Climb, Redirect, locals
  <2> DEFINE pages == {k \in Ancestors : Readable(notFoundPage(Prefix(k)))}
  <2>2. level \in pages /\ \A m \in pages : m <= level
    BY <1>1, <1>2, <1>4, <1>6 DEF NoPage
  <2>3. pages' = pages
    BY <1>3 DEF notFoundPage
  <2> HIDE DEF pages
  <2>4. PICK k \in pages' : k = level
    BY <2>2, <2>3
  <2>5. (to = FileURL(notFoundPage(Prefix(k))))' /\ \A m \in pages' : m <= k
    <3>1. to' = FileURL(notFoundPage(Prefix(k)))
      BY <2>1, <2>4
    <3>2. Prefix(k)' = Prefix(k)
      BY <1>3
    <3> QED
      BY <2>2, <2>3, <2>4, <3>1, <3>2 DEF FileURL, notFoundPage
  <2>6. PageRight'
    BY <1>5, <2>1, <2>4, <2>5 DEF PageRight, pages
  <2> QED
    BY <2>1, <2>6 DEF WalkInv, LookupInv
<1>7. CASE ~Readable(notFoundPage(Prefix(level))) /\ level = 0
  <2>1. pc' = "replied" /\ tag' = 380
    BY <1>7 DEF Climb, Reply
  <2>2. \A k \in Ancestors : ~Readable(notFoundPage(Prefix(k)))
    BY <1>2, <1>4, <1>7 DEF NoPage
  <2>3. \A k \in Ancestors' : ~Readable(notFoundPage(Prefix(k)))'
    BY <1>3, <2>2 DEF notFoundPage
  <2>4. PageRight'
    BY <1>5, <2>1, <2>3 DEF PageRight
  <2> QED
    BY <2>1, <2>4 DEF WalkInv, LookupInv
<1>8. CASE ~Readable(notFoundPage(Prefix(level))) /\ level # 0
  <2>1. pc' = "climb" /\ level' = level - 1
    BY <1>8 DEF Climb, WalkTo
  <2>2. n \in (level' + 1)..Len(url.path)
    BY <1>1, <1>2, <1>8, <2>1
  <2>3. \A j \in (level' + 1)..(n - 1) : NoPage(j)
    BY <1>1, <1>2, <1>8, <2>1 DEF NoPage
  <2>4. WalkInv'
    BY <1>1, <1>2, <1>3, <2>1, <2>2, <2>3 DEF WalkInv
  <2> QED
    BY <2>1, <2>4 DEF LookupInv
<1> QED
  BY <1>6, <1>7, <1>8

\* Every step of the walk is right.
LEMMA WalkStep ==
  LocateType /\ WalkInv /\ LookupInv /\ [Next]_vars => WalkInv' /\ LookupInv'
<1> SUFFICES ASSUME LocateType, WalkInv, LookupInv, [Next]_vars
             PROVE  WalkInv' /\ LookupInv'
  OBVIOUS
<1> USE DEF locals, https
<1>1. CASE UNCHANGED locateVars
  <2>1. UNCHANGED <<pc, url, tree, level, zFile, zPathInfo, tag, to>>
    BY <1>1 DEF locateVars
  <2>2. WalkInv'
    BY <2>1, SamePlace DEF WalkInv
  <2>3. FileRight' = FileRight /\ PageRight' = PageRight
    <3>1. FileRight' = FileRight
      BY <2>1 DEF FileRight, Exists, Readable
    <3>2. PageRight' = PageRight
      <4>1. /\ Exists(Prefix(Deepest + 1))' = Exists(Prefix(Deepest + 1))
            /\ {k \in Ancestors : Readable(notFoundPage(Prefix(k)))}' =
                 {k \in Ancestors : Readable(notFoundPage(Prefix(k)))}
            /\ \A k : FileURL(notFoundPage(Prefix(k)))' =
                 FileURL(notFoundPage(Prefix(k)))
        BY <2>1, SamePlace DEF Exists, Readable, notFoundPage, FileURL, Prefix
      <4> QED
        BY <2>1, <4>1, Zenon DEF PageRight
    <3> QED
      BY <3>1, <3>2
  <2> QED
    BY <2>1, <2>2, <2>3 DEF LookupInv
<1>2. CASE Begin \/ Follow \/ StayOnHttp
  BY <1>2, WalkElsewhere DEF Begin, Follow, StayOnHttp, NextRequest
<1>3. CASE CheckName \/ FindHome
  BY <1>3, WalkElsewhere DEF CheckName, FindHome, Reply, WalkTo
<1>4. CASE Forward
  <2>1. CASE pc' # "walk"
    BY <1>4, <2>1, WalkElsewhere DEF Forward, Reply, WalkTo, Redirect
  <2>2. CASE pc' = "walk"
    <3>1. level' \in {0, 1} /\ UNCHANGED <<url, tree>> /\ IsTree(tree)
      BY <1>4, <2>2 DEF Forward, Reply, WalkTo, Redirect, LocateType
    <3>2. Directory(0)'
      BY <3>1, RootThere, SamePlace DEF Directory
    <3>3. \A j \in 0..(level' - 1) : Directory(j)'
      <4>1. ASSUME NEW j \in 0..(level' - 1) PROVE j = 0
        <5>1. CASE level' = 0
          BY <5>1
        <5>2. CASE level' = 1
          BY <5>2
        <5> QED
          BY <3>1, <5>1, <5>2
      <4> QED
        BY <3>2, <4>1
    <3> QED
      BY <2>2, <3>1, <3>3 DEF WalkInv, LookupInv
  <2> QED
    BY <2>1, <2>2
<1>5. CASE Missing
  <2>1. /\ pc' = "climb" /\ level' = level - 1 /\ UNCHANGED <<url, tree>>
        /\ level \in 0..Len(url.path) /\ IsTree(tree) /\ pc = "walk"
    BY <1>5 DEF Missing, WalkTo, LocateType, AllURLs, Path
  <2>2. level # 0
    BY <1>5, <2>1, RootThere DEF Missing
  <2>3. NothingAt(level)
    BY <1>5, <2>1, <2>2 DEF NothingAt, Missing, WalkInv
  <2>4. PICK k \in (level' + 1)..Len(url.path) :
          NothingAt(k) /\ (level' + 1)..(k - 1) = {}
    BY <2>1, <2>2, <2>3
  <2>5. NothingAt(k)'
    BY <2>1, <2>4, SamePlace
  <2> QED
    BY <2>1, <2>4, <2>5 DEF WalkInv, LookupInv
<1>6. CASE Descend
  <2>1. pc = "walk" /\ pc' = "walk" /\ level' = level + 1 /\ UNCHANGED <<url, tree>>
    BY <1>6 DEF Descend, WalkTo
  <2>2. \A j \in 0..(level' - 1) : Directory(j)
    BY <1>6, <2>1 DEF Descend, LocateType, WalkInv, Directory
  <2>3. \A j \in 0..(level' - 1) : Directory(j)'
    BY <2>1, <2>2, SamePlace
  <2> QED
    BY <2>1, <2>3 DEF WalkInv, LookupInv
<1>7. CASE OpenAuth \/ ReadAuth \/ EndAuth \/ Dispatch
  BY <1>7, WalkElsewhere
  DEF OpenAuth, ReadAuth, EndAuth, Dispatch, Reply, Redirect, ProgramFound
<1> QED
  BY <1>1, <1>2, <1>3, <1>4, <1>5, <1>6, <1>7, FileFound, IndexFound, PageSearched
  DEF Next, Process, Lookup, Client, Peer, Timer, Stop, vars, locateVars

-----------------------------------------------------------------------------
(* Redirects. *)

\* A client that follows a redirect to a file finds it.
LeadInv ==
  /\ came \in {370, 410} =>
       /\ ~url.slash /\ Readable(url.path) /\ pc # "climb"
       /\ pc \in {"auth", "lines", "dispatch"} => zFile = url.path
  /\ came = 170 => useHttps
  /\ useHttps => zHttpScheme = "https"
  /\ pc = "replied" /\ tag = 170 => zHttpScheme = "https"
  /\ pc = "replied" /\ tag \in {370, 410} => ~to.slash /\ Readable(to.path)
  /\ pc = "program" => came = 0
  /\ RedirectsLead

\* The walk to a file that is there.
LEMMA WalkToFile ==
  ASSUME LocateType, pc = "walk", Readable(url.path)
  PROVE  /\ level \in 0..Len(url.path) /\ Exists(Prefix(level))
         /\ level = Len(url.path) => Prefix(level) = url.path
         /\ level # Len(url.path) => tree[Prefix(level)] = "dir"
<1> DEFINE n == Len(url.path)
<1>1. /\ url \in AllURLs /\ IsTree(tree) /\ n \in Nat /\ level \in 0..n
  BY DEF LocateType, AllURLs, Path
<1>2. n \in 0..n /\ Prefix(n) = url.path
  BY <1>1, URLPrefixes
<1> HIDE DEF n
<1>3. Exists(Prefix(n))
  BY <1>2 DEF Readable
<1>4. CASE level = n
  BY <1>1, <1>2, <1>3, <1>4 DEF n
<1>5. CASE level # n
  <2>1. level \in 0..(n - 1)
    BY <1>1, <1>5
  <2>2. Exists(Prefix(level)) /\ tree[Prefix(level)] = "dir"
    BY <1>1, <1>2, <1>3, <2>1, DirsAbove DEF n
  <2> QED
    BY <1>1, <1>5, <2>2 DEF n
<1> QED
  BY <1>4, <1>5

\* No redirect was followed at first.
LEMMA LeadBegins == Init => LeadInv
BY DEF Init, LocateInit, LeadInv, RedirectsLead

\* Where the client goes on and nothing was redirected that the invariant is about.
LEMMA LeadKept ==
  ASSUME LeadInv, UNCHANGED <<url, tree, https, came>>,
         pc' \notin {"climb", "program"},
         pc' \in {"auth", "lines", "dispatch"} =>
           pc \in {"auth", "lines", "dispatch"} /\ zFile' = zFile,
         pc' = "replied" =>
           tag' \notin {170, 370, 380, 390, 400, 410, 460}
  PROVE  LeadInv'
<1>1. \A f : Readable(f)' = Readable(f)
  BY SamePlace
<1>2. Readable(url.path)' = Readable(url.path)
  BY DEF Readable, Exists
<1> QED
  BY <1>2 DEF LeadInv, RedirectsLead, https

\* Every step keeps to where a redirect leads.
LEMMA LeadStep == LocateType /\ LeadInv /\ [Next]_vars => LeadInv'
<1> SUFFICES ASSUME LocateType, LeadInv, [Next]_vars PROVE LeadInv'
  OBVIOUS
<1> USE DEF locals, https
<1> DEFINE Sent == came \in {370, 410}
<1>1. CASE UNCHANGED locateVars
  BY <1>1 DEF locateVars, LeadInv, RedirectsLead, Readable, Exists
<1>2. CASE Begin
  BY <1>2 DEF Begin, LeadInv, RedirectsLead
<1>3. CASE StayOnHttp
  BY <1>3 DEF StayOnHttp, NextRequest, LeadInv, RedirectsLead
<1>30. CASE Follow
  <2>1. /\ pc' = "request" /\ url' = to /\ tree' = tree /\ came' = tag
        /\ useHttps' = (zHttpScheme = "https") /\ zHttpScheme' = zHttpScheme
        /\ pc = "replied"
    BY <1>30 DEF Follow, NextRequest
  <2>2. came' = 170 => useHttps'
    BY <2>1 DEF LeadInv
  <2>3. came' \in {370, 410} => ~url'.slash /\ Readable(url.path)'
    BY <2>1 DEF LeadInv, Readable, Exists
  <2> QED
    BY <2>1, <2>2, <2>3 DEF LeadInv, RedirectsLead
<1>4. CASE CheckName \/ FindHome \/ Forward \/ Descend
  BY <1>4, LeadKept DEF CheckName, FindHome, Forward, Descend, Reply, WalkTo, Redirect
<1>5. CASE Missing
  <2>1. ~Sent
    BY <1>5, WalkToFile DEF Missing, LeadInv
  <2> QED
    BY <1>5, <2>1 DEF Missing, WalkTo, LeadInv, RedirectsLead
<1>6. CASE AtFile
  <2>0. /\ pc = "walk" /\ UNCHANGED <<url, tree, https, came>>
        /\ \/ pc' = "auth" /\ zFile' = Prefix(level)
           \/ pc' = "replied" /\ tag' = 390 /\ ~Readable(Prefix(level))
    BY <1>6 DEF AtFile, Found, Reply
  <2>1. Sent => Prefix(level) = url.path
    BY <1>6, WalkToFile DEF AtFile, LeadInv
  <2>2. Readable(url.path)' = Readable(url.path)
    BY <2>0 DEF Readable, Exists
  <2> QED
    BY <2>0, <2>1, <2>2 DEF LeadInv, RedirectsLead
<1>7. CASE AtDirectory
  <2>0. /\ pc = "walk" /\ UNCHANGED <<url, tree, https, came>>
        /\ tree[Prefix(level)] = "dir" /\ level = Len(url.path)
    BY <1>7 DEF AtDirectory, AtEnd, Found, Reply, Redirect
  <2>1. ~Sent
    BY <2>0, WalkToFile DEF LeadInv, Readable
  <2>2. CASE pc' = "replied" /\ tag' = 410
    <3>1. /\ Usable(url.path) # {}
          /\ to' = FileURL(Append(url.path, azIndex[FirstUsable(url.path)]))
      BY <1>7, <2>2 DEF AtDirectory, Found, Reply, Redirect, FirstUsable
    <3>2. Readable(Append(url.path, azIndex[FirstUsable(url.path)]))
      BY <3>1, FirstIndex DEF Usable
    <3>3. ~to'.slash /\ Readable(to.path)'
      BY <2>0, <3>1, <3>2 DEF FileURL, Readable, Exists
    <3> QED
      BY <2>0, <2>1, <2>2, <3>3 DEF LeadInv, RedirectsLead
  <2>3. CASE pc' = "auth" \/ (pc' = "replied" /\ tag' = 400)
    BY <2>0, <2>1, <2>3 DEF LeadInv, RedirectsLead
  <2> QED
    BY <1>7, <2>2, <2>3 DEF AtDirectory, Found, Reply, Redirect
<1>8. CASE Climb
  <2>0. pc = "climb" /\ UNCHANGED <<url, tree, https, came>>
    BY <1>8 DEF Climb, WalkTo, Reply, Redirect
  <2>1. ~Sent
    BY <2>0 DEF LeadInv
  <2>2. CASE pc' = "replied" /\ tag' = 370
    <3>1. /\ Readable(notFoundPage(Prefix(level)))
          /\ to' = FileURL(notFoundPage(Prefix(level)))
      BY <1>8, <2>2 DEF Climb, WalkTo, Reply, Redirect
    <3>2. ~to'.slash /\ Readable(to.path)'
      BY <2>0, <3>1 DEF FileURL, Readable, Exists
    <3> QED
      BY <2>0, <2>1, <2>2, <3>2 DEF LeadInv, RedirectsLead
  <2>3. CASE pc' = "climb" \/ (pc' = "replied" /\ tag' = 380)
    BY <2>0, <2>1, <2>3 DEF LeadInv, RedirectsLead
  <2> QED
    BY <1>8, <2>2, <2>3 DEF Climb, WalkTo, Reply, Redirect
<1>9. CASE OpenAuth \/ EndAuth
  BY <1>9, LeadKept DEF OpenAuth, EndAuth, Reply
<1>10. CASE ReadAuth
  <2>1. CASE pc' = "replied" /\ tag' = 170
    <3>1. /\ ~useHttps /\ zHttpScheme' = "https"
          /\ UNCHANGED <<url, tree, useHttps, came>>
      BY <1>10, <2>1 DEF ReadAuth, Reply, Redirect, AuthLine
    <3>2. Readable(url.path)' = Readable(url.path)
      BY <3>1 DEF Readable, Exists
    <3> QED
      BY <2>1, <3>1, <3>2 DEF LeadInv, RedirectsLead
  <2>2. CASE ~(pc' = "replied" /\ tag' = 170)
    BY <1>10, <2>2, LeadKept DEF ReadAuth, Reply, Redirect
  <2> QED
    BY <2>1, <2>2
<1>11. CASE Dispatch
  <2>0. /\ pc = "dispatch" /\ UNCHANGED <<url, tree, https, zFile, came>>
        /\ \/ pc' \in {"cgi", "scgi"}
           \/ pc' = "replied" /\ tag' \in {0, 140}
           \/ /\ pc' = "replied" /\ tag' = 460
              /\ countSlashes(FileURL(zFile)) # countSlashes(url)
    BY <1>11 DEF Dispatch, Reply, ProgramFound
  <2>1. Sent => countSlashes(FileURL(zFile)) = countSlashes(url)
    BY <2>0 DEF LeadInv, countSlashes, FileURL
  <2>2. Readable(url.path)' = Readable(url.path)
    BY <2>0 DEF Readable, Exists
  <2> QED
    BY <2>0, <2>1, <2>2 DEF LeadInv, RedirectsLead
<1> QED
  BY <1>1, <1>2, <1>3, <1>30, <1>4, <1>5, <1>6, <1>7, <1>8, <1>9, <1>10, <1>11
  DEF Next, Process, Lookup, Client, Peer, Timer, Stop, vars, locateVars

\* All that is invariant about the search.
LocateInv == LocateType /\ AuthInv /\ WalkInv /\ LookupInv /\ LeadInv

\* In every state.
LEMMA LocateCorrect == Spec => []LocateInv
<1>1. Init => LocateInv
  BY LocateBegins, AuthBegins, WalkBegins, LeadBegins DEF LocateInv
<1>2. LocateInv /\ [Next]_vars => LocateInv'
  BY LocateTypeStep, AuthStep, WalkStep, LeadStep DEF LocateInv
<1> QED
  BY <1>1, <1>2, PTL DEF Spec

\* The file that is found, or the page for one that is not, is the one that the
\* walk along the URL should find (ProcessOneRequest()).
THEOREM LookupRight == Spec => []LookupIsRight
<1>1. LocateInv => LookupIsRight
  BY LookupParts DEF LocateInv
<1> QED
  BY <1>1, LocateCorrect, PTL

\* A redirect to an index file, to a not-found page or to https leads there.
THEOREM RedirectsLeadOn == Spec => []RedirectsLead
<1>1. LocateInv => RedirectsLead
  BY DEF LocateInv, LeadInv
<1> QED
  BY <1>1, LocateCorrect, PTL

\* Only who is admitted by -auth gets the file, and only who is not is refused
\* (CheckBasicAuthorization()).
THEOREM AuthKept == Spec => []AuthObeyed
<1>1. LocateInv => AuthObeyed
  BY DEF LocateInv, AuthInv
<1> QED
  BY <1>1, LocateCorrect, PTL

=============================================================================
