-------------------------- MODULE ConnectionProofs --------------------------
(***************************************************************************)
(* What Connection guarantees for every number of requests per connection  *)
(* and every choice of methods, headers, routes, programs and signals.     *)
(***************************************************************************)
EXTENDS Connection, TLAPS

-----------------------------------------------------------------------------
(* Types. *)

\* The functions that hold the globals.
GlobalFunctions == [Globals -> Requests]

\* A status line keeps the type of the reply.
LEMMA StatusLineType ==
  ASSUME NEW w \in Replies, NEW status \in 0..599,
         NEW who \in {"althttpd", "program"}
  PROVE  StatusLine(w, status, who) \in Replies
<1>1. OneMore(w.lines) \in 0..2
  BY DEF OneMore, Replies
<1>2. /\ w.status \in 0..599 /\ w.by \in {"nobody", "althttpd", "program"}
      /\ w.announce \in {"none", "keep", "close"} /\ w.gzip \in BOOLEAN
      /\ w.body \in {"none", "exact", "short"} /\ w.posted \in Requests
  BY DEF Replies
<1> QED
  BY <1>1, <1>2 DEF StatusLine, Replies

\* So does the Connection header.
LEMMA StartedType ==
  ASSUME NEW w \in Replies, NEW status \in 0..599
  PROVE  Started(w, status) \in Replies
<1>1. StatusLine(w, status, "althttpd") \in Replies
  BY StatusLineType
<1> QED
  BY <1>1 DEF Started, Replies

\* StartResponse() keeps the types of what it changes.
LEMMA StartResponseType ==
  ASSUME TypeOK, NEW status \in 200..599, NEW close,
         StartResponse(status, close)
  PROVE  /\ closeConnection' \in BOOLEAN /\ statusSent' \in BOOLEAN
         /\ replyStatus' \in 0..999 /\ wire' \in Replies
<1>1. closeConnection' \in BOOLEAN /\ statusSent' \in BOOLEAN
  BY ZenonT(20) DEF StartResponse
<1>2. replyStatus' \in 0..999 /\ wire' \in Replies
  <2>1. CASE statusSent
    BY <2>1 DEF StartResponse, TypeOK
  <2>2. CASE ~statusSent
    <3>1. status \in 0..599 /\ wire \in Replies
      BY DEF TypeOK
    <3> QED
      BY <2>2, <3>1, StartedType DEF StartResponse
  <2> QED
    BY <2>1, <2>2
<1> QED
  BY <1>1, <1>2

\* The codes of normal replies are status codes.
LEMMA StatusTypes == {206, 301, 302, 304, 401} \subseteq 200..599
OBVIOUS

\* The tags of the globals: 0 and the current request are among them.
LEMMA TagTypes ==
  ASSUME TypeOK
  PROVE  0 \in Requests /\ nRequest \in Requests /\ global \in GlobalFunctions
BY ConnectionAssumption DEF TypeOK, Requests, GlobalFunctions

\* Assign() keeps the type of the globals.
LEMMA AssignType ==
  ASSUME global \in GlobalFunctions, NEW G, NEW v \in Requests
  PROVE  Assign(G, v) \in GlobalFunctions
BY DEF Assign, GlobalFunctions

\* So does the assignment of a tag to one of them.
LEMMA UpdateType ==
  ASSUME NEW f \in GlobalFunctions, NEW g, NEW v \in Requests
  PROVE  [f EXCEPT ![g] = v] \in GlobalFunctions
BY DEF GlobalFunctions

\* A reply that leads to the log entry keeps the types.
LEMMA LogType ==
  ASSUME TypeOK, NEW r \in {"return", "omit", "exit"}, LogThen(r),
         closeConnection' \in BOOLEAN, statusSent' \in BOOLEAN,
         replyStatus' \in 0..999, wire' \in Replies,
         UNCHANGED <<nRequest, method, ctl, nTimeoutLine, cgi>>,
         global' \in GlobalFunctions
  PROVE  TypeOK'
BY DEF TypeOK, LogThen, ctl, Locations, Continuations, GlobalFunctions

\* An error reply does.
LEMMA FailType ==
  ASSUME TypeOK, NEW status \in 200..599, Fail(status),
         UNCHANGED <<nRequest, method, ctl, nTimeoutLine, cgi>>,
         global' \in GlobalFunctions
  PROVE  TypeOK'
<1>1. StartResponse(status, status \in {403, 503}) /\ LogThen("exit")
  BY DEF Fail
<1>2. /\ closeConnection' \in BOOLEAN /\ statusSent' \in BOOLEAN
      /\ replyStatus' \in 0..999 /\ wire' \in Replies
  BY <1>1, StartResponseType
<1> QED
  BY <1>1, <1>2, LogType

\* An entry of the log has its type.
LEMMA EntryType ==
  ASSUME TypeOK, replyStatus' \in 0..999
  PROVE  Append(log, Entry) \in Seq(Entries)
<1>1. global.zScript \in Requests
  BY DEF TypeOK, Globals
<1>2. Entry \in Entries
  BY <1>1 DEF Entry, Entries, TypeOK
<1> QED
  BY <1>2 DEF TypeOK

\* The signal handler keeps the types.
LEMMA HandleType ==
  ASSUME TypeOK, NEW sig \in AllSignals \cup {"SIGSEGV"}, NEW number \in 1..31,
         Handle(sig, number)
  PROVE  TypeOK'
<1>0. 0 \in Requests /\ global \in GlobalFunctions
  BY TagTypes
<1>1. CASE global.zScript # 0
  <2>1. /\ replyStatus' = 900 + number
        /\ global' = [global EXCEPT !.zPostData = 0]
        /\ log' = IF omitLog THEN log ELSE Append(log, Entry)
    BY <1>1 DEF Handle
  <2>2. global' \in GlobalFunctions
    BY <1>0, <2>1, UpdateType
  <2>3. replyStatus' \in 0..999
    <3>1. 900 + number \in 0..999
      OBVIOUS
    <3> QED
      BY <2>1, <3>1
  <2>4. log' \in Seq(Entries)
    BY <2>1, <2>3, EntryType DEF TypeOK
  <2> QED
    BY <2>2, <2>3, <2>4 DEF Handle, TypeOK, Locations, GlobalFunctions
<1>2. CASE ~(global.zScript # 0)
  BY <1>2 DEF Handle, TypeOK, Locations
<1> QED
  BY <1>1, <1>2

\* The request is read in types: from the entry of ProcessOneRequest() to the
\* end of the POST data.
LEMMA RequestType ==
  ASSUME TypeOK, ForceCloseNeverReturns, Request
  PROVE  TypeOK'
<1> USE DEF reply, ctl
<1>0. 0 \in Requests /\ nRequest \in Requests /\ global \in GlobalFunctions
  BY TagTypes
<1>1. CASE Top
  <2>1. nRequest + 1 \in Requests
    BY <1>1, ConnectionAssumption
    DEF Top, TypeOK, Requests, ForceCloseNeverReturns
  <2> QED
    BY <1>0, <1>1, <2>1
    DEF Top, TypeOK, SetTimeout, Locations, Waiting, NoReply, Replies
<1>2. CASE ReadLine
  <2>1. omitLog' \in BOOLEAN
    BY <1>2, ZenonT(20) DEF ReadLine
  <2> QED
    BY <1>2, <2>1 DEF ReadLine, TypeOK, Locations
<1>3. CASE EndOfInput
  BY <1>3 DEF EndOfInput, TypeOK, Locations
<1>4. CASE RejectLine
  <2>1. global' \in GlobalFunctions
    BY <1>0, <1>4, AssignType DEF RejectLine
  <2>2. PICK status \in {400, 404, 414, 501, 503} : Fail(status)
    BY <1>4 DEF RejectLine, NotFound
  <2> QED
    BY <1>4, <2>1, <2>2, FailType DEF RejectLine
<1>5. CASE ParseLine
  <2>1. global' \in GlobalFunctions
    BY <1>0, <1>5, AssignType, UpdateType DEF ParseLine
  <2>2. closeConnection' \in BOOLEAN
    BY <1>5, ZenonT(20) DEF ParseLine
  <2>3. method' \in {"GET", "HEAD", "POST"}
    BY <1>5, ConnectionAssumption DEF ParseLine
  <2> QED
    BY <1>5, <2>1, <2>2, <2>3
    DEF ParseLine, TypeOK, Locations, Waiting, GlobalFunctions
<1>6. ASSUME NEW h \in Headers, ReadHeader(h)
      PROVE  TypeOK'
  <2>1. global' \in GlobalFunctions
    BY <1>0, <1>6, AssignType, UpdateType DEF ReadHeader
  <2> QED
    BY <1>6, <2>1 DEF ReadHeader, TypeOK, GlobalFunctions
<1>7. CASE ConnectionHeader
  <2>1. closeConnection' \in BOOLEAN
    BY <1>7, ZenonT(20) DEF ConnectionHeader
  <2> QED
    BY <1>7, <2>1 DEF ConnectionHeader, TypeOK
<1>8. CASE RejectHeader
  BY <1>0, <1>8, FailType DEF RejectHeader
<1>9. CASE EndHeaders
  BY <1>9 DEF EndHeaders, TypeOK, Locations
<1>10. CASE RejectRequest
  <2>1. PICK status \in {403, 404, 500, 503} : Fail(status)
    BY <1>10 DEF RejectRequest, NotFound
  <2> QED
    BY <1>0, <1>10, <2>1, FailType DEF RejectRequest
<1>11. CASE BeginPost
  <2>1. global' \in GlobalFunctions
    BY <1>0, <1>11, AssignType, UpdateType DEF BeginPost
  <2> QED
    BY <1>11, <2>1
    DEF BeginPost, TypeOK, SetTimeout, Locations, Waiting, GlobalFunctions
<1>12. CASE ReadPost
  <2>1. global' \in GlobalFunctions
    <3>1. PICK got \in {0, nRequest} :
            global' = [global EXCEPT !.nPostData = got]
      BY <1>12 DEF ReadPost
    <3>2. got \in Requests
      BY <1>0
    <3> QED
      BY <1>0, <3>1, <3>2, UpdateType
  <2> QED
    BY <1>12, <2>1 DEF ReadPost, TypeOK, SetTimeout, Locations, GlobalFunctions
<1>13. CASE NoPost
  BY <1>13 DEF NoPost, TypeOK, SetTimeout, Locations
<1> QED
  BY <1>1, <1>2, <1>3, <1>4, <1>5, <1>6, <1>7, <1>8, <1>9, <1>10, <1>11,
     <1>12, <1>13 DEF Request

\* Routing keeps the types.
LEMMA RouteType ==
  ASSUME TypeOK, Route
  PROVE  TypeOK'
<1> USE DEF reply, ctl
<1>0. 0 \in Requests /\ nRequest \in Requests /\ global \in GlobalFunctions
  BY TagTypes
<1>1. CASE Refuse
  <2>1. PICK status \in {404, 500, 503} : Fail(status)
    BY <1>1 DEF Refuse
  <2> QED
    BY <1>0, <1>1, <2>1, FailType DEF Refuse
<1>2. CASE Redirect
  <2>1. PICK status \in {301, 302} : StartResponse(status, FALSE)
    BY <1>2 DEF Redirect
  <2>2. status \in 200..599
    OBVIOUS
  <2>3. /\ closeConnection' \in BOOLEAN /\ statusSent' \in BOOLEAN
        /\ replyStatus' \in 0..999 /\ wire' \in Replies
    BY <2>1, <2>2, StartResponseType, Zenon
  <2>4. LogThen("return")
        /\ UNCHANGED <<nRequest, method, ctl, nTimeoutLine, cgi>>
        /\ global' \in GlobalFunctions
    BY <1>0, <1>2 DEF Redirect
  <2> QED
    BY <2>3, <2>4, LogType
<1>3. CASE Open
  BY <1>3 DEF Open, TypeOK, Locations
<1>4. CASE Authorize
  <2>1. CASE /\ global' = [global EXCEPT !.zRemoteUser = nRequest]
             /\ pc' = "dispatch" /\ UNCHANGED <<ret, reply>>
    <3>1. global' \in GlobalFunctions
      BY <1>0, <2>1, UpdateType
    <3> QED
      BY <1>4, <2>1, <3>1 DEF Authorize, TypeOK, Locations, GlobalFunctions
  <2>2. ASSUME NEW status \in {301, 401}, StartResponse(status, FALSE),
               LogThen("return"), global' \in GlobalFunctions
        PROVE  TypeOK'
    <3>0. status \in 200..599
      OBVIOUS
    <3>1. /\ closeConnection' \in BOOLEAN /\ statusSent' \in BOOLEAN
          /\ replyStatus' \in 0..999 /\ wire' \in Replies
      BY <2>2, <3>0, StartResponseType, Zenon
    <3>2. UNCHANGED <<nRequest, method, ctl, nTimeoutLine, cgi>>
      BY <1>4 DEF Authorize
    <3> QED
      BY <2>2, <3>1, <3>2, LogType
  <2>3. CASE StartResponse(401, FALSE) /\ LogThen("return") /\ UNCHANGED global
    BY <1>0, <2>2, <2>3
  <2>4. CASE /\ global' = [global EXCEPT !.zHttpScheme = nRequest]
             /\ StartResponse(301, FALSE) /\ LogThen("return")
    BY <1>0, <2>2, <2>4, UpdateType
  <2> QED
    BY <1>4, <2>1, <2>3, <2>4 DEF Authorize
<1>5. CASE BeginFile
  <2>1. global' \in GlobalFunctions
    BY <1>0, <1>5, UpdateType DEF BeginFile
  <2>2. closeConnection' \in BOOLEAN
    BY <1>5, ZenonT(20) DEF BeginFile, TypeOK
  <2> QED
    BY <1>5, <2>1, <2>2
    DEF BeginFile, TypeOK, SetTimeout, Locations, Continuations, GlobalFunctions
<1>6. CASE BeginCgi \/ BeginScgi
  <2>1. PICK r \in {"cgi", "nph", "scgi"} : Begin(r)
    BY <1>6 DEF BeginCgi, BeginScgi
  <2>2. pc' \in Locations /\ ret' \in Continuations
    BY <2>1 DEF Begin, Locations, Waiting, Continuations
  <2>3. cgi' \in [len : BOOLEAN, status : {0, 200, 206, 304, 404}]
    BY <2>1 DEF Begin, NoCgi
  <2>4. QED
    BY <2>1, <2>2, <2>3 DEF Begin, reply, ctl, TypeOK
<1> QED
  BY <1>1, <1>2, <1>3, <1>4, <1>5, <1>6 DEF Route

\* So does the forwarding of POST data.
LEMMA ForwardType ==
  ASSUME TypeOK, ForwardPost \/ ForwardNull
  PROVE  TypeOK'
<1> USE DEF reply, ctl
<1>0. 0 \in Requests /\ nRequest \in Requests /\ global \in GlobalFunctions
  BY TagTypes
<1>1. CASE ForwardPost
  <2>1. global' \in GlobalFunctions
    BY <1>0, <1>1, AssignType DEF ForwardPost
  <2>2. wire' \in Replies
    <3>1. (IF global.nPostData # 0 THEN global.zPostData ELSE 0) \in Requests
      BY <1>0 DEF GlobalFunctions, Globals
    <3>2. wire \in Replies
      BY DEF TypeOK
    <3> QED
      BY <1>1, <3>1, <3>2 DEF ForwardPost, Replies
  <2> QED
    BY <1>1, <2>1, <2>2
    DEF ForwardPost, TypeOK, SetTimeout, Locations, Waiting, Continuations,
        GlobalFunctions
<1>2. CASE ForwardNull
  <2>1. CASE Handle("SIGSEGV", 11)
    BY <1>0, <2>1, HandleType
  <2>2. CASE /\ global' = [global EXCEPT !.nPostData = 0]
             /\ SetTimeout(800)
             /\ pc' = "cgi" /\ ret' = "omit"
             /\ UNCHANGED <<nRequest, method, reply, ctl, cgi>>
    <3>1. global' \in GlobalFunctions
      BY <1>0, <2>2, UpdateType
    <3> QED
      BY <2>2, <3>1
      DEF TypeOK, SetTimeout, Locations, Waiting, Continuations, GlobalFunctions
  <2> QED
    BY <1>2, <2>1, <2>2 DEF ForwardNull
<1> QED
  BY <1>1, <1>2

\* After a reply has begun, content or the log entry follows.
LEMMA ContentType ==
  ASSUME TypeOK, SendContent
  PROVE  pc' \in Locations /\ ret' \in Continuations
BY DEF TypeOK, SendContent, LogThen, Locations, Waiting, Continuations

\* Replies of files and programs keep the types.
LEMMA RespondType ==
  ASSUME TypeOK, Respond
  PROVE  TypeOK'
<1> USE DEF reply, ctl
<1>0. /\ 0 \in Requests /\ nRequest \in Requests /\ global \in GlobalFunctions
      /\ wire \in Replies
  BY TagTypes DEF TypeOK
<1>1. CASE NotModified
  <2>1. StartResponse(304, FALSE) /\ LogThen("return")
    BY <1>1 DEF NotModified
  <2>2. /\ closeConnection' \in BOOLEAN /\ statusSent' \in BOOLEAN
        /\ replyStatus' \in 0..999 /\ wire' \in Replies
    BY <2>1, StatusTypes, StartResponseType, Zenon
  <2> QED
    BY <1>0, <1>1, <2>1, <2>2, LogType DEF NotModified
<1>2. CASE FileGone
  <2>1. PICK status \in {404, 503} : Fail(status)
    BY <1>2 DEF FileGone, NotFound
  <2> QED
    BY <1>0, <1>2, <2>1, FailType DEF FileGone
<1>3. CASE SendPart
  <2>1. /\ closeConnection' \in BOOLEAN /\ statusSent' \in BOOLEAN
        /\ replyStatus' \in 0..999 /\ wire' \in Replies
    BY <1>3, StatusTypes, StartResponseType, Zenon DEF SendPart
  <2>2. pc' \in Locations /\ ret' \in Continuations
    BY <1>3, ContentType DEF SendPart
  <2> QED
    BY <1>3, <2>1, <2>2 DEF SendPart, TypeOK
<1>4. CASE SendWhole
  <2>1. PICK gz \in BOOLEAN :
          /\ replyStatus' = 200 /\ statusSent' = TRUE
          /\ wire' = [Started(wire, 200) EXCEPT !.gzip = gz]
    BY <1>4 DEF SendWhole
  <2>2. wire' \in Replies
    <3>1. Started(wire, 200) \in Replies
      BY <1>0, StartedType
    <3> QED
      BY <2>1, <3>1 DEF Replies
  <2>3. global' \in GlobalFunctions
    BY <1>0, <1>4, UpdateType DEF SendWhole
  <2>4. statusSent' \in BOOLEAN
    BY <2>1, ZenonT(20)
  <2>5. pc' \in Locations /\ ret' \in Continuations
    BY <1>4, ContentType DEF SendWhole
  <2> QED
    BY <1>4, <2>1, <2>2, <2>3, <2>4, <2>5
    DEF SendWhole, TypeOK, GlobalFunctions
<1>5. CASE PipeThrough
  <2>1. StatusLine(wire, 0, "program") \in Replies
    <3>1. 0 \in 0..599
      OBVIOUS
    <3> QED
      BY <1>0, <3>1, StatusLineType
  <2> QED
    BY <1>5, <2>1 DEF PipeThrough, TypeOK, Locations, Waiting
<1>6. CASE CgiLocation
  <2>1. /\ closeConnection' \in BOOLEAN /\ statusSent' \in BOOLEAN
        /\ replyStatus' \in 0..999 /\ wire' \in Replies
    BY <1>6, StatusTypes, StartResponseType, Zenon DEF CgiLocation
  <2>2. global' \in GlobalFunctions
    BY <1>0, <1>6, UpdateType DEF CgiLocation
  <2> QED
    BY <1>6, <2>1, <2>2 DEF CgiLocation, TypeOK, GlobalFunctions
<1>7. CASE CgiLength
  <2>1. cgi \in [len : BOOLEAN, status : {0, 200, 206, 304, 404}]
    BY DEF TypeOK
  <2>2. cgi' = [cgi EXCEPT !.len = TRUE]
    BY <1>7 DEF CgiLength
  <2>3. cgi' \in [len : BOOLEAN, status : {0, 200, 206, 304, 404}]
    BY <2>1, <2>2
  <2> QED
    BY <1>7, <2>3 DEF CgiLength, TypeOK
<1>8. ASSUME NEW code \in CgiCodes, CgiStatus(code)
      PROVE  TypeOK'
  <2>0. code \in {200, 206, 304, 404}
    BY DEF CgiCodes
  <2>1. cgi' \in [len : BOOLEAN, status : {0, 200, 206, 304, 404}]
    BY <1>8, <2>0 DEF CgiStatus, TypeOK
  <2>2. wire' \in Replies
    <3>1. code \in 0..599
      BY <2>0
    <3>2. StatusLine(wire, code, "program") \in Replies
      BY <1>0, <3>1, StatusLineType
    <3> QED
      BY <1>0, <1>8, <3>2 DEF CgiStatus
  <2>3. global' \in GlobalFunctions
    <3>1. \/ global' = [global EXCEPT !.rangeEnd = 0]
          \/ global' = global
      BY <1>8 DEF CgiStatus
    <3> QED
      BY <1>0, <3>1, UpdateType
  <2>4. statusSent' \in BOOLEAN
    <3>1. statusSent' = statusSent \/ statusSent' = TRUE
      BY <1>8, Zenon DEF CgiStatus
    <3>2. statusSent \in BOOLEAN
      BY DEF TypeOK
    <3> QED
      BY <3>1, <3>2, Zenon
  <2>5. replyStatus' \in 0..999
    BY <1>8, <2>0 DEF CgiStatus
  <2> QED
    BY <1>8, <2>1, <2>2, <2>3, <2>4, <2>5
    DEF CgiStatus, TypeOK, GlobalFunctions
<1>9. CASE CgiAbuse
  <2>1. closeConnection' \in BOOLEAN /\ statusSent' \in BOOLEAN
    BY <1>9, ZenonT(20) DEF CgiAbuse
  <2>2. replyStatus' \in 0..999 /\ wire' \in Replies
    BY <1>0, <1>9, StartedType DEF CgiAbuse
  <2>3. LogThen("exit")
        /\ UNCHANGED <<nRequest, method, ctl, nTimeoutLine, cgi>>
        /\ global' \in GlobalFunctions
    BY <1>0, <1>9 DEF CgiAbuse
  <2> QED
    BY <2>1, <2>2, <2>3, LogType
<1>10. CASE CgiEnd
  <2>1. PICK part \in BOOLEAN, body \in {"none", "short", "exact"} :
          LET status == IF part THEN 206 ELSE 200
          IN  /\ replyStatus' = IF statusSent THEN replyStatus ELSE status
              /\ wire' = [IF statusSent THEN wire ELSE Started(wire, status)
                            EXCEPT !.body = body]
    BY <1>10 DEF CgiEnd
  <2>2. replyStatus' \in 0..999
    BY <2>1 DEF TypeOK
  <2>3. wire' \in Replies
    <3>1. Started(wire, 200) \in Replies /\ Started(wire, 206) \in Replies
      BY <1>0, StartedType
    <3> QED
      BY <1>0, <2>1, <3>1 DEF Replies
  <2>4. statusSent' \in BOOLEAN
    BY <1>10, ZenonT(20) DEF CgiEnd
  <2> QED
    BY <1>10, <2>2, <2>3, <2>4 DEF CgiEnd, TypeOK, Locations, Waiting
<1> QED
  BY <1>1, <1>2, <1>3, <1>4, <1>5, <1>6, <1>7, <1>8, <1>9, <1>10 DEF Respond

\* So does the end of a request.
LEMMA EndType ==
  ASSUME TypeOK, Sent \/ WriteLog \/ FinishLog \/ SetOmitLog \/ Exit \/ Flush
  PROVE  TypeOK'
<1> USE DEF reply, ctl
<1>0. 0 \in Requests /\ global \in GlobalFunctions
  BY TagTypes
<1>1. CASE Sent
  BY <1>1 DEF Sent, TypeOK, Locations
<1>2. CASE WriteLog
  <2>1. global' \in GlobalFunctions
    BY <1>0, <1>2, UpdateType DEF WriteLog
  <2>2. replyStatus' \in 0..999
    BY <1>2 DEF WriteLog, TypeOK
  <2>3. log' \in Seq(Entries)
    BY <1>2, <2>2, EntryType DEF WriteLog, TypeOK
  <2> QED
    BY <1>2, <2>1, <2>2, <2>3 DEF WriteLog, TypeOK, Locations, GlobalFunctions
<1>3. CASE FinishLog
  <2>1. statusSent' \in BOOLEAN
    BY <1>3, ZenonT(20) DEF FinishLog, TypeOK
  <2>2. pc' \in Locations
    BY <1>3 DEF FinishLog, Locations
  <2> QED
    BY <1>3, <2>1, <2>2 DEF FinishLog, TypeOK
<1>4. CASE SetOmitLog
  <2>1. omitLog' \in BOOLEAN
    BY <1>4, ZenonT(20) DEF SetOmitLog
  <2> QED
    BY <1>4, <2>1 DEF SetOmitLog, TypeOK, Locations
<1>5. CASE Exit
  <2>1. isExiting' \in BOOLEAN
    BY <1>5, ZenonT(20) DEF Exit
  <2> QED
    BY <1>5, <2>1 DEF Exit, TypeOK, Locations, Waiting
<1>6. CASE Flush
  BY <1>6 DEF Flush, TypeOK, Locations
<1> QED
  BY <1>1, <1>2, <1>3, <1>4, <1>5, <1>6

\* A signal at any place keeps the types.
LEMMA SignalType ==
  ASSUME TypeOK, Interrupt
  PROVE  TypeOK'
<1>1. PICK sig \in Signals : Signal(sig)
  BY DEF Interrupt
<1>2. sig \in AllSignals \cup {"SIGSEGV"}
  BY ConnectionAssumption
<1>3. Handle(sig, 14) \/ Handle(sig, 13) \/ Handle(sig, 24)
  BY <1>1 DEF Signal
<1> QED
  BY <1>2, <1>3, HandleType

-----------------------------------------------------------------------------
(* The forced last request. *)

\* The strengthening of ForceCloseNeverReturns that steps preserve: from the
\* end of the request line on, the forced request has closeConnection set or
\* is on its way to althttpd_exit().
ForcedInv ==
  /\ pc \in {"top", "omit"} => nRequest <= KeepAlive
  /\ forceClose /\ pc \notin {"top", "line", "parse"} =>
       \/ closeConnection
       \/ pc \in {"exit", "flush", "exited"}
       \/ pc \in {"log", "logged"} /\ ret = "exit"

\* The inductive invariant: types rest on ForcedInv, which bounds nRequest.
Inv == TypeOK /\ ForcedInv

\* StartResponse() never takes closeConnection back.
LEMMA CloseKept ==
  ASSUME NEW status, NEW close, StartResponse(status, close), closeConnection
  PROVE  closeConnection'
BY Zenon DEF StartResponse

\* A step of another action than Top keeps ForcedInv if it keeps
\* closeConnection once it is forced, or leads to the exit.
LEMMA ForcedKept ==
  ASSUME Inv, nRequest' = nRequest, pc \notin {"top", "line"},
         pc' \notin {"top", "omit"},
         \/ pc' \in {"exit", "flush", "exited"}
         \/ LogThen("exit")
         \/ /\ pc # "parse"
            /\ forceClose /\ closeConnection => closeConnection'
            /\ ~(pc \in {"log", "logged", "exit", "flush", "exited"})
  PROVE  ForcedInv'
BY Zenon DEF Inv, ForcedInv, forceClose, LogThen

\* Every step keeps ForcedInv.
LEMMA ForcedStep ==
  ASSUME Inv, Next
  PROVE  ForcedInv'
<1> USE DEF reply, ctl
<1>1. CASE Request
  <2>1. CASE Top
    BY <2>1, ConnectionAssumption
    DEF Top, Inv, ForcedInv, TypeOK, Requests
  <2>2. CASE ReadLine \/ EndOfInput
    BY <2>2 DEF ReadLine, EndOfInput, ForcedInv, forceClose
  <2>3. CASE RejectLine \/ RejectHeader \/ RejectRequest
    BY <2>3, ForcedKept
    DEF RejectLine, RejectHeader, RejectRequest, NotFound, Fail, LogThen
  <2>4. CASE ParseLine
    BY <2>4, Zenon DEF ParseLine, ForcedInv, forceClose
  <2>5. ASSUME NEW h, ReadHeader(h)
        PROVE  ForcedInv'
    BY <2>5, ForcedKept DEF ReadHeader
  <2>6. CASE ConnectionHeader
    BY <2>6, ForcedKept, Zenon DEF ConnectionHeader
  <2>7. CASE EndHeaders \/ BeginPost \/ ReadPost \/ NoPost
    BY <2>7, ForcedKept DEF EndHeaders, BeginPost, ReadPost, NoPost
  <2> QED
    BY <1>1, <2>1, <2>2, <2>3, <2>4, <2>5, <2>6, <2>7 DEF Request
<1>2. CASE Route
  <2>1. CASE Refuse
    BY <2>1, ForcedKept DEF Refuse, Fail, LogThen
  <2>2. CASE Redirect
    BY <2>2, ForcedKept, CloseKept DEF Redirect, LogThen
  <2>3. CASE Open \/ BeginCgi \/ BeginScgi
    BY <2>3, ForcedKept DEF Open, BeginCgi, BeginScgi, Begin
  <2>4. CASE Authorize
    <3>1. /\ pc = "route" /\ nRequest' = nRequest
          /\ pc' \in {"dispatch", "log"}
      BY <2>4 DEF Authorize, LogThen
    <3>2. closeConnection => closeConnection'
      <4>1. \/ closeConnection' = closeConnection
            \/ \E status, close : StartResponse(status, close)
        BY <2>4, Zenon DEF Authorize
      <4> QED
        BY <4>1, CloseKept, Zenon
    <3> QED
      BY <3>1, <3>2, ForcedKept
  <2>5. CASE BeginFile
    BY <2>5, ForcedKept DEF BeginFile
  <2> QED
    BY <1>2, <2>1, <2>2, <2>3, <2>4, <2>5 DEF Route
<1>3. CASE ForwardPost
  BY <1>3, ForcedKept DEF ForwardPost
<1>4. CASE ForwardNull
  BY <1>4, ForcedKept DEF ForwardNull, Handle
<1>5. CASE Respond
  <2>1. CASE NotModified
    BY <2>1, ForcedKept, CloseKept DEF NotModified, LogThen
  <2>2. CASE FileGone \/ CgiAbuse
    BY <2>2, ForcedKept DEF FileGone, NotFound, CgiAbuse, Fail, LogThen
  <2>3. CASE SendPart
    BY <2>3, ForcedKept, CloseKept DEF SendPart, SendContent, LogThen
  <2>4. CASE SendWhole
    BY <2>4, ForcedKept DEF SendWhole, SendContent, LogThen
  <2>5. CASE CgiLocation
    BY <2>5, ForcedKept, CloseKept DEF CgiLocation
  <2>6. CASE PipeThrough \/ CgiLength \/ CgiEnd
    BY <2>6, ForcedKept DEF PipeThrough, CgiLength, CgiEnd
  <2>7. ASSUME NEW code, CgiStatus(code)
        PROVE  ForcedInv'
    BY <2>7, ForcedKept DEF CgiStatus
  <2> QED
    BY <1>5, <2>1, <2>2, <2>3, <2>4, <2>5, <2>6, <2>7 DEF Respond
<1>6. CASE Sent \/ WriteLog \/ Exit \/ Flush
  BY <1>6 DEF Sent, WriteLog, Exit, Flush, Inv, ForcedInv, forceClose
<1>7. CASE FinishLog
  BY <1>7, ConnectionAssumption
  DEF FinishLog, Inv, TypeOK, ForcedInv, forceClose, Requests
<1>8. CASE SetOmitLog
  BY <1>8 DEF SetOmitLog, Inv, ForcedInv, forceClose
<1>9. CASE Interrupt
  BY <1>9 DEF Interrupt, Signal, Handle, ForcedInv
<1>10. CASE Exited
  BY <1>10 DEF Exited, vars, Inv, ForcedInv, forceClose
<1> QED
  BY <1>1, <1>2, <1>3, <1>4, <1>5, <1>6, <1>7, <1>8, <1>9, <1>10
  DEF Next, Program

-----------------------------------------------------------------------------
(* The invariant, and what follows from it. *)

\* Inv holds at first and every step keeps it.
LEMMA InvCorrect == Spec => []Inv
<1>1. Init => Inv
  <2>1. ASSUME Init
        PROVE  TypeOK
    <3>1. 0 \in Requests
      BY ConnectionAssumption DEF Requests
    <3>2. /\ closeConnection \in BOOLEAN /\ statusSent \in BOOLEAN
          /\ omitLog \in BOOLEAN /\ isExiting \in BOOLEAN
      BY <2>1, ZenonT(20) DEF Init
    <3>3. /\ wire \in Replies
          /\ cgi \in [len : BOOLEAN, status : {0, 200, 206, 304, 404}]
      BY <2>1, <3>1 DEF Init, NoCgi, NoReply, Replies
    <3>4. global \in [Globals -> Requests]
      BY <2>1, <3>1 DEF Init
    <3>5. log \in Seq(Entries) /\ handling \subseteq AllSignals \cup {"SIGSEGV"}
      BY <2>1 DEF Init
    <3>6. /\ pc \in Locations /\ ret \in Continuations
          /\ nRequest \in Requests /\ method \in {"GET", "HEAD", "POST"}
          /\ replyStatus \in 0..999 /\ nTimeoutLine \in {0} \cup 800..805
      BY <2>1, <3>1 DEF Init, Locations, Continuations
    <3> QED
      BY <3>2, <3>3, <3>4, <3>5, <3>6 DEF TypeOK
  <2>2. ASSUME Init
        PROVE  ForcedInv
    <3>1. pc = "top" /\ nRequest <= KeepAlive
      BY <2>2, ConnectionAssumption DEF Init
    <3> QED
      BY <3>1 DEF ForcedInv
  <2> QED
    BY <2>1, <2>2 DEF Inv
<1>2. Inv /\ [Next]_vars => Inv'
  <2>1. ASSUME Inv, Next
        PROVE  TypeOK'
    <3>1. TypeOK /\ ForceCloseNeverReturns
      BY <2>1 DEF Inv, ForcedInv, ForceCloseNeverReturns
    <3>2. CASE Exited
      BY <3>1, <3>2 DEF Exited, vars, reply, ctl, TypeOK
    <3> QED
      BY <2>1, <3>1, <3>2, RequestType, RouteType, ForwardType, RespondType,
         EndType, SignalType
      DEF Next, Program
  <2>2. ASSUME Inv, UNCHANGED vars
        PROVE  Inv'
    BY <2>2 DEF vars, reply, ctl, Inv, TypeOK, ForcedInv, forceClose
  <2> QED
    BY <2>1, <2>2, ForcedStep DEF Inv
<1> QED
  BY <1>1, <1>2, PTL DEF Spec

\* Every variable of ProcessOneRequest() stays in its range.
THEOREM TypeCorrect == Spec => []TypeOK
BY InvCorrect, PTL DEF Inv

\* The forced last request ends the connection, however many requests a
\* connection is allowed: the loop of main() and its call of
\* ProcessOneRequest(1).
THEOREM ForcedRequestIsLast == Spec => []ForceCloseNeverReturns
<1>1. Inv => ForceCloseNeverReturns
  BY DEF Inv, ForcedInv, ForceCloseNeverReturns
<1> QED
  BY <1>1, InvCorrect, PTL

-----------------------------------------------------------------------------
(* What the request line resets is the request's own, or nothing. *)

\* Where a request is worked on: between its reset and its log entry.
Working == {"headers", "body", "readpost", "route", "dispatch", "file",
            "forward", "nph", "cgi"}

\* The globals that the request line resets are never an earlier request's.  A
\* step of the proof about replies: zAuthArg, zAgent, zHttpHost, zAcceptEncoding
\* and rangeStart are not among them and do survive.
RequestStateIsFresh ==
  pc \in Working => \A g \in Cleared : global[g] \in {0, nRequest}

\* A step inside a request keeps its state fresh if it writes only the tag of
\* the request, or 0.
LEMMA FreshKept ==
  ASSUME RequestStateIsFresh, nRequest' = nRequest, pc \in Working,
         \A g \in Cleared : global'[g] \in {0, nRequest, global[g]}
  PROVE  RequestStateIsFresh'
BY DEF RequestStateIsFresh, Working, Cleared

\* A step that leaves the request is of no concern.
LEMMA FreshLeft ==
  ASSUME pc' \notin Working
  PROVE  RequestStateIsFresh'
BY DEF RequestStateIsFresh, Working

\* Every step keeps the request fresh.
LEMMA FreshStep ==
  ASSUME TypeOK, RequestStateIsFresh, Next
  PROVE  RequestStateIsFresh'
<1> USE DEF reply, ctl
<1>0. global \in GlobalFunctions
  BY TagTypes
<1>1. CASE Request
  <2>1. CASE Top \/ ReadLine \/ EndOfInput \/ RejectLine \/ RejectHeader
             \/ RejectRequest
    BY <2>1, FreshLeft
    DEF Top, ReadLine, EndOfInput, RejectLine, RejectHeader, RejectRequest,
        NotFound, Fail, LogThen, Working
  <2>2. CASE ParseLine
    <3>1. \A g \in Cleared : global'[g] = 0
      BY <2>2 DEF ParseLine, Cleared, Globals, Assign
    <3> QED
      BY <3>1 DEF RequestStateIsFresh, Cleared
  <2>3. ASSUME NEW h, ReadHeader(h)
        PROVE  RequestStateIsFresh'
    <3>1. \A g \in Cleared : global'[g] \in {0, nRequest, global[g]}
      BY <2>3 DEF ReadHeader, Cleared, Globals, Assign
    <3> QED
      BY <2>3, <3>1, FreshKept DEF ReadHeader, Working
  <2>4. CASE ConnectionHeader \/ EndHeaders \/ NoPost
    BY <2>4, FreshKept DEF ConnectionHeader, EndHeaders, NoPost, Working
  <2>5. CASE BeginPost
    <3>1. \A g \in Cleared : global'[g] \in {0, nRequest, global[g]}
      BY <2>5 DEF BeginPost, Cleared, Globals, Assign
    <3> QED
      BY <2>5, <3>1, FreshKept DEF BeginPost, Working
  <2>6. CASE ReadPost
    <3>1. \A g \in Cleared : global'[g] \in {0, nRequest, global[g]}
      BY <1>0, <2>6 DEF ReadPost, GlobalFunctions, Globals, Cleared
    <3> QED
      BY <2>6, <3>1, FreshKept DEF ReadPost, Working
  <2> QED
    BY <1>1, <2>1, <2>2, <2>3, <2>4, <2>5, <2>6 DEF Request
<1>2. CASE Route
  <2>1. CASE Refuse \/ Redirect
    BY <2>1, FreshLeft DEF Refuse, Redirect, Fail, LogThen, Working
  <2>2. CASE Open \/ BeginCgi \/ BeginScgi
    BY <2>2, FreshKept DEF Open, BeginCgi, BeginScgi, Begin, Working
  <2>3. CASE Authorize
    <3>1. \A g \in Cleared : global'[g] \in {0, nRequest, global[g]}
      BY <1>0, <2>3 DEF Authorize, GlobalFunctions, Globals, Cleared
    <3> QED
      BY <2>3, <3>1, FreshKept DEF Authorize, Working
  <2>4. CASE BeginFile
    <3>1. \A g \in Cleared : global'[g] \in {0, nRequest, global[g]}
      BY <1>0, <2>4 DEF BeginFile, GlobalFunctions, Globals, Cleared
    <3> QED
      BY <2>4, <3>1, FreshKept DEF BeginFile, Working
  <2> QED
    BY <1>2, <2>1, <2>2, <2>3, <2>4 DEF Route
<1>3. CASE ForwardPost \/ ForwardNull
  <2>1. CASE ForwardPost
    <3>1. \A g \in Cleared : global'[g] \in {0, nRequest, global[g]}
      BY <1>0, <2>1 DEF ForwardPost, GlobalFunctions, Globals, Cleared, Assign
    <3> QED
      BY <2>1, <3>1, FreshKept DEF ForwardPost, Working
  <2>2. CASE ForwardNull
    <3>1. \A g \in Cleared : global'[g] \in {0, nRequest, global[g]}
      BY <1>0, <2>2 DEF ForwardNull, Handle, GlobalFunctions, Globals, Cleared
    <3> QED
      BY <2>2, <3>1, FreshKept DEF ForwardNull, Handle, Working
  <2> QED
    BY <1>3, <2>1, <2>2
<1>4. CASE Respond
  <2>1. CASE NotModified \/ FileGone \/ PipeThrough \/ CgiAbuse \/ CgiEnd
    BY <2>1, FreshLeft
    DEF NotModified, FileGone, NotFound, PipeThrough, CgiAbuse, CgiEnd, Fail,
        LogThen, Working
  <2>2. CASE SendPart \/ SendWhole
    BY <2>2, FreshLeft DEF SendPart, SendWhole, SendContent, LogThen, Working
  <2>3. CASE CgiLocation
    <3>1. \A g \in Cleared : global'[g] \in {0, nRequest, global[g]}
      BY <1>0, <2>3 DEF CgiLocation, GlobalFunctions, Globals, Cleared
    <3> QED
      BY <2>3, <3>1, FreshKept DEF CgiLocation, Working
  <2>4. CASE CgiLength
    BY <2>4, FreshKept DEF CgiLength, Working
  <2>5. ASSUME NEW code, CgiStatus(code)
        PROVE  RequestStateIsFresh'
    <3>1. \A g \in Cleared : global'[g] \in {0, nRequest, global[g]}
      BY <1>0, <2>5 DEF CgiStatus, GlobalFunctions, Globals, Cleared
    <3> QED
      BY <2>5, <3>1, FreshKept DEF CgiStatus, Working
  <2> QED
    BY <1>4, <2>1, <2>2, <2>3, <2>4, <2>5 DEF Respond
<1>5. CASE Sent \/ WriteLog \/ FinishLog \/ SetOmitLog \/ Exit \/ Flush
  BY <1>5, FreshLeft
  DEF Sent, WriteLog, FinishLog, SetOmitLog, Exit, Flush, Working
<1>6. CASE Interrupt
  BY <1>6, FreshLeft DEF Interrupt, Signal, Handle, Working
<1>7. CASE Exited
  BY <1>7 DEF Exited, vars, RequestStateIsFresh
<1> QED
  BY <1>1, <1>2, <1>3, <1>4, <1>5, <1>6, <1>7 DEF Next, Program

LEMMA FreshCorrect == Spec => []RequestStateIsFresh
<1>1. Init => RequestStateIsFresh
  BY DEF Init, RequestStateIsFresh, Working
<1>2. TypeOK /\ RequestStateIsFresh /\ [Next]_vars => RequestStateIsFresh'
  <2>1. CASE UNCHANGED vars
    BY <2>1 DEF vars, reply, ctl, RequestStateIsFresh
  <2> QED
    BY <2>1, FreshStep
<1> QED
  BY <1>1, <1>2, TypeCorrect, PTL DEF Spec

-----------------------------------------------------------------------------
(* The course of a request.  A step belongs to one stretch of it; what the   *)
(* lemmas of this part leave open about a step, the proofs below look up in  *)
(* its definition.                                                           *)

\* The request line is refused or taken apart.
LEMMA ParseGoes ==
  ASSUME RejectLine \/ ParseLine
  PROVE  pc = "parse" /\ pc' \in {"headers", "log"}
<1>1. CASE RejectLine
  BY <1>1 DEF RejectLine, NotFound, Fail, LogThen
<1>2. CASE ParseLine
  BY <1>2 DEF ParseLine
<1> QED
  BY <1>1, <1>2

\* Where a request goes: its stretches, and what joins them.
LEMMA RequestGoes ==
  ASSUME Request
  PROVE  \/ Top \/ ReadLine \/ EndOfInput \/ RejectLine \/ ParseLine
         \/ pc = "headers" /\ pc' \in {"headers", "body", "log"}
         \/ pc \in {"body", "readpost"} /\ pc' \in {"readpost", "route", "log"}
<1>1. CASE ConnectionHeader \/ RejectHeader \/ EndHeaders
  BY <1>1 DEF ConnectionHeader, RejectHeader, EndHeaders, Fail, LogThen
<1>2. CASE \E h \in Headers \ {"Connection"} : ReadHeader(h)
  BY <1>2 DEF ReadHeader
<1>3. CASE RejectRequest \/ BeginPost \/ ReadPost \/ NoPost
  BY <1>3
  DEF RejectRequest, BeginPost, ReadPost, NoPost, NotFound, Fail, LogThen
<1> QED
  BY <1>1, <1>2, <1>3 DEF Request

LEMMA RouteGoes ==
  ASSUME Route
  PROVE  /\ pc \in {"route", "dispatch"}
         /\ pc' \in {"dispatch", "file", "forward", "log"}
BY DEF Route, Refuse, Redirect, Open, Authorize, BeginFile, BeginCgi, BeginScgi,
       Begin, LogThen, Fail

LEMMA RespondGoes ==
  ASSUME Respond
  PROVE  pc \in {"file", "nph", "cgi"} /\ pc' \in {"cgi", "send", "log"}
BY DEF Respond, NotModified, FileGone, SendPart, SendWhole, SendContent,
       PipeThrough, CgiLocation, CgiLength, CgiStatus, CgiAbuse, CgiEnd,
       NotFound, Fail, LogThen

LEMMA ForwardGoes ==
  ASSUME ForwardPost \/ ForwardNull
  PROVE  pc = "forward" /\ (pc' \in {"nph", "cgi"} \/ Handle("SIGSEGV", 11))
BY DEF ForwardPost, ForwardNull

\* Where entries are omitted.
Muted == {"top", "line", "exit", "flush", "exited"}

\* Where the entry of the request has been made, or no longer will be.
Done == {"logged", "omit", "top", "exit", "flush", "exited"}

\* Where no request line has been taken apart yet, or all is over.
Nameless == {"line", "parse", "exit", "flush", "exited"}

\* Where the POST data of a request are not there yet, or no longer.
Freed == {"top", "line", "parse", "headers", "body", "logged", "omit"}

\* Each of these is left in one way, and the last one is entered in one way.
LEMMA WaysOut ==
  ASSUME Next
  PROVE  /\ pc \in Muted /\ pc' \notin Muted => ReadLine
         /\ pc \in Done /\ pc' \notin Done => Top
         /\ pc \in Nameless /\ pc' \notin Nameless => RejectLine \/ ParseLine
         /\ pc' \in {"line", "parse"} => Top \/ ReadLine
         /\ pc' \in Freed => pc \in Freed \/ WriteLog
<1> USE DEF reply, ctl, Muted, Done, Nameless, Freed
<1>1. CASE Request
  BY <1>1, RequestGoes, ParseGoes DEF Top, ReadLine, EndOfInput
<1>2. CASE Route \/ Respond
  BY <1>2, RouteGoes, RespondGoes
<1>3. CASE ForwardPost \/ ForwardNull
  BY <1>3, ForwardGoes DEF Handle
<1>4. CASE Sent \/ WriteLog \/ FinishLog \/ SetOmitLog \/ Exit \/ Flush
  BY <1>4 DEF Sent, WriteLog, FinishLog, SetOmitLog, Exit, Flush
<1>5. CASE Interrupt \/ Exited
  BY <1>5 DEF Interrupt, Signal, Handle, Exited, vars
<1> QED
  BY <1>1, <1>2, <1>3, <1>4, <1>5 DEF Next, Program

-----------------------------------------------------------------------------
(* The log.  Most steps leave it alone, so the first lemmas say which do not. *)

\* Entries are made by MakeLogEntry(), called at the end of a request or by the
\* signal handler; requests begin at the top of ProcessOneRequest() only.
LEMMA WhoLogs ==
  ASSUME Next
  PROVE  \/ log' = log /\ (nRequest' = nRequest \/ Top)
         \/ WriteLog
         \/ \E sig : \E number \in {11, 13, 14, 24} : Handle(sig, number)
<1> USE DEF reply, ctl
<1>1. CASE Request
  BY <1>1
  DEF Request, Top, ReadLine, EndOfInput, RejectLine, ParseLine, ReadHeader,
      ConnectionHeader, RejectHeader, EndHeaders, RejectRequest, BeginPost,
      ReadPost, NoPost
<1>2. CASE Route
  BY <1>2
  DEF Route, Refuse, Redirect, Open, Authorize, BeginFile, BeginCgi, BeginScgi,
      Begin
<1>3. CASE Respond
  BY <1>3
  DEF Respond, NotModified, FileGone, SendPart, SendWhole, PipeThrough,
      CgiLocation, CgiLength, CgiStatus, CgiAbuse, CgiEnd
<1>4. CASE \/ ForwardPost \/ ForwardNull \/ Sent \/ FinishLog \/ SetOmitLog
           \/ Exit \/ Flush \/ Interrupt \/ Exited
  BY <1>4
  DEF ForwardPost, ForwardNull, Sent, FinishLog, SetOmitLog, Exit, Flush,
      Interrupt, Signal, Exited, vars
<1> QED
  BY <1>1, <1>2, <1>3, <1>4 DEF Next, Program

\* The URL is set by the request line, and by nothing else.
LEMMA WhoNames ==
  ASSUME TypeOK, Next
  PROVE  \/ global'.zScript = global.zScript
         \/ RejectLine \/ ParseLine
<1> USE DEF reply, ctl, GlobalFunctions, Globals, Assign
<1>0. global \in GlobalFunctions
  BY TagTypes
<1>1. CASE Request
  <2>1. ASSUME NEW h \in Headers, ReadHeader(h)
        PROVE  global'.zScript = global.zScript
    <3>1. "zScript" \notin SetBy[h]
      BY ConnectionAssumption DEF SetBy
    <3> QED
      BY <1>0, <2>1, <3>1 DEF ReadHeader
  <2>2. CASE \E h \in Headers \ {"Connection"} : ReadHeader(h)
    BY <2>1, <2>2
  <2>3. CASE Top \/ ReadLine \/ EndOfInput \/ ConnectionHeader
    BY <1>0, <2>3 DEF Top, ReadLine, EndOfInput, ConnectionHeader
  <2>4. CASE \/ RejectHeader \/ EndHeaders \/ RejectRequest
             \/ BeginPost \/ ReadPost \/ NoPost
    BY <1>0, <2>4
    DEF RejectHeader, EndHeaders, RejectRequest, BeginPost, ReadPost, NoPost
  <2> QED
    BY <1>1, <2>2, <2>3, <2>4 DEF Request
<1>2. CASE Route
  BY <1>0, <1>2
  DEF Route, Refuse, Redirect, Open, Authorize, BeginFile, BeginCgi, BeginScgi,
      Begin
<1>3. CASE Respond
  <2>1. \/ global' = global
        \/ global' = [global EXCEPT !.rangeStart = 0]
        \/ global' = [global EXCEPT !.rangeEnd = 0]
    BY <1>3
    DEF Respond, NotModified, FileGone, SendPart, SendWhole, PipeThrough,
        CgiLocation, CgiLength, CgiStatus, CgiAbuse, CgiEnd
  <2> QED
    BY <1>0, <2>1
<1>4. CASE \/ ForwardPost \/ ForwardNull \/ Sent \/ WriteLog \/ FinishLog
           \/ SetOmitLog \/ Exit \/ Flush \/ Interrupt \/ Exited
  BY <1>0, <1>4
  DEF ForwardPost, ForwardNull, Sent, WriteLog, FinishLog, SetOmitLog, Exit,
      Flush, Interrupt, Signal, Handle, Exited, vars
<1> QED
  BY <1>1, <1>2, <1>3, <1>4 DEF Next, Program

\* From a request line on, entries are not omitted.
OmitInv == omitLog => pc \in Muted

LEMMA OmitStep ==
  ASSUME OmitInv, Next
  PROVE  OmitInv'
<1> USE DEF reply, ctl
<1>1. CASE Top \/ SetOmitLog
  BY <1>1 DEF Top, SetOmitLog, OmitInv, Muted
<1>2. CASE ReadLine
  BY <1>2, Zenon DEF ReadLine, OmitInv
<1>3. CASE ~(Top \/ SetOmitLog \/ ReadLine)
  <2>1. omitLog' = omitLog
    <3>1. CASE Request
      BY <1>3, <3>1
      DEF Request, EndOfInput, RejectLine, ParseLine, ReadHeader,
          ConnectionHeader, RejectHeader, EndHeaders, RejectRequest, BeginPost,
          ReadPost, NoPost
    <3>2. CASE Route
      BY <3>2
      DEF Route, Refuse, Redirect, Open, Authorize, BeginFile, BeginCgi,
          BeginScgi, Begin
    <3>3. CASE Respond
      BY <3>3
      DEF Respond, NotModified, FileGone, SendPart, SendWhole, PipeThrough,
          CgiLocation, CgiLength, CgiStatus, CgiAbuse, CgiEnd
    <3>4. CASE \/ ForwardPost \/ ForwardNull \/ Sent \/ WriteLog \/ FinishLog
               \/ Exit \/ Flush \/ Interrupt \/ Exited
      BY <3>4
      DEF ForwardPost, ForwardNull, Sent, WriteLog, FinishLog, Exit, Flush,
          Interrupt, Signal, Handle, Exited, vars
    <3> QED
      BY <1>3, <3>1, <3>2, <3>3, <3>4 DEF Next, Program
  <2> QED
    BY <1>3, <2>1, WaysOut, Zenon DEF OmitInv
<1> QED
  BY <1>1, <1>2, <1>3

\* The URL is that of the request, or before it is known that of the one before.
ScriptInv ==
  /\ global.zScript \in {nRequest, nRequest - 1}
  /\ pc \notin Nameless => global.zScript = nRequest

\* The entries are of the requests so far; that of the present request is not
\* there before Done.
OrderInv ==
  /\ \A i \in DOMAIN log : log[i].req <= nRequest
  /\ pc \notin Done => \A i \in DOMAIN log : log[i].req < nRequest

LogInv ==
  /\ OmitInv /\ ScriptInv /\ OrderInv
  /\ OnlySignalsRepeat /\ EntryNamesUrl

\* MakeLogEntry() as seen in the log: at most one entry, of this request with
\* the URL that is known, before which the log may have one of the same request
\* only if a signal handler makes it.
LEMMA EntryAdded ==
  ASSUME TypeOK, LogInv, replyStatus' \in 0..999,
         log' = log \/ log' = Append(log, Entry),
         nRequest' = nRequest,
         \/ replyStatus' >= 900
         \/ pc \notin Done /\ pc \notin Nameless
  PROVE  /\ OnlySignalsRepeat' /\ EntryNamesUrl'
         /\ \A i \in DOMAIN log' : log'[i].req <= nRequest'
<1>1. CASE log' = log
  BY <1>1 DEF LogInv, OrderInv, OnlySignalsRepeat, EntryNamesUrl
<1>2. CASE log' = Append(log, Entry)
  <2> DEFINE n == Len(log) + 1
  <2>1. /\ log \in Seq(Entries) /\ Entry \in Entries
        /\ nRequest \in Nat /\ global.zScript \in Nat
    BY ConnectionAssumption DEF TypeOK, Entry, Entries, Globals, Requests
  <2>2. /\ DOMAIN log = 1..Len(log) /\ Len(log) \in Nat
        /\ DOMAIN log' = 1..n
        /\ log'[n] = Entry
        /\ \A i \in 1..Len(log) : log'[i] = log[i] /\ log[i] \in Entries
    BY <1>2, <2>1
  <2>3. /\ Entry.req = nRequest /\ Entry.script = global.zScript
        /\ Entry.status = replyStatus'
    BY DEF Entry
  <2>4. \A i \in 1..Len(log) : log[i].req \in Int
    BY <2>2 DEF Entries, Requests
  <2>5. OnlySignalsRepeat'
    <3> SUFFICES ASSUME NEW i \in 1..n, NEW j \in 1..n, i < j
                 PROVE  \/ log'[i].req < log'[j].req
                        \/ log'[i].req = log'[j].req /\ log'[j].status >= 900
      BY <2>2 DEF OnlySignalsRepeat
    <3>1. CASE j = n
      <4>1. i \in 1..Len(log) /\ log'[i] = log[i] /\ log'[j] = Entry
        BY <2>2, <3>1
      <4>2. log[i].req <= nRequest /\ (pc \notin Done => log[i].req < nRequest)
        BY <2>2, <4>1 DEF LogInv, OrderInv
      <4> QED
        BY <2>1, <2>3, <2>4, <4>1, <4>2
    <3>2. CASE j # n
      <4>1. i \in 1..Len(log) /\ j \in 1..Len(log)
        BY <2>2, <3>2
      <4> QED
        BY <2>2, <4>1 DEF LogInv, OnlySignalsRepeat
    <3> QED
      BY <3>1, <3>2
  <2>6. EntryNamesUrl'
    <3> SUFFICES ASSUME NEW i \in 1..n, log'[i].script # log'[i].req
                 PROVE  log'[i].status >= 900 /\ log'[i].script = log'[i].req - 1
      BY <2>2 DEF EntryNamesUrl
    <3>1. CASE i = n
      BY <2>1, <2>2, <2>3, <3>1 DEF LogInv, ScriptInv
    <3>2. CASE i # n
      BY <2>2, <3>2 DEF LogInv, EntryNamesUrl
    <3> QED
      BY <3>1, <3>2
  <2>7. \A i \in 1..n : log'[i].req <= nRequest
    <3> SUFFICES ASSUME NEW i \in 1..n
                 PROVE  log'[i].req <= nRequest
      OBVIOUS
    <3>1. CASE i = n
      BY <2>1, <2>2, <2>3, <3>1
    <3>2. CASE i # n
      BY <2>2, <3>2 DEF LogInv, OrderInv
    <3> QED
      BY <3>1, <3>2
  <2> QED
    BY <2>2, <2>5, <2>6, <2>7
<1> QED
  BY <1>1, <1>2

\* Every step keeps the URL right.
LEMMA ScriptStep ==
  ASSUME TypeOK, ScriptInv, Next
  PROVE  ScriptInv'
<1> USE DEF reply, ctl
<1>0. global \in GlobalFunctions /\ nRequest \in Nat
  BY TagTypes, ConnectionAssumption DEF Requests
<1>1. CASE RejectLine \/ ParseLine
  <2>1. global'.zScript = nRequest /\ nRequest' = nRequest
    BY <1>0, <1>1
    DEF RejectLine, ParseLine, Assign, GlobalFunctions, Globals
  <2> QED
    BY <2>1 DEF ScriptInv
<1>2. CASE Top
  BY <1>0, <1>2 DEF Top, ScriptInv, Nameless
<1>3. CASE ~(RejectLine \/ ParseLine \/ Top)
  <2>1. nRequest' = nRequest
    BY <1>3, WhoLogs DEF WriteLog, Handle
  <2>2. global'.zScript = global.zScript
    BY <1>3, WhoNames
  <2>3. pc' \notin Nameless => pc \notin Nameless
    BY <1>3, WaysOut
  <2> QED
    BY <2>1, <2>2, <2>3 DEF ScriptInv
<1> QED
  BY <1>1, <1>2, <1>3

\* Every step keeps the log in order.
LEMMA LogStep ==
  ASSUME TypeOK, TypeOK', LogInv, Next
  PROVE  LogInv'
<1> USE DEF reply, ctl
<1>0. nRequest \in Nat /\ replyStatus' \in 0..999
  BY TagTypes, ConnectionAssumption DEF Requests, TypeOK
<1>1. OmitInv' /\ ScriptInv'
  BY OmitStep, ScriptStep DEF LogInv
<1>2. CASE log' = log /\ (nRequest' = nRequest \/ Top)
  <2>1. nRequest' = nRequest \/ nRequest' = nRequest + 1
    BY <1>2 DEF Top
  <2>2. \A i \in DOMAIN log : log[i] \in Entries
    BY DEF TypeOK
  <2>3. \A i \in DOMAIN log : log[i].req \in Int
    BY <2>2 DEF Entries, Requests
  <2>4. \A i \in DOMAIN log' : log'[i].req <= nRequest'
    BY <1>0, <1>2, <2>1, <2>3 DEF LogInv, OrderInv
  <2>5. ASSUME pc' \notin Done
        PROVE  \A i \in DOMAIN log' : log'[i].req < nRequest'
    <3>1. CASE Top
      BY <1>0, <1>2, <2>3, <3>1 DEF LogInv, OrderInv, Top
    <3>2. CASE ~Top
      BY <1>2, <2>5, <3>2, WaysOut DEF LogInv, OrderInv
    <3> QED
      BY <3>1, <3>2
  <2> QED
    BY <1>1, <1>2, <2>4, <2>5
    DEF LogInv, OrderInv, OnlySignalsRepeat, EntryNamesUrl
<1>3. CASE WriteLog
  <2>1. /\ pc = "log" /\ pc' \in Done /\ nRequest' = nRequest
        /\ log' = log \/ log' = Append(log, Entry)
    BY <1>3 DEF WriteLog, Done
  <2>2. pc \notin Done /\ pc \notin Nameless
    BY <2>1 DEF Done, Nameless
  <2> QED
    BY <1>0, <1>1, <2>1, <2>2, EntryAdded DEF LogInv, OrderInv
<1>4. ASSUME NEW sig, NEW number \in {11, 13, 14, 24}, Handle(sig, number)
      PROVE  LogInv'
  <2>1. /\ pc' \in Done /\ nRequest' = nRequest
        /\ \/ log' = log
           \/ log' = Append(log, Entry) /\ replyStatus' = 900 + number
    BY <1>4 DEF Handle, Done
  <2>2. CASE log' = log
    BY <1>1, <2>1, <2>2
    DEF LogInv, OrderInv, OnlySignalsRepeat, EntryNamesUrl
  <2>3. CASE log' = Append(log, Entry) /\ replyStatus' = 900 + number
    <3>1. replyStatus' >= 900
      BY <2>3
    <3> QED
      BY <1>0, <1>1, <2>1, <2>3, <3>1, EntryAdded DEF LogInv, OrderInv
  <2> QED
    BY <2>1, <2>2, <2>3
<1> QED
  BY <1>2, <1>3, <1>4, WhoLogs

-----------------------------------------------------------------------------
(* Nothing goes unlogged. *)

Logged == \E i \in DOMAIN log : log[i].req = nRequest

\* Requests are numbered from 1; nothing is sent before the request line is taken
\* apart; and a request that is done is in the log if it was answered.
LoggedInv ==
  /\ pc \notin Done => nRequest > 0
  /\ pc \in {"line", "parse"} => wire.lines = 0
  /\ pc \in Done /\ wire.lines > 0 /\ ret # "nolog" => Logged

\* How a request comes to be done.
LEMMA WaysIn ==
  ASSUME Next, pc' \in Done
  PROVE  \/ WriteLog \/ EndOfInput
         \/ Sent /\ ret = "nolog"
         \/ \E sig : \E number \in {11, 13, 14, 24} : Handle(sig, number)
         \/ pc \in Done /\ UNCHANGED <<ret, wire, log, nRequest>>
<1> USE DEF reply, ctl, Done
<1>1. CASE Request
  BY <1>1, RequestGoes, ParseGoes DEF Top, ReadLine
<1>2. CASE Route \/ Respond
  BY <1>2, RouteGoes, RespondGoes
<1>3. CASE ForwardPost \/ ForwardNull
  BY <1>3, ForwardGoes
<1>4. CASE Sent \/ FinishLog \/ SetOmitLog \/ Exit \/ Flush
  BY <1>4 DEF Sent, FinishLog, SetOmitLog, Exit, Flush
<1>5. CASE Interrupt \/ Exited
  BY <1>5 DEF Interrupt, Signal, Exited, vars
<1> QED
  BY <1>1, <1>2, <1>3, <1>4, <1>5 DEF Next, Program

\* An entry made is there, and it stays.
LEMMA EntryStays ==
  ASSUME TypeOK, TypeOK', nRequest' = nRequest
  PROVE  /\ log' = Append(log, Entry) => Logged'
         /\ Logged /\ (log' = log \/ log' = Append(log, Entry)) => Logged'
<1>1. log \in Seq(Entries) /\ Entry.req = nRequest
  BY DEF TypeOK, Entry
<1>2. ASSUME log' = Append(log, Entry)
      PROVE  /\ Len(log) + 1 \in DOMAIN log' /\ log'[Len(log) + 1] = Entry
             /\ \A i \in DOMAIN log : i \in DOMAIN log' /\ log'[i] = log[i]
  BY <1>1, <1>2 DEF Entry
<1> QED
  BY <1>1, <1>2 DEF Logged

\* Every step keeps what is answered logged.
LEMMA LoggedStep ==
  ASSUME TypeOK, TypeOK', LogInv, LoggedInv, Next
  PROVE  LoggedInv'
<1> USE DEF reply, ctl
<1>0. nRequest \in Nat
  BY ConnectionAssumption DEF Requests, TypeOK
<1>1. nRequest' = nRequest \/ Top
  BY WhoLogs DEF WriteLog, Handle
<1>2. pc' \notin Done => nRequest' > 0
  <2>1. CASE Top
    BY <1>0, <2>1 DEF Top
  <2>2. CASE ~Top
    BY <1>1, <2>2, WaysOut DEF LoggedInv
  <2> QED
    BY <2>1, <2>2
<1>3. pc' \in {"line", "parse"} => wire'.lines = 0
  <2>1. CASE Top
    BY <2>1 DEF Top, NoReply
  <2>2. CASE ReadLine
    BY <2>2 DEF ReadLine, LoggedInv
  <2> QED
    BY <2>1, <2>2, WaysOut
<1>4. ASSUME pc' \in Done, wire'.lines > 0, ret' # "nolog"
      PROVE  Logged'
  <2>1. CASE WriteLog
    <3>1. log' = Append(log, Entry) /\ nRequest' = nRequest
      BY <2>1 DEF WriteLog, LogInv, OmitInv, Muted
    <3> QED
      BY <3>1, EntryStays
  <2>2. CASE EndOfInput
    BY <1>4, <2>2 DEF EndOfInput, LoggedInv
  <2>3. CASE Sent /\ ret = "nolog"
    BY <1>4, <2>3 DEF Sent
  <2>4. ASSUME NEW sig, NEW number \in {11, 13, 14, 24}, Handle(sig, number)
        PROVE  Logged'
    <3>1. UNCHANGED <<nRequest, wire, ret>>
      BY <2>4 DEF Handle
    <3>2. CASE pc \in Done
      <4>1. Logged /\ (log' = log \/ log' = Append(log, Entry))
        BY <1>4, <2>4, <3>1, <3>2 DEF Handle, LoggedInv
      <4> QED
        BY <3>1, <4>1, EntryStays
    <3>3. CASE pc \notin Done
      <4>1. pc \notin {"line", "parse"}
        BY <1>4, <3>1 DEF LoggedInv
      <4>2. global.zScript # 0 /\ ~omitLog
        BY <1>0, <3>3, <4>1
        DEF LoggedInv, LogInv, ScriptInv, OmitInv, Nameless, Done, Muted
      <4>3. log' = Append(log, Entry)
        BY <2>4, <4>2 DEF Handle
      <4> QED
        BY <3>1, <4>3, EntryStays
    <3> QED
      BY <3>2, <3>3
  <2>5. CASE pc \in Done /\ UNCHANGED <<ret, wire, log, nRequest>>
    BY <1>4, <2>5, EntryStays DEF LoggedInv
  <2> QED
    BY <1>4, <2>1, <2>2, <2>3, <2>4, <2>5, WaysIn
<1> QED
  BY <1>2, <1>3, <1>4 DEF LoggedInv

\* The invariants of the log hold at first and every step keeps them.
LEMMA LogCorrect == Spec => [](LogInv /\ LoggedInv)
<1>1. Init => LogInv /\ LoggedInv
  BY ConnectionAssumption
  DEF Init, LogInv, LoggedInv, OmitInv, ScriptInv, OrderInv, OnlySignalsRepeat,
      EntryNamesUrl, Done, Nameless, NoReply, Globals
<1>2. TypeOK /\ TypeOK' /\ LogInv /\ LoggedInv /\ [Next]_vars
        => LogInv' /\ LoggedInv'
  <2>1. CASE UNCHANGED vars
    BY <2>1
    DEF vars, reply, ctl, LogInv, LoggedInv, Logged, OmitInv, ScriptInv,
        OrderInv, OnlySignalsRepeat, EntryNamesUrl
  <2> QED
    BY <2>1, LogStep, LoggedStep
<1> QED
  BY <1>1, <1>2, TypeCorrect, PTL DEF Spec

\* MakeLogEntry() is called once for each request and in order; only the signal
\* handler repeats a request.
THEOREM LogInOrder == Spec => []OnlySignalsRepeat
BY LogCorrect, PTL DEF LogInv

\* An entry of MakeLogEntry() has the URL of its request, whenever a signal
\* comes; only that of a signal which comes before the URL has the one before.
THEOREM LogNamesUrl == Spec => []EntryNamesUrl
BY LogCorrect, PTL DEF LogInv

\* Whatever is answered is in the log when the process goes on or ends, but for
\* the fallback of an SCGI server.
THEOREM NothingUnlogged == Spec => []EveryReplyLogged
<1>1. LoggedInv => EveryReplyLogged
  BY DEF LoggedInv, Logged, EveryReplyLogged, Done
<1> QED
  BY <1>1, LogCorrect, PTL

-----------------------------------------------------------------------------
(* POST data. *)

PostInv ==
  /\ global.zPostData \in {0, nRequest}
  /\ pc \in Freed => global.zPostData = 0
  /\ PostDataIsFresh

\* The buffer is filled by the POST data of this request, and otherwise freed or
\* left alone.
LEMMA WhoPosts ==
  ASSUME TypeOK, Next
  PROVE  \/ global'.zPostData = global.zPostData /\ pc' # "logged"
         \/ global'.zPostData = 0
         \/ BeginPost
<1> USE DEF reply, ctl, GlobalFunctions, Globals, Assign
<1>0. global \in GlobalFunctions
  BY TagTypes
<1>1. CASE Request
  <2>1. ASSUME NEW h \in Headers, ReadHeader(h)
        PROVE  global'.zPostData = global.zPostData /\ pc' # "logged"
    <3>1. "zPostData" \notin SetBy[h]
      BY ConnectionAssumption DEF SetBy
    <3> QED
      BY <1>0, <2>1, <3>1 DEF ReadHeader
  <2>2. CASE RejectLine
    BY <1>0, <2>2 DEF RejectLine, NotFound, Fail, LogThen
  <2>4. CASE ParseLine
    BY <1>0, <2>4 DEF ParseLine, Cleared
  <2>5. CASE ReadPost
    BY <1>0, <2>5 DEF ReadPost
  <2>3. CASE \/ Top \/ ReadLine \/ EndOfInput \/ ConnectionHeader \/ RejectHeader
             \/ EndHeaders \/ RejectRequest \/ NoPost
    BY <2>3
    DEF Top, ReadLine, EndOfInput, ConnectionHeader, RejectHeader, EndHeaders,
        RejectRequest, NoPost, NotFound, Fail, LogThen
  <2> QED
    BY <1>1, <2>1, <2>2, <2>3, <2>4, <2>5 DEF Request
<1>2. CASE Route
  BY <1>0, <1>2
  DEF Route, Refuse, Redirect, Open, Authorize, BeginFile, BeginCgi, BeginScgi,
      Begin, Fail, LogThen
<1>3. CASE Respond
  <2>1. \/ global' = global
        \/ global' = [global EXCEPT !.rangeStart = 0]
        \/ global' = [global EXCEPT !.rangeEnd = 0]
    BY <1>3
    DEF Respond, NotModified, FileGone, SendPart, SendWhole, PipeThrough,
        CgiLocation, CgiLength, CgiStatus, CgiAbuse, CgiEnd
  <2>2. pc' # "logged"
    BY <1>3
    DEF Respond, NotModified, FileGone, SendPart, SendWhole, SendContent,
        PipeThrough, CgiLocation, CgiLength, CgiStatus, CgiAbuse, CgiEnd,
        NotFound, Fail, LogThen
  <2> QED
    BY <1>0, <2>1, <2>2
<1>4. CASE \/ ForwardPost \/ ForwardNull \/ Sent \/ WriteLog \/ FinishLog
           \/ SetOmitLog \/ Exit \/ Flush \/ Interrupt \/ Exited
  BY <1>0, <1>4
  DEF ForwardPost, ForwardNull, Sent, WriteLog, FinishLog, SetOmitLog, Exit,
      Flush, Interrupt, Signal, Handle, Exited, vars
<1> QED
  BY <1>1, <1>2, <1>3, <1>4 DEF Next, Program

\* What a program was given is decided when it is given.
LEMMA StartKeepsPosted ==
  ASSUME wire \in Replies, NEW status, NEW close, StartResponse(status, close)
  PROVE  wire'.posted = wire.posted
BY DEF StartResponse, Started, StatusLine, Replies

LEMMA WhoForwards ==
  ASSUME TypeOK, Next
  PROVE  wire'.posted = wire.posted \/ Top \/ ForwardPost
<1> USE DEF reply, ctl, Fail, NotFound
<1>0. /\ wire \in Replies
      /\ \A status, close : StartResponse(status, close)
                               => wire'.posted = wire.posted
  BY StartKeepsPosted DEF TypeOK
<1>1. CASE Request
  BY <1>0, <1>1
  DEF Request, ReadLine, EndOfInput, RejectLine, ParseLine, ReadHeader,
      ConnectionHeader, RejectHeader, EndHeaders, RejectRequest, BeginPost,
      ReadPost, NoPost
<1>2. CASE Route
  BY <1>0, <1>2
  DEF Route, Refuse, Redirect, Open, Authorize, BeginFile, BeginCgi, BeginScgi,
      Begin
<1>3. CASE Respond
  <2>1. CASE NotModified \/ FileGone \/ SendPart \/ CgiLocation \/ CgiLength
    BY <1>0, <2>1 DEF NotModified, FileGone, SendPart, CgiLocation, CgiLength
  <2>2. CASE SendWhole
    BY <1>0, <2>2 DEF SendWhole, Started, StatusLine, Replies
  <2>5. CASE PipeThrough \/ CgiAbuse
    BY <1>0, <2>5 DEF PipeThrough, CgiAbuse, Started, StatusLine, Replies
  <2>3. ASSUME NEW code, CgiStatus(code)
        PROVE  wire'.posted = wire.posted
    BY <1>0, <2>3 DEF CgiStatus, StatusLine, Replies
  <2>4. CASE CgiEnd
    BY <1>0, <2>4 DEF CgiEnd, Started, StatusLine, Replies
  <2> QED
    BY <1>3, <2>1, <2>2, <2>3, <2>4, <2>5 DEF Respond
<1>4. CASE \/ ForwardNull \/ Sent \/ WriteLog \/ FinishLog
           \/ SetOmitLog \/ Exit \/ Flush \/ Interrupt \/ Exited
  BY <1>4
  DEF ForwardNull, Sent, WriteLog, FinishLog, SetOmitLog, Exit, Flush,
      Interrupt, Signal, Handle, Exited, vars
<1> QED
  BY <1>1, <1>2, <1>3, <1>4 DEF Next, Program

\* Every step keeps the POST data those of the request.
LEMMA PostStep ==
  ASSUME TypeOK, PostInv, Next
  PROVE  PostInv'
<1>0. global \in GlobalFunctions
  BY TagTypes
<1>1. CASE Top
  BY <1>1 DEF Top, PostInv, Freed, NoReply, PostDataIsFresh
<1>2. CASE ~Top
  <2>1. nRequest' = nRequest
    BY <1>2, WhoLogs DEF WriteLog, Handle
  <2>2. global'.zPostData \in {0, nRequest}
    <3>1. CASE BeginPost
      BY <1>0, <3>1
      DEF BeginPost, Assign, GlobalFunctions, Globals
    <3> QED
      BY <3>1, WhoPosts DEF PostInv
  <2>3. pc' \in Freed => global'.zPostData = 0
    <3>1. CASE BeginPost
      BY <3>1 DEF BeginPost, Freed
    <3>2. CASE ~BeginPost
      BY <3>2, WhoPosts, WaysOut DEF PostInv, WriteLog
    <3> QED
      BY <3>1, <3>2
  <2>4. wire'.posted \in {0, nRequest}
    <3>1. CASE ForwardPost
      <4>1. wire'.posted \in {0, global.zPostData}
        BY <3>1 DEF ForwardPost, TypeOK, Replies
      <4> QED
        BY <4>1 DEF PostInv
    <3> QED
      BY <1>2, <3>1, WhoForwards DEF PostInv, PostDataIsFresh
  <2> QED
    BY <2>1, <2>2, <2>3, <2>4 DEF PostInv, PostDataIsFresh
<1> QED
  BY <1>1, <1>2

\* A program is given the POST data of its own request or none: SendFile(),
\* MakeLogEntry() and the forwarding itself free the buffer in time.
THEOREM PostedIsOwn == Spec => []PostDataIsFresh
<1>1. Init => PostInv
  BY DEF Init, PostInv, PostDataIsFresh, NoReply, Globals
<1>2. TypeOK /\ PostInv /\ [Next]_vars => PostInv'
  <2>1. CASE UNCHANGED vars
    BY <2>1 DEF vars, reply, ctl, PostInv, PostDataIsFresh
  <2> QED
    BY <2>1, PostStep
<1>3. PostInv => PostDataIsFresh
  BY DEF PostInv
<1> QED
  BY <1>1, <1>2, <1>3, TypeCorrect, PTL DEF Spec

-----------------------------------------------------------------------------
(* Replies.  Until it is answered a request goes on silently or is refused; *)
(* the other steps have a shape of their own.                               *)

Unanswered == {"line", "parse", "headers", "body", "readpost", "route",
               "dispatch", "file", "forward"}

\* Nothing is sent, and the request goes on.
Silent ==
  /\ pc \in Unanswered /\ pc' \in Unanswered
  /\ pc' = "file" => BeginFile
  /\ UNCHANGED <<wire, statusSent, replyStatus, nRequest, log>>

\* The first and only thing that is sent is a status other than 206 and 304; only
\* an error ends the process.
Refusal(status, close, r) ==
  /\ pc \in Unanswered
  /\ StartResponse(status, close) /\ LogThen(r)
  /\ status \in 200..599 \ {206, 304, 418}
  /\ close \in BOOLEAN /\ (close \/ r = "exit" => status >= 400)
  /\ r \in {"return", "exit"}
  /\ UNCHANGED <<nRequest, method, cgi, log>>

AnyRefusal == \E status, close, r : Refusal(status, close, r)

\* An error reply is a refusal.
LEMMA FailRefuses ==
  ASSUME pc \in Unanswered, NEW status \in {400, 403, 404, 414, 500, 501, 503},
         Fail(status), UNCHANGED <<nRequest, method, cgi, log>>
  PROVE  AnyRefusal
<1>1. StartResponse(status, status \in {403, 503}) /\ LogThen("exit")
  BY DEF Fail
<1>2. status \in 200..599 \ {206, 304, 418} /\ status >= 400
  OBVIOUS
<1>3. (status \in {403, 503}) \in BOOLEAN
  OBVIOUS
<1>4. Refusal(status, status \in {403, 503}, "exit")
  BY <1>1, <1>2, <1>3, Zenon DEF Refusal
<1> QED
  BY <1>4, Zenon DEF AnyRefusal

\* So is a redirect and the demand for a password.
LEMMA RedirectRefuses ==
  ASSUME pc \in Unanswered, NEW status \in {301, 302, 401},
         StartResponse(status, FALSE), LogThen("return"),
         UNCHANGED <<nRequest, method, cgi, log>>
  PROVE  AnyRefusal
<1>1. status \in 200..599 \ {206, 304, 418}
  OBVIOUS
<1>2. Refusal(status, FALSE, "return")
  BY <1>1, Zenon DEF Refusal
<1> QED
  BY <1>2, Zenon DEF AnyRefusal

\* A request up to its body is silent or refused.
LEMMA RequestShape ==
  ASSUME Request
  PROVE  Top \/ EndOfInput \/ Silent \/ AnyRefusal
<1> USE DEF reply, ctl
<1>1. CASE \/ ReadLine \/ ConnectionHeader \/ EndHeaders \/ BeginPost
           \/ ReadPost \/ NoPost
  <2>1. Silent
    BY <1>1
    DEF ReadLine, ConnectionHeader, EndHeaders, BeginPost, ReadPost, NoPost,
        Silent, Unanswered
  <2> QED
    BY <2>1
<1>2. CASE ParseLine \/ \E h \in Headers \ {"Connection"} : ReadHeader(h)
  <2>1. Silent
    BY <1>2 DEF ParseLine, ReadHeader, Silent, Unanswered
  <2> QED
    BY <2>1
<1>3. CASE RejectLine \/ RejectHeader \/ RejectRequest
  <2>1. PICK status \in {400, 403, 404, 414, 500, 501, 503} : Fail(status)
    BY <1>3 DEF RejectLine, RejectHeader, RejectRequest, NotFound
  <2>2. pc \in Unanswered /\ UNCHANGED <<nRequest, method, cgi, log>>
    BY <1>3 DEF RejectLine, RejectHeader, RejectRequest, Unanswered
  <2> QED
    BY <2>1, <2>2, FailRefuses
<1> QED
  BY <1>1, <1>2, <1>3 DEF Request

\* So is routing.
LEMMA RouteShape ==
  ASSUME Route
  PROVE  Silent \/ AnyRefusal
<1> USE DEF reply, ctl
<1>1. CASE Open \/ BeginFile \/ BeginCgi \/ BeginScgi
  <2>1. /\ pc \in Unanswered /\ pc' \in Unanswered
        /\ UNCHANGED <<wire, statusSent, replyStatus, nRequest, log>>
    BY <1>1 DEF Open, BeginFile, BeginCgi, BeginScgi, Begin, Unanswered
  <2>2. pc' = "file" => BeginFile
    BY <1>1 DEF Open, BeginCgi, BeginScgi, Begin
  <2> QED
    BY <2>1, <2>2 DEF Silent
<1>2. CASE Refuse
  <2>1. PICK status \in {404, 500, 503} : Fail(status)
    BY <1>2 DEF Refuse
  <2>2. pc \in Unanswered /\ UNCHANGED <<nRequest, method, cgi, log>>
    BY <1>2 DEF Refuse, Unanswered
  <2> QED
    BY <2>1, <2>2, FailRefuses
<1>3. CASE Redirect
  <2>1. PICK status \in {301, 302} : StartResponse(status, FALSE)
    BY <1>3 DEF Redirect
  <2>2. /\ pc \in Unanswered /\ LogThen("return")
        /\ UNCHANGED <<nRequest, method, cgi, log>>
    BY <1>3 DEF Redirect, Unanswered
  <2>3. status \in {301, 302, 401}
    OBVIOUS
  <2> QED
    BY <2>1, <2>2, <2>3, RedirectRefuses
<1>4. CASE Authorize
  <2>1. CASE pc' = "dispatch" /\ UNCHANGED <<ret, reply>>
    <3>1. Silent
      BY <1>4, <2>1 DEF Authorize, Silent, Unanswered
    <3> QED
      BY <3>1
  <2>2. CASE \E status \in {301, 401} : StartResponse(status, FALSE)
                                        /\ LogThen("return")
    <3>1. PICK status \in {301, 401} : StartResponse(status, FALSE)
                                       /\ LogThen("return")
      BY <2>2
    <3>2. pc \in Unanswered /\ UNCHANGED <<nRequest, method, cgi, log>>
      BY <1>4 DEF Authorize, Unanswered
    <3>3. status \in {301, 302, 401}
      OBVIOUS
    <3> QED
      BY <3>1, <3>2, <3>3, RedirectRefuses
  <2> QED
    BY <1>4, <2>1, <2>2 DEF Authorize
<1> QED
  BY <1>1, <1>2, <1>3, <1>4 DEF Route

\* So is a file that has gone.
LEMMA FileGoneRefuses ==
  ASSUME FileGone
  PROVE  AnyRefusal
<1>1. PICK status \in {404, 503} : Fail(status)
  BY DEF FileGone, NotFound
<1>2. pc \in Unanswered /\ UNCHANGED <<nRequest, method, cgi, log>>
  BY DEF FileGone, Unanswered, ctl
<1> QED
  BY <1>1, <1>2, FailRefuses

\* What StartResponse() does to a reply that has not begun.
LEMMA Starts ==
  ASSUME wire \in Replies, closeConnection \in BOOLEAN, ~statusSent,
         wire.lines = 0,
         NEW status \in 200..599, NEW close \in BOOLEAN, close => status >= 400,
         StartResponse(status, close)
  PROVE  /\ statusSent' /\ replyStatus' = status /\ wire' = Started(wire, status)
         /\ wire'.lines = 1 /\ wire'.status = status
         /\ wire'.by = "althttpd" /\ wire'.body = wire.body
         /\ wire'.announce \in {"keep", "close"}
         /\ wire'.announce = "keep" => ~closeConnection' /\ status < 400
<1>1. statusSent' /\ replyStatus' = status /\ wire' = Started(wire, status)
  BY Zenon DEF StartResponse
<1>2. /\ Started(wire, status).lines = 1
      /\ Started(wire, status).status = status
      /\ Started(wire, status).by = "althttpd"
      /\ Started(wire, status).body = wire.body
      /\ Started(wire, status).announce =
           IF closeConnection \/ status >= 400 THEN "close" ELSE "keep"
  BY DEF Started, StatusLine, OneMore, Replies
<1>3. closeConnection' = (closeConnection \/ close \/ status >= 400)
  BY Zenon DEF StartResponse
<1>4. CASE closeConnection \/ status >= 400
  BY <1>1, <1>2, <1>4
<1>5. CASE ~(closeConnection \/ status >= 400)
  <2>1. ~closeConnection'
    BY <1>3, <1>5, Zenon
  <2> QED
    BY <1>1, <1>2, <1>5, <2>1
<1> QED
  BY <1>4, <1>5

\* A refusal is such a reply.
LEMMA RefusalStarts ==
  ASSUME wire = NoReply, wire \in Replies, closeConnection \in BOOLEAN,
         ~statusSent, NEW status, NEW close, NEW r, Refusal(status, close, r)
  PROVE  /\ replyStatus' = status /\ wire'.status = status
         /\ wire'.body = "none"
         /\ wire'.announce = "keep" => ~closeConnection' /\ status < 400
<1>1. /\ status \in 200..599 /\ close \in BOOLEAN
      /\ close => status >= 400
  BY DEF Refusal
<1>2. StartResponse(status, close)
  BY Zenon DEF Refusal
<1>3. wire.lines = 0 /\ wire.body = "none"
  BY DEF NoReply
<1>4. wire'.body = wire.body
  BY <1>1, <1>2, <1>3, Starts
<1>5. /\ replyStatus' = status /\ wire'.status = status
      /\ wire'.announce = "keep" => ~closeConnection' /\ status < 400
  BY <1>1, <1>2, <1>3, Starts
<1> QED
  BY <1>3, <1>4, <1>5
\* A reply that is no error, in particular.
LEMMA StartsNormally ==
  ASSUME wire \in Replies, closeConnection \in BOOLEAN, ~statusSent,
         wire.lines = 0,
         NEW status \in {206, 302, 304}, StartResponse(status, FALSE)
  PROVE  /\ statusSent' /\ replyStatus' = status
         /\ wire'.lines = 1 /\ wire'.status = status
         /\ wire'.by = "althttpd" /\ wire'.body = wire.body
         /\ wire'.announce = "keep" => ~closeConnection'
<1>1. status \in 200..599
  OBVIOUS
<1>2. PICK close \in BOOLEAN : ~close /\ StartResponse(status, close)
  BY Zenon
<1>3. close => status >= 400
  BY <1>2
<1>4. /\ statusSent' /\ replyStatus' = status
      /\ wire'.lines = 1 /\ wire'.status = status
      /\ wire'.by = "althttpd" /\ wire'.body = wire.body
  BY <1>1, <1>2, <1>3, Starts
<1>5. wire'.announce = "keep" => ~closeConnection'
  BY <1>1, <1>2, <1>3, Starts
<1> QED
  BY <1>4, <1>5

\* Before the first status line nothing has been sent, and no body before the end
\* of the header.
AnswerInv ==
  /\ pc \in Unanswered \cup {"nph", "omit", "top"} => ~statusSent
  /\ pc \in Unanswered => wire = NoReply
  /\ pc \in {"nph", "cgi"} => wire.body = "none"
  /\ pc \in {"nph", "cgi"} /\ ~statusSent =>
       wire.announce = "none" /\ wire.lines = 0

LEMMA AnswerStep ==
  ASSUME TypeOK, AnswerInv, Next
  PROVE  AnswerInv'
<1> USE DEF reply, ctl, Unanswered
<1>1. CASE Top
  BY <1>1 DEF Top, AnswerInv
<1>2. CASE Silent
  BY <1>2 DEF Silent, AnswerInv
<1>3. CASE AnyRefusal \/ EndOfInput
  BY <1>3 DEF AnyRefusal, Refusal, LogThen, EndOfInput, AnswerInv
<1>4. CASE ForwardPost \/ ForwardNull
  <2>1. CASE ForwardPost
    <3>1. /\ wire.announce = "none" /\ wire.lines = 0 /\ wire.body = "none"
          /\ wire \in Replies
      BY <2>1 DEF ForwardPost, AnswerInv, NoReply, TypeOK
    <3>2. wire'.announce = "none" /\ wire'.lines = 0 /\ wire'.body = "none"
      BY <2>1, <3>1 DEF ForwardPost, Replies
    <3> QED
      BY <2>1, <3>2 DEF ForwardPost, AnswerInv
  <2>2. CASE ForwardNull
    BY <2>2 DEF ForwardNull, Handle, AnswerInv, NoReply
  <2> QED
    BY <1>4, <2>1, <2>2
<1>5. CASE Respond
  <2>1. CASE CgiLocation
    <3>1. pc = "cgi" /\ pc' = "cgi" /\ StartResponse(302, FALSE)
      BY <2>1 DEF CgiLocation
    <3>2. statusSent' /\ (wire' = wire \/ wire' = Started(wire, 302))
      BY <3>1, Zenon DEF StartResponse
    <3>3. wire'.body = "none"
      BY <3>1, <3>2 DEF AnswerInv, Started, StatusLine
    <3> QED
      BY <3>1, <3>2, <3>3 DEF AnswerInv
  <2>2. CASE CgiLength
    BY <2>2 DEF CgiLength, AnswerInv
  <2>3. ASSUME NEW code, CgiStatus(code)
        PROVE  AnswerInv'
    BY <2>3 DEF CgiStatus, StatusLine, AnswerInv
  <2>4. pc' = "cgi" \/ AnswerInv'
    BY <1>5, RespondGoes DEF AnswerInv
  <2>5. \/ CgiLocation \/ CgiLength \/ \E code : CgiStatus(code)
        \/ pc' # "cgi"
    BY <1>5
    DEF Respond, NotModified, FileGone, SendPart, SendWhole, SendContent,
        PipeThrough, CgiAbuse, CgiEnd, NotFound, Fail, LogThen
  <2> QED
    BY <2>1, <2>2, <2>3, <2>4, <2>5
<1>6. CASE Sent \/ WriteLog \/ SetOmitLog \/ Exit \/ Flush
  BY <1>6 DEF Sent, WriteLog, SetOmitLog, Exit, Flush, AnswerInv
<1>7. CASE FinishLog
  BY <1>7 DEF FinishLog, AnswerInv
<1>8. CASE Interrupt \/ Exited
  BY <1>8 DEF Interrupt, Signal, Handle, Exited, vars, AnswerInv
<1> QED
  BY <1>1, <1>2, <1>3, <1>4, <1>5, <1>6, <1>7, <1>8, RequestShape, RouteShape
  DEF Next, Program

\* A reply that announces that the connection stays open is one after which the
\* process goes on.
KeepInv ==
  /\ pc = "file" => ret = "omit" \/ (ret = "nolog" /\ closeConnection)
  /\ pc \in {"nph", "cgi"} => ret = "omit"
  /\ replyStatus = 418 =>
       \/ pc \in {"exit", "flush", "exited"}
       \/ pc \in {"log", "logged"} /\ ret = "exit"
  /\ wire.announce = "keep" /\ replyStatus # 418 =>
       /\ pc \in {"cgi", "send", "log", "logged"} => ~closeConnection
       /\ pc \in {"send", "log", "logged"} => ret \in {"return", "omit"}
  /\ KeepAliveHonoured

LEMMA KeepStep ==
  ASSUME TypeOK, TypeOK', AnswerInv, KeepInv, Next
  PROVE  KeepInv'
<1> USE DEF reply, ctl
<1>0. wire \in Replies /\ closeConnection \in BOOLEAN
  BY DEF TypeOK
<1>1. CASE Top
  BY <1>1 DEF Top, KeepInv, KeepAliveHonoured
<1>2. CASE Silent
  <2>1. wire' = NoReply /\ replyStatus' # 418
    BY <1>2 DEF Silent, AnswerInv, KeepInv, Unanswered
  <2>2. pc' = "file" => ret' = "omit" \/ (ret' = "nolog" /\ closeConnection')
    BY <1>2, Zenon DEF Silent, BeginFile
  <2>3. pc' \notin {"nph", "cgi", "exit", "flush", "exited"}
    BY <1>2 DEF Silent, Unanswered
  <2> QED
    BY <2>1, <2>2, <2>3 DEF KeepInv, KeepAliveHonoured, NoReply
<1>3. CASE AnyRefusal
  <2>1. PICK status, close, r : Refusal(status, close, r)
    BY <1>3 DEF AnyRefusal
  <2>2. ~statusSent /\ wire = NoReply /\ pc' = "log" /\ ret' = r
    BY <2>1 DEF Refusal, AnswerInv, LogThen
  <2>3. /\ replyStatus' = status
        /\ wire'.announce = "keep" => ~closeConnection' /\ status < 400
    BY <1>0, <2>1, <2>2, RefusalStarts
  <2>4. r \in {"return", "exit"} /\ status # 418 /\ status \in Int
        /\ (r = "exit" => status >= 400)
    BY <2>1 DEF Refusal
  <2> QED
    BY <2>2, <2>3, <2>4 DEF KeepInv, KeepAliveHonoured
<1>4. CASE EndOfInput
  BY <1>4
  DEF EndOfInput, AnswerInv, Unanswered, NoReply, KeepInv, KeepAliveHonoured
<1>5. CASE ForwardPost
  <2>1. wire'.announce = "none" /\ ret' = "omit" /\ pc' \in {"nph", "cgi"}
    BY <1>0, <1>5 DEF ForwardPost, AnswerInv, Unanswered, NoReply, Replies
  <2> QED
    BY <1>5, <2>1 DEF ForwardPost, KeepInv, KeepAliveHonoured
<1>6. CASE Sent \/ WriteLog \/ SetOmitLog \/ Exit \/ Flush \/ Exited
  BY <1>6
  DEF Sent, WriteLog, SetOmitLog, Exit, Flush, Exited, vars, KeepInv,
      KeepAliveHonoured
<1>7. CASE FinishLog
  BY <1>7 DEF FinishLog, KeepInv, KeepAliveHonoured
<1>8. ASSUME NEW sig, NEW number \in {11, 13, 14, 24}, Handle(sig, number)
      PROVE  KeepInv'
  BY <1>8 DEF Handle, KeepInv, KeepAliveHonoured
<1>9. CASE Respond
  <2>1. CASE NotModified
    <3>1. /\ ~statusSent /\ wire = NoReply /\ pc' = "log" /\ ret' = "return"
          /\ StartResponse(304, FALSE)
      BY <2>1 DEF NotModified, AnswerInv, Unanswered, LogThen
    <3>2. replyStatus' = 304 /\ (wire'.announce = "keep" => ~closeConnection')
      <4>1. wire.lines = 0
        BY <3>1 DEF NoReply
      <4> QED
        BY <1>0, <3>1, <4>1, StartsNormally
    <3> QED
      BY <3>1, <3>2 DEF KeepInv, KeepAliveHonoured
  <2>2. CASE FileGone
    BY <1>3, <2>2, FileGoneRefuses
  <2>3. CASE SendPart
    <3>1. /\ ~statusSent /\ wire = NoReply /\ pc = "file"
          /\ StartResponse(206, FALSE)
      BY <2>3 DEF SendPart, AnswerInv, Unanswered
    <3>2. replyStatus' = 206 /\ (wire'.announce = "keep" => ~closeConnection')
      <4>1. wire.lines = 0
        BY <3>1 DEF NoReply
      <4> QED
        BY <1>0, <3>1, <4>1, StartsNormally
    <3>3. closeConnection => closeConnection'
      BY <3>1, CloseKept
    <3>4. \/ pc' = "log" /\ ret' = "return"
          \/ pc' = "send" /\ ret' = ret
      BY <2>3 DEF SendPart, SendContent, LogThen
    <3> QED
      BY <3>1, <3>2, <3>3, <3>4 DEF KeepInv, KeepAliveHonoured
  <2>4. CASE SendWhole
    <3>1. /\ pc = "file" /\ replyStatus' = 200
          /\ closeConnection' = closeConnection
          /\ \/ pc' = "log" /\ ret' = "return"
             \/ pc' = "send" /\ ret' = ret
      BY <2>4 DEF SendWhole, SendContent, LogThen
    <3>2. closeConnection => wire'.announce # "keep"
      <4>1. PICK gz \in BOOLEAN : wire' = [Started(wire, 200) EXCEPT !.gzip = gz]
        BY <2>4 DEF SendWhole
      <4>2. Started(wire, 200) \in Replies
        BY <1>0, StartedType
      <4>3. wire'.announce = Started(wire, 200).announce
        BY <4>1, <4>2 DEF Replies
      <4> QED
        BY <1>0, <4>3 DEF Started, StatusLine
    <3> QED
      BY <3>1, <3>2 DEF KeepInv, KeepAliveHonoured
  <2>5. CASE PipeThrough
    <3>1. wire'.announce = "none" /\ pc' = "send" /\ replyStatus' # 418
      BY <2>5
      DEF PipeThrough, StatusLine, AnswerInv, KeepInv
    <3> QED
      BY <3>1 DEF KeepInv, KeepAliveHonoured
  <2>6. CASE CgiLocation
    <3>1. pc = "cgi" /\ pc' = "cgi" /\ ret' = ret /\ StartResponse(302, FALSE)
      BY <2>6 DEF CgiLocation
    <3>2. CASE ~statusSent
      <4>1. wire.lines = 0
        BY <3>1, <3>2 DEF AnswerInv
      <4>2. replyStatus' = 302 /\ (wire'.announce = "keep" => ~closeConnection')
        BY <1>0, <3>1, <3>2, <4>1, StartsNormally
      <4> QED
        BY <3>1, <4>2 DEF KeepInv, KeepAliveHonoured
    <3>3. CASE statusSent
      <4>1. replyStatus' = replyStatus /\ wire' = wire
            /\ (closeConnection' => closeConnection)
        BY <3>1, <3>3, Zenon DEF StartResponse
      <4> QED
        BY <3>1, <4>1 DEF KeepInv, KeepAliveHonoured
    <3> QED
      BY <3>2, <3>3
  <2>7. CASE CgiLength
    BY <2>7 DEF CgiLength, KeepInv, KeepAliveHonoured
  <2>8. ASSUME NEW code \in CgiCodes, CgiStatus(code)
        PROVE  KeepInv'
    <3>1. /\ pc = "cgi" /\ pc' = "cgi" /\ ret' = ret /\ replyStatus' = code
          /\ closeConnection' = closeConnection /\ code # 418
      BY <2>8 DEF CgiStatus, CgiCodes
    <3>2. wire'.announce = wire.announce
      BY <2>8 DEF CgiStatus, StatusLine
    <3>3. replyStatus # 418
      BY <3>1 DEF KeepInv
    <3> QED
      BY <3>1, <3>2, <3>3 DEF KeepInv, KeepAliveHonoured
  <2>9. CASE CgiAbuse
    <3>1. pc' = "log" /\ ret' = "exit"
      BY <2>9 DEF CgiAbuse, LogThen
    <3>2. replyStatus' = 418 \/ wire'.announce # "keep"
      BY <1>0, <2>9 DEF CgiAbuse, Started, StatusLine, Replies
    <3> QED
      BY <3>1, <3>2 DEF KeepInv, KeepAliveHonoured
  <2>10. CASE CgiEnd
    <3>0. PICK part \in BOOLEAN, body \in {"none", "short", "exact"} :
            LET status == IF part THEN 206 ELSE 200
            IN  /\ replyStatus' = IF statusSent THEN replyStatus ELSE status
                /\ wire' = [IF statusSent THEN wire ELSE Started(wire, status)
                              EXCEPT !.body = body]
      BY <2>10 DEF CgiEnd
    <3> DEFINE status == IF part THEN 206 ELSE 200
    <3>1. /\ status \in {200, 206}
          /\ replyStatus' = IF statusSent THEN replyStatus ELSE status
          /\ wire' = [IF statusSent THEN wire ELSE Started(wire, status)
                        EXCEPT !.body = body]
      BY <3>0
    <3> HIDE DEF status
    <3>2. /\ pc = "cgi" /\ pc' = "send" /\ ret' = ret
          /\ closeConnection' = closeConnection
      BY <2>10 DEF CgiEnd
    <3>3. wire'.announce = IF statusSent THEN wire.announce
                           ELSE Started(wire, status).announce
      <4>1. Started(wire, status) \in Replies
        BY <1>0, <3>1, StartedType
      <4> QED
        BY <1>0, <3>1, <4>1 DEF Replies
    <3>4. replyStatus' # 418 /\ replyStatus # 418
      BY <3>1, <3>2 DEF KeepInv
    <3>5. CASE statusSent
      BY <3>2, <3>3, <3>4, <3>5 DEF KeepInv, KeepAliveHonoured
    <3>6. CASE ~statusSent
      <4>1. wire'.announce = "keep" => ~closeConnection
        BY <1>0, <3>3, <3>6 DEF Started, StatusLine, Replies
      <4> QED
        BY <3>2, <3>4, <4>1 DEF KeepInv, KeepAliveHonoured
    <3> QED
      BY <3>5, <3>6
  <2> QED
    BY <1>9, <2>1, <2>2, <2>3, <2>4, <2>5, <2>6, <2>7, <2>8, <2>9, <2>10
    DEF Respond
<1>10. CASE ForwardNull
  <2>1. CASE Handle("SIGSEGV", 11)
    BY <1>8, <2>1
  <2>2. CASE pc' = "cgi" /\ ret' = "omit" /\ UNCHANGED <<reply, ctl>>
    BY <1>10, <2>2
    DEF ForwardNull, AnswerInv, Unanswered, NoReply, KeepInv, KeepAliveHonoured
  <2> QED
    BY <1>10, <2>1, <2>2 DEF ForwardNull
<1>11. CASE Interrupt
  BY <1>8, <1>11 DEF Interrupt, Signal
<1> QED
  BY <1>1, <1>2, <1>3, <1>4, <1>5, <1>6, <1>7, <1>9, <1>10, <1>11,
     RequestShape, RouteShape
  DEF Next, Program

\* Until it is answered nothing of a request is sent, in every reachable state.
LEMMA AnswerCorrect == Spec => []AnswerInv
<1>1. Init => AnswerInv
  BY DEF Init, AnswerInv, Unanswered
<1>2. TypeOK /\ AnswerInv /\ [Next]_vars => AnswerInv'
  <2>1. CASE UNCHANGED vars
    BY <2>1 DEF vars, reply, ctl, AnswerInv
  <2> QED
    BY <2>1, AnswerStep
<1> QED
  BY <1>1, <1>2, TypeCorrect, PTL DEF Spec

\* "Connection: keep-alive" in a reply is a promise that is kept: whatever the
\* headers, the routes and the programs, only a signal or a program that first
\* redirects and then reports abuse ends the process after it.
THEOREM KeepAliveKept == Spec => []KeepAliveHonoured
<1>1. Init => KeepInv
  BY DEF Init, KeepInv, KeepAliveHonoured, NoReply
<1>2. TypeOK /\ TypeOK' /\ AnswerInv /\ KeepInv /\ [Next]_vars => KeepInv'
  <2>1. CASE UNCHANGED vars
    BY <2>1 DEF vars, reply, ctl, KeepInv, KeepAliveHonoured
  <2> QED
    BY <2>1, KeepStep
<1>3. KeepInv => KeepAliveHonoured
  BY DEF KeepInv
<1> QED
  BY <1>1, <1>2, <1>3, TypeCorrect, AnswerCorrect, PTL DEF Spec

-----------------------------------------------------------------------------
(* Replies and ranges. *)

\* A range in force is that of a GET, both ends of it.
RangeInv ==
  pc \in Working /\ global.rangeEnd # 0 =>
    method = "GET" /\ global.rangeStart \in {0, nRequest}

LEMMA RangeStep ==
  ASSUME TypeOK, RangeInv, Next
  PROVE  RangeInv'
<1> USE DEF reply, ctl, GlobalFunctions, Globals
<1>0. global \in GlobalFunctions
  BY TagTypes
<1>1. CASE pc' \notin Working
  BY <1>1 DEF RangeInv
<1>2. CASE ParseLine
  <2>1. global'.rangeEnd = 0
    BY <1>2 DEF ParseLine, Assign, Cleared
  <2> QED
    BY <2>1 DEF RangeInv
<1>3. ASSUME NEW h \in Headers \ {"Connection"}, ReadHeader(h)
      PROVE  RangeInv'
  <2>1. h \in DOMAIN SetBy
    BY ConnectionAssumption
  <2>2. pc = "headers" /\ UNCHANGED <<method, nRequest>>
    BY <1>3 DEF ReadHeader
  <2>3. CASE h = "Range"
    BY <1>0, <1>3, <2>2, <2>3 DEF ReadHeader, Assign, SetBy, RangeInv
  <2>4. CASE h = "Range0"
    BY <1>0, <1>3, <2>2, <2>4 DEF ReadHeader, Assign, SetBy, RangeInv
  <2>5. CASE h \notin {"Range", "Range0"}
    <3>1. SetBy[h] \cap {"rangeStart", "rangeEnd"} = {}
      BY <2>1, <2>5 DEF SetBy
    <3>2. /\ global'.rangeStart = global.rangeStart
          /\ global'.rangeEnd = global.rangeEnd
      BY <1>0, <1>3, <2>5, <3>1 DEF ReadHeader, Assign
    <3> QED
      BY <2>2, <3>2 DEF RangeInv, Working
  <2> QED
    BY <2>3, <2>4, <2>5
<1>4. ASSUME pc \in Working, UNCHANGED <<method, nRequest>>,
             \/ global'.rangeEnd = 0
             \/ /\ global'.rangeStart = global.rangeStart
                /\ global'.rangeEnd = global.rangeEnd
      PROVE  RangeInv'
  BY <1>4 DEF RangeInv
<1>5. CASE ConnectionHeader \/ EndHeaders \/ BeginPost \/ ReadPost \/ NoPost
  <2>1. CASE ConnectionHeader \/ EndHeaders \/ NoPost
    BY <1>4, <2>1 DEF ConnectionHeader, EndHeaders, NoPost, Working
  <2>2. CASE BeginPost
    BY <1>0, <1>4, <2>2 DEF BeginPost, Assign, Working
  <2>3. CASE ReadPost
    BY <1>0, <1>4, <2>3 DEF ReadPost, Working
  <2> QED
    BY <1>5, <2>1, <2>2, <2>3
<1>6. CASE Open \/ Authorize \/ BeginFile \/ BeginCgi \/ BeginScgi
  <2>1. CASE Open \/ BeginCgi \/ BeginScgi
    BY <1>4, <2>1 DEF Open, BeginCgi, BeginScgi, Begin, Working
  <2>2. CASE Authorize
    BY <1>0, <1>4, <2>2 DEF Authorize, Working
  <2>3. CASE BeginFile
    BY <1>0, <1>4, <2>3 DEF BeginFile, Working
  <2> QED
    BY <1>6, <2>1, <2>2, <2>3
<1>7. CASE ForwardPost \/ ForwardNull
  <2>1. CASE ForwardPost
    BY <1>0, <1>4, <2>1 DEF ForwardPost, Assign, Working
  <2>2. CASE ForwardNull
    BY <1>0, <1>4, <2>2 DEF ForwardNull, Handle, Working
  <2> QED
    BY <1>7, <2>1, <2>2
<1>8. CASE CgiLocation \/ CgiLength \/ \E code \in CgiCodes : CgiStatus(code)
  <2>1. CASE CgiLocation \/ CgiLength
    BY <1>0, <1>4, <2>1 DEF CgiLocation, CgiLength, Working
  <2>2. ASSUME NEW code, CgiStatus(code)
        PROVE  RangeInv'
    BY <1>0, <1>4, <2>2 DEF CgiStatus, Working
  <2> QED
    BY <1>8, <2>1, <2>2
<1>9. CASE Exited
  BY <1>9 DEF Exited, vars, RangeInv
<1>10. CASE \/ Top \/ ReadLine \/ EndOfInput \/ RejectLine \/ RejectHeader
            \/ RejectRequest \/ Refuse \/ Redirect
  <2>1. CASE Top \/ ReadLine \/ EndOfInput
    BY <1>1, <2>1 DEF Top, ReadLine, EndOfInput, Working
  <2>2. CASE RejectLine \/ RejectHeader \/ RejectRequest
    <3>1. pc' = "log"
      BY <2>2
      DEF RejectLine, RejectHeader, RejectRequest, NotFound, Fail, LogThen
    <3> QED
      BY <1>1, <3>1 DEF Working
  <2>3. CASE Refuse \/ Redirect
    <3>1. pc' = "log"
      BY <2>3 DEF Refuse, Redirect, Fail, LogThen
    <3> QED
      BY <1>1, <3>1 DEF Working
  <2> QED
    BY <1>10, <2>1, <2>2, <2>3
<1>11. CASE \/ NotModified \/ FileGone \/ SendPart \/ SendWhole \/ PipeThrough
            \/ CgiAbuse \/ CgiEnd
  <2>1. pc' \in {"log", "send"}
    BY <1>11
    DEF NotModified, FileGone, SendPart, SendWhole, SendContent, PipeThrough,
        CgiAbuse, CgiEnd, NotFound, Fail, LogThen
  <2> QED
    BY <1>1, <2>1 DEF Working
<1>12. CASE \/ Sent \/ WriteLog \/ FinishLog \/ SetOmitLog \/ Exit \/ Flush
            \/ Interrupt
  BY <1>1, <1>12
  DEF Sent, WriteLog, FinishLog, SetOmitLog, Exit, Flush, Interrupt, Signal,
      Handle, Working
<1> QED
  BY <1>2, <1>3, <1>5, <1>6, <1>7, <1>8, <1>9, <1>10, <1>11, <1>12
  DEF Next, Program, Request, Route, Respond

\* A range in force, and with it both ends, belong to the request itself.
LEMMA RangeCorrect == Spec => []RangeInv
<1>1. Init => RangeInv
  BY DEF Init, RangeInv, Working
<1>2. TypeOK /\ RangeInv /\ [Next]_vars => RangeInv'
  <2>1. CASE UNCHANGED vars
    BY <2>1 DEF vars, reply, ctl, RangeInv
  <2> QED
    BY <2>1, RangeStep
<1> QED
  BY <1>1, <1>2, TypeCorrect, PTL DEF Spec

\* What althttpd itself has sent before the header of a program ends is the
\* redirect of a "Location:" line.
FitInv ==
  /\ pc = "cgi" /\ wire.by = "althttpd" => wire.status = 302
  /\ ReplyFitsRequest

\* A reply of another status, or one a program has begun, fits anyhow.
LEMMA OtherFits ==
  ASSUME wire'.by = "althttpd" => wire'.status \notin {206, 304},
         wire'.by = "althttpd" /\ pc' = "cgi" => wire'.status = 302,
         wire'.body # "short"
  PROVE  FitInv'
BY DEF FitInv, ReplyFitsRequest

\* A reply that has left the programs behind fits as long as nobody changes
\* what it is compared with.
LEMMA LateFits ==
  ASSUME FitInv, pc' # "cgi", UNCHANGED <<wire, nRequest, method, cgi>>,
         /\ global'.rangeStart = global.rangeStart
         /\ global'.rangeEnd = global.rangeEnd
         /\ global'.zIfNoneMatch = global.zIfNoneMatch
         /\ global'.zIfModifiedSince = global.zIfModifiedSince
  PROVE  FitInv'
BY DEF FitInv, ReplyFitsRequest

LEMMA FitStep ==
  ASSUME TypeOK, AnswerInv, RangeInv, RequestStateIsFresh, FitInv, Next
  PROVE  FitInv'
<1> USE DEF reply, ctl
<1>0. /\ wire \in Replies /\ closeConnection \in BOOLEAN
      /\ global \in GlobalFunctions
  BY TagTypes DEF TypeOK
<1>1. CASE Top
  BY <1>1, OtherFits DEF Top, NoReply
<1>2. CASE Silent
  BY <1>2, OtherFits DEF Silent, AnswerInv, NoReply
<1>3. CASE AnyRefusal
  <2>1. PICK status, close, r : Refusal(status, close, r)
    BY <1>3 DEF AnyRefusal
  <2>2. ~statusSent /\ wire = NoReply
    BY <2>1 DEF Refusal, AnswerInv
  <2>3. wire'.status = status /\ wire'.body = "none"
    BY <1>0, <2>1, <2>2, RefusalStarts
  <2>4. status \notin {206, 304} /\ pc' = "log"
    BY <2>1 DEF Refusal, LogThen
  <2> QED
    BY <2>3, <2>4, OtherFits
<1>4. CASE EndOfInput
  BY <1>4, OtherFits DEF EndOfInput, AnswerInv, Unanswered, NoReply
<1>5. CASE ForwardPost
  <2>1. wire.by = "nobody" /\ wire.body = "none"
    BY <1>5 DEF ForwardPost, AnswerInv, Unanswered, NoReply
  <2>2. wire'.by = "nobody" /\ wire'.body = "none"
    BY <1>0, <1>5, <2>1 DEF ForwardPost, Replies
  <2> QED
    BY <2>2, OtherFits
<1>6. ASSUME NEW sig, NEW number, Handle(sig, number)
      PROVE  FitInv'
  <2>1. /\ pc' # "cgi" /\ UNCHANGED <<wire, nRequest, method, cgi>>
    BY <1>6 DEF Handle
  <2>2. /\ global'.rangeStart = global.rangeStart
        /\ global'.rangeEnd = global.rangeEnd
        /\ global'.zIfNoneMatch = global.zIfNoneMatch
        /\ global'.zIfModifiedSince = global.zIfModifiedSince
    BY <1>0, <1>6 DEF Handle, GlobalFunctions, Globals
  <2> QED
    BY <2>1, <2>2, LateFits
<1>7. CASE ForwardNull
  <2>1. CASE Handle("SIGSEGV", 11)
    BY <1>6, <2>1
  <2>2. CASE wire' = wire
    BY <1>7, <2>2, OtherFits DEF ForwardNull, AnswerInv, Unanswered, NoReply
  <2> QED
    BY <1>7, <2>1, <2>2 DEF ForwardNull
<1>8. CASE Interrupt
  BY <1>6, <1>8 DEF Interrupt, Signal
<1>9. CASE Sent \/ FinishLog \/ SetOmitLog \/ Exit \/ Flush \/ Exited
  <2>1. CASE Exited
    BY <2>1 DEF Exited, vars, FitInv, ReplyFitsRequest
  <2>2. CASE Sent \/ FinishLog \/ SetOmitLog \/ Exit \/ Flush
    <3>1. pc' # "cgi"
      BY <2>2 DEF Sent, FinishLog, SetOmitLog, Exit, Flush
    <3>2. UNCHANGED <<wire, nRequest, method, cgi, global>>
      BY <2>2 DEF Sent, FinishLog, SetOmitLog, Exit, Flush
    <3> QED
      BY <3>1, <3>2, LateFits
  <2> QED
    BY <1>9, <2>1, <2>2
<1>10. CASE WriteLog
  <2>1. /\ pc' # "cgi" /\ UNCHANGED <<wire, nRequest, method, cgi>>
    BY <1>10 DEF WriteLog
  <2>2. /\ global'.rangeStart = global.rangeStart
        /\ global'.rangeEnd = global.rangeEnd
        /\ global'.zIfNoneMatch = global.zIfNoneMatch
        /\ global'.zIfModifiedSince = global.zIfModifiedSince
    BY <1>0, <1>10 DEF WriteLog, GlobalFunctions, Globals
  <2> QED
    BY <2>1, <2>2, LateFits
<1>11. CASE Respond
  <2>1. CASE NotModified
    <3>1. ~statusSent /\ wire = NoReply /\ StartResponse(304, FALSE)
      BY <2>1 DEF NotModified, AnswerInv, Unanswered
    <3>2. wire'.status = 304 /\ wire'.body = "none"
      <4>1. wire.lines = 0 /\ wire.body = "none"
        BY <3>1 DEF NoReply
      <4> QED
        BY <1>0, <3>1, <4>1, StartsNormally
    <3>3. nRequest \in {global.zIfNoneMatch, global.zIfModifiedSince}
      BY <2>1 DEF NotModified, RequestStateIsFresh, Working, Cleared
    <3>4. pc' = "log" /\ nRequest' = nRequest /\ global' = global
      BY <2>1 DEF NotModified, LogThen
    <3> QED
      BY <3>2, <3>3, <3>4 DEF FitInv, ReplyFitsRequest
  <2>2. CASE FileGone
    BY <1>3, <2>2, FileGoneRefuses
  <2>3. CASE SendPart
    <3>1. ~statusSent /\ wire = NoReply /\ StartResponse(206, FALSE)
      BY <2>3 DEF SendPart, AnswerInv, Unanswered
    <3>2. wire'.status = 206 /\ wire'.body = "none"
      <4>1. wire.lines = 0 /\ wire.body = "none"
        BY <3>1 DEF NoReply
      <4> QED
        BY <1>0, <3>1, <4>1, StartsNormally
    <3>3. /\ method = "GET" /\ global.rangeEnd = nRequest
          /\ global.rangeStart \in {0, nRequest}
      BY <2>3 DEF SendPart, RequestStateIsFresh, RangeInv, Working, Cleared
    <3>4. pc' \in {"log", "send"} /\ UNCHANGED <<nRequest, method, global>>
      BY <2>3 DEF SendPart, SendContent, LogThen
    <3> QED
      BY <3>2, <3>3, <3>4 DEF FitInv, ReplyFitsRequest
  <2>4. CASE SendWhole
    <3>1. PICK gz \in BOOLEAN : wire' = [Started(wire, 200) EXCEPT !.gzip = gz]
      BY <2>4 DEF SendWhole
    <3>2. Started(wire, 200) \in Replies
      BY <1>0, StartedType
    <3>3. wire.lines = 0 /\ wire.body = "none"
      BY <2>4 DEF SendWhole, AnswerInv, Unanswered, NoReply
    <3>4. Started(wire, 200).status = 200 /\ Started(wire, 200).body = "none"
      BY <1>0, <3>3 DEF Started, StatusLine, Replies
    <3>5. wire'.status = 200 /\ wire'.body = "none"
      BY <3>1, <3>2, <3>4 DEF Replies
    <3>6. pc' # "cgi"
      BY <2>4 DEF SendWhole, SendContent, LogThen
    <3> QED
      BY <3>5, <3>6, OtherFits
  <2>5. CASE PipeThrough
    <3>1. wire.lines = 0 /\ wire.body = "none"
      BY <2>5 DEF PipeThrough, AnswerInv
    <3>2. wire'.by = "program" /\ wire'.body = "none"
      BY <2>5, <3>1 DEF PipeThrough, StatusLine
    <3> QED
      BY <3>2, OtherFits
  <2>6. CASE CgiLocation
    <3>1. pc = "cgi" /\ wire.body = "none" /\ StartResponse(302, FALSE)
      BY <2>6 DEF CgiLocation, AnswerInv
    <3>2. CASE ~statusSent
      <4>1. wire.lines = 0
        BY <3>1, <3>2 DEF AnswerInv
      <4>2. wire'.status = 302 /\ wire'.body = "none"
        BY <1>0, <3>1, <3>2, <4>1, StartsNormally
      <4> QED
        BY <4>2, OtherFits
    <3>3. CASE statusSent
      <4>1. wire' = wire
        BY <3>1, <3>3, Zenon DEF StartResponse
      <4> QED
        BY <3>1, <4>1, OtherFits DEF FitInv
    <3> QED
      BY <3>2, <3>3
  <2>7. CASE CgiLength
    <3>1. pc = "cgi" /\ wire.body = "none" /\ wire' = wire
      BY <2>7 DEF CgiLength, AnswerInv
    <3> QED
      BY <3>1, OtherFits DEF FitInv
  <2>8. ASSUME NEW code \in CgiCodes, CgiStatus(code)
        PROVE  FitInv'
    <3>1. pc = "cgi" /\ wire.body = "none"
      BY <2>8 DEF CgiStatus, AnswerInv
    <3>2. /\ wire'.body = "none"
          /\ wire'.by = "program" \/ UNCHANGED <<wire.by, wire.status>>
      BY <2>8, <3>1 DEF CgiStatus, StatusLine
    <3> QED
      BY <3>1, <3>2, OtherFits DEF FitInv
  <2>9. CASE CgiAbuse
    <3>1. pc = "cgi" /\ pc' = "log" /\ wire.body = "none"
      BY <2>9 DEF CgiAbuse, LogThen, AnswerInv
    <3>2. CASE statusSent
      <4>1. wire' = wire
        BY <2>9, <3>2 DEF CgiAbuse
      <4> QED
        BY <3>1, <4>1, OtherFits DEF FitInv
    <3>3. CASE ~statusSent
      <4>1. wire.lines = 0 /\ wire' = Started(wire, 503)
        BY <2>9, <3>1, <3>3 DEF CgiAbuse, AnswerInv
      <4>2. wire'.status = 503 /\ wire'.body = "none"
        BY <1>0, <3>1, <4>1 DEF Started, StatusLine, Replies
      <4> QED
        BY <3>1, <4>2, OtherFits
    <3> QED
      BY <3>2, <3>3
  <2>10. CASE CgiEnd
    <3>0. PICK part \in BOOLEAN, body \in {"none", "short", "exact"} :
            /\ part => global.rangeEnd # 0
            /\ body = "short" => ~part /\ global.rangeStart # 0
            /\ wire' = [IF statusSent THEN wire
                        ELSE Started(wire, IF part THEN 206 ELSE 200)
                          EXCEPT !.body = body]
      BY <2>10 DEF CgiEnd
    <3>1. /\ pc = "cgi" /\ pc' = "send"
          /\ UNCHANGED <<nRequest, method, global, cgi>>
      BY <2>10 DEF CgiEnd
    <3>2. CASE statusSent
      <4>1. wire'.status = wire.status /\ wire'.by = wire.by /\ wire'.body = body
        BY <1>0, <3>0, <3>2 DEF Replies
      <4>2. wire'.by = "althttpd" => wire'.status = 302
        BY <3>1, <4>1 DEF FitInv
      <4> QED
        BY <3>0, <3>1, <4>1, <4>2 DEF FitInv, ReplyFitsRequest
    <3>3. CASE ~statusSent
      <4> DEFINE status == IF part THEN 206 ELSE 200
      <4>1. status \in {200, 206} /\ (part \/ status = 200)
        OBVIOUS
      <4>2. wire' = [Started(wire, status) EXCEPT !.body = body]
        BY <3>0, <3>3
      <4> HIDE DEF status
      <4>3. Started(wire, status) \in Replies
        BY <1>0, <4>1, StartedType
      <4>4. wire.lines = 0
        BY <3>1, <3>3 DEF AnswerInv
      <4>5. Started(wire, status).status = status
        BY <1>0, <4>4 DEF Started, StatusLine, Replies
      <4>6. wire'.status = status /\ wire'.body = body
        BY <4>2, <4>3, <4>5 DEF Replies
      <4>7. CASE part
        <5>1. /\ method = "GET" /\ global.rangeEnd = nRequest
              /\ global.rangeStart \in {0, nRequest}
          BY <3>0, <3>1, <4>7
          DEF RequestStateIsFresh, RangeInv, Working, Cleared
        <5> QED
          BY <3>0, <3>1, <4>1, <4>6, <4>7, <5>1 DEF FitInv, ReplyFitsRequest
      <4>8. CASE ~part
        BY <3>0, <3>1, <4>1, <4>6, <4>8 DEF FitInv, ReplyFitsRequest
      <4> QED
        BY <4>7, <4>8
    <3> QED
      BY <3>2, <3>3
  <2> QED
    BY <1>11, <2>1, <2>2, <2>3, <2>4, <2>5, <2>6, <2>7, <2>8, <2>9, <2>10
    DEF Respond
<1> QED
  BY <1>1, <1>2, <1>3, <1>4, <1>5, <1>7, <1>8, <1>9, <1>10, <1>11,
     RequestShape, RouteShape
  DEF Next, Program

\* The partial and "not modified" replies that althttpd makes answer what their
\* own request asked for, and are never cut: no range, start of a range or
\* validator of an earlier request takes part in them.  What the start of an
\* earlier range still cuts is the body of a program's reply that is no part.
THEOREM RepliesFit == Spec => []ReplyFitsRequest
<1>1. Init => FitInv
  BY DEF Init, FitInv, ReplyFitsRequest, NoReply
<1>2. /\ TypeOK /\ AnswerInv /\ RangeInv /\ RequestStateIsFresh /\ FitInv
      /\ [Next]_vars
      => FitInv'
  <2>1. CASE UNCHANGED vars
    BY <2>1 DEF vars, reply, ctl, FitInv, ReplyFitsRequest
  <2> QED
    BY <2>1, FitStep
<1>3. FitInv => ReplyFitsRequest
  BY DEF FitInv
<1> QED
  BY <1>1, <1>2, <1>3, TypeCorrect, AnswerCorrect, RangeCorrect,
     FreshCorrect, PTL
  DEF Spec

-----------------------------------------------------------------------------
(* The status in the log. *)

\* The status on its way to the log is the one the client goes by, if there is
\* one status line and althttpd has seen it.
Agree ==
  wire.lines = 1 /\ wire.status # 0 /\ replyStatus # 418 =>
    replyStatus = wire.status

\* A program that has sent a status is no longer asked for a range.
StatusInv ==
  /\ pc \in {"send", "log"} => Agree
  /\ pc = "cgi" /\ statusSent =>
       wire.lines >= 1 /\ global.rangeEnd = 0 /\ Agree
  /\ pc = "logged" =>
       /\ log # <<>>
       /\ wire.lines = 1 /\ wire.status # 0 /\ replyStatus # 418 =>
            log[Len(log)].status = wire.status

\* Where no status is on its way.
LEMMA NoStatusYet ==
  ASSUME pc' \notin {"send", "log", "logged"},
         pc' = "cgi" => ~statusSent'
  PROVE  StatusInv'
BY DEF StatusInv

LEMMA StatusStep ==
  ASSUME TypeOK, AnswerInv, OmitInv, StatusInv, Next
  PROVE  StatusInv'
<1> USE DEF reply, ctl
<1>0. /\ wire \in Replies /\ closeConnection \in BOOLEAN
      /\ global \in GlobalFunctions
  BY TagTypes DEF TypeOK
<1>1. CASE Top \/ EndOfInput
  BY <1>1, NoStatusYet DEF Top, EndOfInput
<1>2. CASE (Request \/ Route) /\ Silent
  <2>1. pc' \notin {"send", "log", "logged", "cgi"}
    BY <1>2 DEF Silent, Unanswered
  <2> QED
    BY <2>1, NoStatusYet
<1>3. CASE AnyRefusal
  <2>1. PICK status, close, r : Refusal(status, close, r)
    BY <1>3 DEF AnyRefusal
  <2>2. ~statusSent /\ wire = NoReply /\ pc' = "log"
    BY <2>1 DEF Refusal, AnswerInv, LogThen
  <2>3. replyStatus' = status /\ wire'.status = status
    BY <1>0, <2>1, <2>2, RefusalStarts
  <2> QED
    BY <2>2, <2>3 DEF StatusInv, Agree
<1>4. CASE ForwardPost
  <2>1. ~statusSent' /\ pc' \in {"nph", "cgi"}
    BY <1>4 DEF ForwardPost, AnswerInv, Unanswered
  <2> QED
    BY <2>1, NoStatusYet
<1>5. CASE Interrupt \/ (ForwardNull /\ pc' = "exit")
  BY <1>5, NoStatusYet DEF Interrupt, Signal, Handle
<1>6. CASE ForwardNull /\ pc' # "exit"
  <2>1. ~statusSent' /\ pc' = "cgi"
    BY <1>6 DEF ForwardNull, Handle, AnswerInv, Unanswered
  <2> QED
    BY <2>1, NoStatusYet
<1>7. CASE FinishLog \/ SetOmitLog \/ Exit \/ Flush \/ Exited
  <2>1. pc' \in {"exit", "flush", "top", "omit", "exited"}
    BY <1>7 DEF FinishLog, SetOmitLog, Exit, Flush, Exited, vars
  <2> QED
    BY <2>1, NoStatusYet
<1>8. CASE Sent
  <2>1. pc' \in {"exit", "log"} /\ Agree'
    BY <1>8 DEF Sent, StatusInv, Agree
  <2> QED
    BY <2>1 DEF StatusInv
<1>9. CASE WriteLog
  <2>1. ~omitLog
    BY <1>9 DEF WriteLog, OmitInv, Muted
  <2>2. log' = Append(log, Entry) /\ Entry \in Entries
    <3>1. replyStatus' \in 0..999 /\ global.zScript \in Requests
      BY <1>9 DEF WriteLog, TypeOK, Globals
    <3> QED
      BY <1>9, <2>1, <3>1 DEF WriteLog, Entry, Entries, TypeOK
  <2>3. log' # <<>> /\ log'[Len(log')] = Entry
    BY <2>2 DEF TypeOK
  <2>4. /\ pc' = "logged" /\ Entry.status = replyStatus'
        /\ UNCHANGED <<wire, replyStatus>> /\ Agree
    BY <1>9 DEF WriteLog, Entry, StatusInv
  <2> QED
    BY <2>3, <2>4 DEF StatusInv, Agree
<1>10. CASE Respond
  <2>1. CASE NotModified \/ SendPart
    <3>0. ~statusSent /\ wire = NoReply /\ pc' \in {"log", "send"}
      BY <2>1
      DEF NotModified, SendPart, SendContent, LogThen, AnswerInv, Unanswered
    <3>1. wire.lines = 0
      BY <3>0 DEF NoReply
    <3>2. StartResponse(206, FALSE) \/ StartResponse(304, FALSE)
      BY <2>1 DEF NotModified, SendPart
    <3>3. replyStatus' = wire'.status
      <4>1. CASE StartResponse(206, FALSE)
        BY <1>0, <3>0, <3>1, <4>1, StartsNormally
      <4>2. CASE StartResponse(304, FALSE)
        BY <1>0, <3>0, <3>1, <4>2, StartsNormally
      <4> QED
        BY <3>2, <4>1, <4>2
    <3> QED
      BY <3>0, <3>3 DEF StatusInv, Agree
  <2>2. CASE FileGone
    BY <1>3, <2>2, FileGoneRefuses
  <2>3. CASE SendWhole
    <3>1. PICK gz \in BOOLEAN : wire' = [Started(wire, 200) EXCEPT !.gzip = gz]
      BY <2>3 DEF SendWhole
    <3>2. Started(wire, 200) \in Replies
      BY <1>0, StartedType
    <3>3. wire.lines = 0
      BY <2>3 DEF SendWhole, AnswerInv, Unanswered, NoReply
    <3>4. Started(wire, 200).status = 200
      BY <1>0, <3>3 DEF Started, StatusLine, Replies
    <3>5. wire'.status = 200
      BY <3>1, <3>2, <3>4 DEF Replies
    <3>6. replyStatus' = 200 /\ pc' \in {"log", "send"}
      BY <2>3 DEF SendWhole, SendContent, LogThen
    <3> QED
      BY <3>5, <3>6 DEF StatusInv, Agree
  <2>4. CASE PipeThrough
    <3>1. wire.lines = 0
      BY <2>4 DEF PipeThrough, AnswerInv
    <3>2. wire'.status = 0 /\ pc' = "send"
      BY <2>4, <3>1 DEF PipeThrough, StatusLine
    <3> QED
      BY <3>2 DEF StatusInv, Agree
  <2>5. CASE CgiLocation
    <3>1. pc = "cgi" /\ pc' = "cgi" /\ StartResponse(302, FALSE)
      BY <2>5 DEF CgiLocation
    <3>2. global'.rangeEnd = 0
      BY <1>0, <2>5 DEF CgiLocation, GlobalFunctions, Globals
    <3>3. CASE ~statusSent
      <4>1. wire.lines = 0
        BY <3>1, <3>3 DEF AnswerInv
      <4>2. replyStatus' = 302 /\ wire'.status = 302 /\ wire'.lines = 1
        BY <1>0, <3>1, <3>3, <4>1, StartsNormally
      <4> QED
        BY <3>1, <3>2, <4>2 DEF StatusInv, Agree
    <3>4. CASE statusSent
      <4>1. replyStatus' = replyStatus /\ wire' = wire
        BY <3>1, <3>4, Zenon DEF StartResponse
      <4> QED
        BY <3>1, <3>2, <3>4, <4>1 DEF StatusInv, Agree
    <3> QED
      BY <3>3, <3>4
  <2>6. CASE CgiLength
    BY <2>6 DEF CgiLength, StatusInv, Agree
  <2>7. ASSUME NEW code \in CgiCodes, CgiStatus(code)
        PROVE  StatusInv'
    <3>1. pc = "cgi" /\ pc' = "cgi" /\ replyStatus' = code
      BY <2>7 DEF CgiStatus
    <3>2. CASE global.rangeEnd = 0 \/ code \notin {200, 206}
      <4>1. wire' = StatusLine(wire, code, "program") /\ global'.rangeEnd = 0
        BY <1>0, <2>7, <3>2 DEF CgiStatus, GlobalFunctions, Globals
      <4>2. /\ wire'.lines \in {1, 2}
            /\ wire'.lines = 1 => wire'.status = code
        BY <1>0, <4>1 DEF StatusLine, OneMore, Replies
      <4> QED
        BY <3>1, <4>1, <4>2 DEF StatusInv, Agree
    <3>3. CASE ~(global.rangeEnd = 0 \/ code \notin {200, 206})
      <4>1. ~statusSent /\ statusSent' = statusSent
        BY <2>7, <3>1, <3>3 DEF CgiStatus, StatusInv
      <4> QED
        BY <3>1, <4>1, NoStatusYet
    <3> QED
      BY <3>2, <3>3
  <2>8. CASE CgiAbuse
    <3>1. pc = "cgi" /\ pc' = "log"
      BY <2>8 DEF CgiAbuse, LogThen
    <3>2. CASE statusSent
      <4>1. replyStatus' = 418
        BY <2>8, <3>2 DEF CgiAbuse
      <4> QED
        BY <3>1, <4>1 DEF StatusInv, Agree
    <3>3. CASE ~statusSent
      <4>1. wire.lines = 0 /\ replyStatus' = 503 /\ wire' = Started(wire, 503)
        BY <2>8, <3>1, <3>3 DEF CgiAbuse, AnswerInv
      <4>2. wire'.status = 503
        BY <1>0, <4>1 DEF Started, StatusLine, Replies
      <4> QED
        BY <3>1, <4>1, <4>2 DEF StatusInv, Agree
    <3> QED
      BY <3>2, <3>3
  <2>9. CASE CgiEnd
    <3>0. PICK part \in BOOLEAN, body \in {"none", "short", "exact"} :
            LET status == IF part THEN 206 ELSE 200
            IN  /\ replyStatus' = IF statusSent THEN replyStatus ELSE status
                /\ wire' = [IF statusSent THEN wire ELSE Started(wire, status)
                              EXCEPT !.body = body]
      BY <2>9 DEF CgiEnd
    <3> DEFINE status == IF part THEN 206 ELSE 200
    <3>1. /\ status \in {200, 206}
          /\ replyStatus' = IF statusSent THEN replyStatus ELSE status
          /\ wire' = [IF statusSent THEN wire ELSE Started(wire, status)
                        EXCEPT !.body = body]
      BY <3>0
    <3> HIDE DEF status
    <3>2. pc = "cgi" /\ pc' = "send"
      BY <2>9 DEF CgiEnd
    <3>3. CASE statusSent
      <4>1. /\ wire'.status = wire.status /\ wire'.lines = wire.lines
            /\ replyStatus' = replyStatus
        BY <1>0, <3>1, <3>3 DEF Replies
      <4> QED
        BY <3>2, <3>3, <4>1 DEF StatusInv, Agree
    <3>4. CASE ~statusSent
      <4>1. Started(wire, status) \in Replies
        BY <1>0, <3>1, StartedType
      <4>2. wire.lines = 0
        BY <3>2, <3>4 DEF AnswerInv
      <4>3. Started(wire, status).status = status
        BY <1>0, <4>2 DEF Started, StatusLine, Replies
      <4>4. wire'.status = status /\ replyStatus' = status
        BY <3>1, <3>4, <4>1, <4>3 DEF Replies
      <4> QED
        BY <3>2, <4>4 DEF StatusInv, Agree
    <3> QED
      BY <3>3, <3>4
  <2> QED
    BY <1>10, <2>1, <2>2, <2>3, <2>4, <2>5, <2>6, <2>7, <2>8, <2>9
    DEF Respond
<1> QED
  BY <1>1, <1>2, <1>3, <1>4, <1>5, <1>6, <1>7, <1>8, <1>9, <1>10,
     RequestShape, RouteShape
  DEF Next, Program

\* The status in the log is the one the client goes by, whatever order a program
\* writes its lines in; the property says which programs escape this.
THEOREM StatusLogged == Spec => []LoggedStatusIsSent
<1>1. Init => StatusInv
  BY DEF Init, StatusInv, Agree
<1>2. TypeOK /\ AnswerInv /\ OmitInv /\ StatusInv /\ [Next]_vars => StatusInv'
  <2>1. CASE UNCHANGED vars
    BY <2>1 DEF vars, reply, ctl, StatusInv, Agree
  <2> QED
    BY <2>1, StatusStep
<1>3. (LogInv => OmitInv) /\ (StatusInv => LoggedStatusIsSent)
  BY DEF LogInv, StatusInv, LoggedStatusIsSent
<1> QED
  BY <1>1, <1>2, <1>3, TypeCorrect, AnswerCorrect, LogCorrect, PTL DEF Spec
=============================================================================
