----------------------------- MODULE Connection -----------------------------
(***************************************************************************)
(* One connection of althttpd: the loop at the end of main() that calls    *)
(* ProcessOneRequest() up to KeepAlive times and once more with forceClose *)
(* set, and everything a request goes through: request line, headers, POST *)
(* body, routing, reply (static file, CGI, SCGI, redirect, error), log     *)
(* entry, and the signal handler that may interrupt all of it.             *)
(*                                                                         *)
(* althttpd keeps the state of a request in global variables that outlive  *)
(* the request when the connection is kept alive.  What a global holds is  *)
(* abstracted to who set it: 0 is the initial value (NULL, 0), k says that *)
(* request k of this connection set it.  A value is then stale iff it is   *)
(* neither 0 nor nRequest.  Numbers are kept where the code compares them  *)
(* with each other (nRequest); a comparison with data that is not modelled *)
(* (is the range inside the file? does the ETag match?) may go both ways.  *)
(***************************************************************************)
EXTENDS Integers, Sequences, FiniteSets

CONSTANTS
  KeepAlive,  \* requests served before the forced last one: 100 in main()
  Methods,    \* methods clients use: a subset of {"GET", "HEAD", "POST"}
  Headers,    \* header fields clients send, a subset of DOMAIN SetBy
  Routes,     \* what requests may lead to, a subset of AllRoutes
  CgiLines,   \* header lines CGI programs reply with, a subset of AllCgiLines
  Signals     \* signals that may arrive, a subset of AllSignals

\* The globals that a header field sets.  "Range:" sets both ends; a range that
\* starts at byte 0 is the field "Range0:".
SetBy ==
  [ Cookie |-> {"zCookie"}, Referer |-> {"zReferer"}, Agent |-> {"zAgent"},
    ContentLength |-> {"zContentLength"}, Range |-> {"rangeStart", "rangeEnd"},
    Range0 |-> {"rangeEnd"}, Host |-> {"zHttpHost"},
    AcceptEncoding |-> {"zAcceptEncoding"}, IfNoneMatch |-> {"zIfNoneMatch"},
    IfModifiedSince |-> {"zIfModifiedSince"},
    Authorization |-> {"zAuthType", "zAuthArg"}, Connection |-> {} ]

AllRoutes == {"static", "cgi", "nph", "scgi", "fallback", "redirect", "auth",
              "refuse"}
AllCgiLines == {"Location", "Content-length", "200", "206", "304", "404", "418"}
AllSignals == {"SIGALRM", "SIGPIPE", "SIGXCPU"}

ASSUME ConnectionAssumption ==
  /\ KeepAlive \in Nat
  /\ Methods \subseteq {"GET", "HEAD", "POST"}
  /\ Headers \subseteq DOMAIN SetBy
  /\ Routes \subseteq AllRoutes
  /\ CgiLines \subseteq AllCgiLines
  /\ Signals \subseteq AllSignals

VARIABLES
  pc,              \* where the process is
  ret,             \* where it goes on after MakeLogEntry()
  nRequest,        \* number of requests begun
  method,          \* zMethod
  global,          \* the other globals, each with the request that set it
  closeConnection, statusSent, omitLog, isExiting,
  replyStatus,     \* zReplyStatus, 0 when empty
  nTimeoutLine,    \* 0, or the tag of the alarm that is set
  cgi,             \* seenContentLength and iStatus of CgiHandleReply()
  handling,        \* signals whose handler is running (and blocks them)
  wire,            \* history: the reply to this request, as the client sees it
  log              \* history: the entries of the log file

reply == <<closeConnection, statusSent, replyStatus, wire>>
ctl == <<omitLog, isExiting, handling, log>>
vars == <<pc, ret, nRequest, method, global, reply, ctl, nTimeoutLine, cgi>>

Requests == 0..(KeepAlive + 1)

\* The globals of althttpd that the model keeps.
Globals == {"zCookie", "zReferer", "zAgent", "zContentLength", "rangeStart",
            "rangeEnd", "zHttpHost", "zAcceptEncoding", "zIfNoneMatch",
            "zIfModifiedSince", "zAuthType", "zAuthArg", "zScript",
            "zPostData", "nPostData", "zRemoteUser", "zHttpScheme"}

-----------------------------------------------------------------------------
(* Faulty variants of definitions below, as a slip in the code would make   *)
(* them; none is part of the specification.  Each breaks a property.        *)

\* The reset before the headers forgets the end of the range.
ClearedButRange == {"zCookie", "zAuthType", "zRemoteUser", "zReferer",
                    "zIfNoneMatch", "zIfModifiedSince", "zContentLength"}

-----------------------------------------------------------------------------

\* The globals ProcessOneRequest() resets before it reads the headers.
Cleared == {"zCookie", "zAuthType", "zRemoteUser", "zReferer", "zIfNoneMatch",
            "zIfModifiedSince", "zContentLength", "rangeEnd"}

forceClose == nRequest = KeepAlive + 1

\* Nothing sent yet.  lines counts status lines, 2 standing for several (the
\* bound of the counter); status is that of the first one, which is what a client
\* goes by, and by is who wrote it, althttpd or a program; announce is the
\* Connection header; body is "short" if fewer bytes follow than Content-length
\* declares; posted is the request whose POST data an application was given.
NoReply == [lines |-> 0, status |-> 0, by |-> "nobody", announce |-> "none",
            gzip |-> FALSE, body |-> "none", posted |-> 0]

OneMore(lines) == IF lines = 0 THEN 1 ELSE 2

NoCgi == [len |-> FALSE, status |-> 0]

\* Places where the process waits for the client or for a CGI program.
Waiting == {"line", "headers", "readpost", "forward", "cgi", "send", "flush"}
Locations == Waiting \cup {"top", "parse", "body", "route", "dispatch", "file",
                           "nph", "log", "logged", "omit", "exit", "exited"}

Init ==
  /\ pc = "top" /\ ret = "return"
  /\ nRequest = 0
  /\ method = "GET"
  /\ global = [g \in Globals |-> 0]
  /\ closeConnection = FALSE /\ statusSent = FALSE
  /\ omitLog = FALSE /\ isExiting = FALSE
  /\ replyStatus = 0
  /\ nTimeoutLine = 0
  /\ cgi = NoCgi
  /\ handling = {}
  /\ wire = NoReply
  /\ log = <<>>

\* Assign v to the globals of set G.
Assign(G, v) == [g \in Globals |-> IF g \in G THEN v ELSE global[g]]

SetTimeout(line) == nTimeoutLine' = line

-----------------------------------------------------------------------------
(* Replies. *)

\* The reply w after another status line, which the client takes for a header
\* field if it is not the first.
StatusLine(w, status, who) ==
  [lines |-> OneMore(w.lines),
   status |-> IF w.lines = 0 THEN status ELSE w.status,
   by |-> IF w.lines = 0 THEN who ELSE w.by,
   announce |-> w.announce, gzip |-> w.gzip, body |-> w.body,
   posted |-> w.posted]

\* The reply w after a status line and the Connection header.
Started(w, status) ==
  [StatusLine(w, status, "althttpd") EXCEPT
     !.announce = IF closeConnection \/ status >= 400 THEN "close" ELSE "keep"]

\* StartResponse(): does nothing if a status line was sent; a status from 400
\* on closes the connection.  If close holds, the caller sets closeConnection
\* afterwards, when the Connection header is already written.
StartResponse(status, close) ==
  /\ closeConnection' =
       (closeConnection \/ close \/ (~statusSent /\ status >= 400))
  /\ statusSent' = TRUE
  /\ IF statusSent
     THEN UNCHANGED <<replyStatus, wire>>
     ELSE /\ replyStatus' = status
          /\ wire' = Started(wire, status)

\* MakeLogEntry() comes next; then the process goes to r.
LogThen(r) == pc' = "log" /\ ret' = r

\* An error reply: StartResponse(), log entry, althttpd_exit().
Fail(status) == StartResponse(status, status \in {403, 503}) /\ LogThen("exit")

\* NotFound(): 503 instead of 404 if the URL looks like an attack.
NotFound == \E status \in {404, 503} : Fail(status)

-----------------------------------------------------------------------------
(* Faulty variants of actions below. *)

\* "Connection: keep-alive" is obeyed on the last request too.
ConnectionHeaderAlways ==
  /\ pc = "headers" /\ "Connection" \in Headers
  /\ closeConnection' \in BOOLEAN
  /\ UNCHANGED <<pc, ret, nRequest, method, global, statusSent, replyStatus,
                 wire, ctl, nTimeoutLine, cgi>>

\* The alarm for the POST data is computed as 0, which cancels it.
BeginPostNoAlarm ==
  /\ pc = "body" /\ method = "POST" /\ global.zContentLength # 0
  /\ global' = [Assign({"rangeEnd"}, 0) EXCEPT !.zPostData = nRequest]
  /\ SetTimeout(0) /\ pc' = "readpost"
  /\ UNCHANGED <<ret, nRequest, method, reply, ctl, cgi>>

\* SendFile() is called before closeConnection is set for the fallback.
BeginFileLate ==
  /\ pc = "dispatch" /\ pc' = "file"
  /\ \/ "static" \in Routes /\ ret' = "omit"
     \/ "fallback" \in Routes /\ ret' = "nolog"
  /\ global' = [global EXCEPT !.zPostData = 0]
  /\ UNCHANGED <<nRequest, method, reply, ctl, nTimeoutLine, cgi>>

\* The 304 reply is logged, and logged again as a normal reply.
NotModifiedTwice ==
  /\ pc = "file" /\ StartResponse(304, FALSE) /\ LogThen("return")
  /\ global.zIfNoneMatch # 0 \/ global.zIfModifiedSince # 0
  /\ log' = Append(log, [req |-> nRequest, script |-> nRequest, status |-> 304])
  /\ UNCHANGED <<nRequest, method, global, omitLog, isExiting, handling,
                 nTimeoutLine, cgi>>

\* A request line is rejected before the URL in it is kept.
RejectLineEarly ==
  /\ pc = "parse"
  /\ \E status \in {400, 414, 501} : Fail(status)
  /\ UNCHANGED <<nRequest, method, global, ctl, nTimeoutLine, cgi>>

\* A HEAD request returns without a log entry.
SendContentUnlogged ==
  /\ pc' = IF method = "HEAD" THEN "top" ELSE "send"
  /\ UNCHANGED ret

\* The status of the program is passed on but not recorded.
CgiStatusUnrecorded(code) ==
  /\ pc = "cgi"
  /\ cgi' = [cgi EXCEPT !.status = code]
  /\ wire' = StatusLine(wire, code, "program")
  /\ global' = [global EXCEPT !.rangeEnd = 0] /\ statusSent' = TRUE
  /\ UNCHANGED <<pc, ret, nRequest, method, closeConnection, replyStatus, ctl,
                 nTimeoutLine>>

\* The log entry does not release the POST data.
WriteLogKeepsPost ==
  /\ pc = "log" /\ pc' = "logged"
  /\ log' = IF omitLog THEN log
            ELSE Append(log, [req |-> nRequest, script |-> global.zScript,
                              status |-> replyStatus])
  /\ UNCHANGED <<ret, nRequest, method, global, reply, omitLog, isExiting,
                 handling, nTimeoutLine, cgi>>

-----------------------------------------------------------------------------
(* ProcessOneRequest(): from its entry to the end of the headers. *)

\* Timeout of 10 seconds for the first header, 5 minutes for later ones.
Top ==
  /\ pc = "top"
  /\ SetTimeout(IF nRequest > 0 THEN 801 ELSE 802)
  /\ nRequest' = nRequest + 1
  /\ omitLog' = TRUE
  /\ wire' = NoReply
  /\ pc' = "line"
  /\ UNCHANGED <<ret, method, global, closeConnection, statusSent, replyStatus,
                 isExiting, handling, log, cgi>>

\* The request line arrives.
ReadLine ==
  /\ pc = "line"
  /\ omitLog' = FALSE
  /\ pc' = "parse"
  /\ UNCHANGED <<ret, nRequest, method, global, reply, isExiting, handling, log,
                 nTimeoutLine, cgi>>

\* The client has closed the connection: althttpd_exit(0).
EndOfInput ==
  /\ pc = "line"
  /\ pc' = "exit"
  /\ UNCHANGED <<ret, nRequest, method, global, reply, ctl, nTimeoutLine, cgi>>

\* A request line that is malformed (400), too long (414), names no absolute
\* path (404, 503) or an unknown method (501).  No URL at all is a URL too.
RejectLine ==
  /\ pc = "parse"
  /\ \/ \E status \in {400, 414, 501} : Fail(status)
     \/ NotFound
  /\ global' = Assign({"zScript"}, nRequest)
  /\ UNCHANGED <<nRequest, method, ctl, nTimeoutLine, cgi>>

\* A good request line, of HTTP/1.1 or of an older protocol.
ParseLine ==
  /\ pc = "parse"
  /\ method' \in Methods
  /\ \E old \in BOOLEAN :
       closeConnection' = (closeConnection \/ forceClose \/ old)
  /\ global' = [Assign(Cleared, 0) EXCEPT !.zScript = nRequest]
  /\ pc' = "headers"
  /\ UNCHANGED <<ret, nRequest, statusSent, replyStatus, wire, ctl,
                 nTimeoutLine, cgi>>

\* One header field.  "Range:" counts for GET only, and its start byte
\* replaces what an earlier field has left.
ReadHeader(h) ==
  /\ pc = "headers"
  /\ h \in {"Range", "Range0"} => method = "GET"
  /\ global' = IF h = "Range0"
               THEN [Assign(SetBy[h], nRequest) EXCEPT !.rangeStart = 0]
               ELSE Assign(SetBy[h], nRequest)
  /\ UNCHANGED <<pc, ret, nRequest, method, reply, ctl, nTimeoutLine, cgi>>

\* "Connection: close", or "Connection: keep-alive" when it is not forced.
ConnectionHeader ==
  /\ pc = "headers" /\ "Connection" \in Headers
  /\ \/ closeConnection' = TRUE
     \/ ~forceClose /\ closeConnection' = FALSE
  /\ UNCHANGED <<pc, ret, nRequest, method, global, statusSent, replyStatus,
                 wire, ctl, nTimeoutLine, cgi>>

\* Forbidden(): a banned referer, an illegal host.
RejectHeader ==
  /\ pc = "headers"
  /\ Headers \cap {"Referer", "Host"} # {}
  /\ Fail(403)
  /\ UNCHANGED <<nRequest, method, global, ctl, nTimeoutLine, cgi>>

\* The empty line, or the end of the input.
EndHeaders ==
  /\ pc = "headers"
  /\ pc' = "body"
  /\ UNCHANGED <<ret, nRequest, method, global, reply, ctl, nTimeoutLine, cgi>>

-----------------------------------------------------------------------------
(* From the end of the headers to the reply. *)

\* A banned user agent (403), a spider without referer (404, 503), or more POST
\* data than MAX_CONTENT_LENGTH (500).
RejectRequest ==
  /\ pc = "body"
  /\ \/ global.zAgent # 0 /\ Fail(403)
     \/ NotFound
     \/ method = "POST" /\ global.zContentLength # 0 /\ Fail(500)
  /\ UNCHANGED <<nRequest, method, global, ctl, nTimeoutLine, cgi>>

HasPostData == method = "POST" /\ global.zContentLength # 0

\* Allocate the buffer of the POST data and start to read it.
BeginPost ==
  /\ pc = "body" /\ HasPostData
  /\ global' = [Assign({"rangeEnd"}, 0) EXCEPT !.zPostData = nRequest]
  /\ SetTimeout(803)
  /\ pc' = "readpost"
  /\ UNCHANGED <<ret, nRequest, method, reply, ctl, cgi>>

\* The POST data has arrived, or the client has sent none of it.
ReadPost ==
  /\ pc = "readpost"
  /\ \E got \in {0, nRequest} :
       global' = [global EXCEPT !.nPostData = got]
  /\ SetTimeout(804)
  /\ pc' = "route"
  /\ UNCHANGED <<ret, nRequest, method, reply, ctl, cgi>>

NoPost ==
  /\ pc = "body" /\ ~HasPostData
  /\ SetTimeout(804)
  /\ pc' = "route"
  /\ UNCHANGED <<ret, nRequest, method, global, reply, ctl, cgi>>

\* 404, 503 (banned address) or 500 (malfunction, writable CGI program, bad
\* SCGI file) instead of the document.
Refuse ==
  /\ pc \in {"route", "dispatch"} /\ "refuse" \in Routes
  /\ \E status \in {404, 500, 503} : Fail(status)
  /\ UNCHANGED <<nRequest, method, global, ctl, nTimeoutLine, cgi>>

\* Redirect() with finish set: -redirect file, not-found.html, missing "/".
Redirect ==
  /\ pc = "route" /\ "redirect" \in Routes
  /\ \E status \in {301, 302} : StartResponse(status, FALSE)
  /\ LogThen("return")
  /\ UNCHANGED <<nRequest, method, global, ctl, nTimeoutLine, cgi>>

\* The document is found and needs no authorization, or the -auth file says
\* "anyone".
Open ==
  /\ pc = "route"
  /\ pc' = "dispatch"
  /\ UNCHANGED <<ret, nRequest, method, global, reply, ctl, nTimeoutLine, cgi>>

\* CheckBasicAuthorization(): a "user" line of the -auth file matches the
\* credentials, none does, or "http-redirect" sends the client to https.
Authorize ==
  /\ pc = "route" /\ "auth" \in Routes
  /\ \/ /\ global.zAuthArg # 0
        /\ global' = [global EXCEPT !.zRemoteUser = nRequest]
        /\ pc' = "dispatch"
        /\ UNCHANGED <<ret, reply>>
     \/ StartResponse(401, FALSE) /\ LogThen("return") /\ UNCHANGED global
     \/ /\ global' = [global EXCEPT !.zHttpScheme = nRequest]
        /\ StartResponse(301, FALSE) /\ LogThen("return")
  /\ UNCHANGED <<nRequest, method, ctl, nTimeoutLine, cgi>>

-----------------------------------------------------------------------------
(* SendFile(): a static file, or the fallback of an SCGI server. *)

\* The route of the request becomes a call of SendFile().  A fallback file is
\* sent with closeConnection set, and the caller then exits: it makes no log
\* entry of its own.
BeginFile ==
  /\ pc = "dispatch"
  /\ \/ "static" \in Routes /\ ret' = "omit" /\ UNCHANGED closeConnection
        /\ SetTimeout(805)
     \/ "fallback" \in Routes /\ ret' = "nolog" /\ closeConnection' = TRUE
        /\ UNCHANGED nTimeoutLine
  /\ global' = [global EXCEPT !.zPostData = 0]
  /\ pc' = "file"
  /\ UNCHANGED <<nRequest, method, statusSent, replyStatus, wire, ctl, cgi>>

\* The ETag or the date of a conditional request matches: 304.
NotModified ==
  /\ pc = "file"
  /\ global.zIfNoneMatch # 0 \/ global.zIfModifiedSince # 0
  /\ StartResponse(304, FALSE)
  /\ LogThen("return")
  /\ UNCHANGED <<nRequest, method, global, ctl, nTimeoutLine, cgi>>

\* fopen() fails although stat() and access() did not.
FileGone ==
  /\ pc = "file"
  /\ NotFound
  /\ UNCHANGED <<nRequest, method, global, ctl, nTimeoutLine, cgi>>

\* After the header of a file, a HEAD request is logged and done; otherwise
\* the content follows.
SendContent ==
  IF method = "HEAD" THEN LogThen("return") ELSE pc' = "send" /\ UNCHANGED ret

\* The part of the file the Range header asks for, if it starts in the file.
SendPart ==
  /\ pc = "file"
  /\ global.rangeEnd # 0
  /\ StartResponse(206, FALSE)
  /\ SendContent
  /\ UNCHANGED <<nRequest, method, global, ctl, nTimeoutLine, cgi>>

\* The whole file, or its .gz twin if the client accepts gzip and no range was
\* asked for.
SendWhole ==
  /\ pc = "file"
  /\ \E gz \in BOOLEAN :
       /\ gz => global.rangeEnd = 0 /\ global.zAcceptEncoding # 0
       /\ replyStatus' = 200 /\ statusSent' = TRUE
       /\ wire' = [Started(wire, 200) EXCEPT !.gzip = gz]
  /\ global' = [global EXCEPT !.rangeStart = 0]
  /\ SendContent
  /\ UNCHANGED <<nRequest, method, closeConnection, ctl, nTimeoutLine, cgi>>

-----------------------------------------------------------------------------
(* CGI and SCGI programs. *)

\* A program takes the request: its POST data go out next, and its reply is
\* then read with a timeout of an hour.
Begin(r) ==
  /\ pc = "dispatch" /\ r \in Routes
  /\ pc' = "forward"
  /\ ret' = r
  /\ cgi' = NoCgi
  /\ UNCHANGED <<nRequest, method, global, reply, ctl, nTimeoutLine>>

\* fork() and exec of a CGI program, or the connection to an SCGI server.
BeginCgi == Begin("cgi") \/ Begin("nph")
BeginScgi == Begin("scgi")

\* The POST data are written.  A CGI program gets nothing if the buffer was
\* freed (write() fails); the count is then kept.  For an SCGI server the
\* buffer is read whenever the count is not 0.
ForwardPost ==
  /\ pc = "forward"
  /\ ret = "scgi" => (global.nPostData # 0 => global.zPostData # 0)
  /\ wire' = [wire EXCEPT !.posted =
                IF global.nPostData # 0 THEN global.zPostData ELSE 0]
  /\ global' = IF IF ret = "scgi" THEN global.nPostData # 0
                                  ELSE global.zPostData # 0
               THEN Assign({"zPostData", "nPostData"}, 0)
               ELSE global
  /\ SetTimeout(800)
  /\ pc' = IF ret = "nph" THEN "nph" ELSE "cgi"
  /\ ret' = "omit"
  /\ UNCHANGED <<nRequest, method, closeConnection, statusSent, replyStatus,
                 ctl, cgi>>

\* The output of a non-parsed-header program is piped through; it is the
\* program that writes the status line, which althttpd does not read (0).
PipeThrough ==
  /\ pc = "nph"
  /\ wire' = StatusLine(wire, 0, "program")
  /\ pc' = "send"
  /\ UNCHANGED <<ret, nRequest, method, global, closeConnection, statusSent,
                 replyStatus, ctl, nTimeoutLine, cgi>>

\* "Location:" starts a 302 reply.
CgiLocation ==
  /\ pc = "cgi" /\ "Location" \in CgiLines
  /\ StartResponse(302, FALSE)
  /\ global' = [global EXCEPT !.rangeEnd = 0]
  /\ UNCHANGED <<pc, ret, nRequest, method, ctl, nTimeoutLine, cgi>>

CgiLength ==
  /\ pc = "cgi" /\ "Content-length" \in CgiLines
  /\ cgi' = [cgi EXCEPT !.len = TRUE]
  /\ UNCHANGED <<pc, ret, nRequest, method, global, reply, ctl, nTimeoutLine>>

\* The codes a "Status:" line may carry in this instance.
CgiCodes == { c \in {200, 206, 304, 404} :
                \/ c = 200 /\ "200" \in CgiLines
                \/ c = 206 /\ "206" \in CgiLines
                \/ c = 304 /\ "304" \in CgiLines
                \/ c = 404 /\ "404" \in CgiLines }

\* "Status:" is sent on as the status line, without a look at statusSent; but
\* a 200 or 206 is held back while a range is asked for.
CgiStatus(code) ==
  /\ pc = "cgi"
  /\ replyStatus' = code
  /\ cgi' = [cgi EXCEPT !.status = code]
  /\ IF global.rangeEnd = 0 \/ code \notin {200, 206}
     THEN /\ wire' = StatusLine(wire, code, "program")
          /\ global' = [global EXCEPT !.rangeEnd = 0]
          /\ statusSent' = TRUE
     ELSE UNCHANGED <<wire, global, statusSent>>
  /\ UNCHANGED <<pc, ret, nRequest, method, closeConnection, ctl,
                 nTimeoutLine>>

\* "Status: 418" reports abuse: ServiceUnavailable().
CgiAbuse ==
  /\ pc = "cgi" /\ "418" \in CgiLines
  /\ closeConnection' = TRUE /\ statusSent' = TRUE
  /\ IF statusSent
     THEN replyStatus' = 418 /\ UNCHANGED wire
     ELSE replyStatus' = 503 /\ wire' = Started(wire, 503)
  /\ LogThen("exit")
  /\ UNCHANGED <<nRequest, method, global, ctl, nTimeoutLine, cgi>>

\* The header of the program ends and the body follows.  The range is honoured
\* only for a reply with Content-length; but rangeStart bytes are skipped
\* whether or not it is, also when an earlier request of the connection has
\* left them.
CgiEnd ==
  /\ pc = "cgi"
  /\ \E part \in BOOLEAN :
       LET status == IF part THEN 206 ELSE 200
           body == IF cgi.status = 304 THEN "none"
                   ELSE IF cgi.len /\ ~part /\ global.rangeStart # 0
                        THEN "short" ELSE "exact"
       IN /\ part => global.rangeEnd # 0 /\ cgi.len
          /\ statusSent' = TRUE
          /\ replyStatus' = IF statusSent THEN replyStatus ELSE status
          /\ wire' = [IF statusSent THEN wire ELSE Started(wire, status)
                        EXCEPT !.body = body]
  /\ pc' = "send"
  /\ UNCHANGED <<ret, nRequest, method, global, closeConnection, ctl,
                 nTimeoutLine, cgi>>

-----------------------------------------------------------------------------
(* The end of a request: the rest of the reply, the log entry, the next one. *)

\* The client has taken the reply.  After a fallback file the process exits.
Sent ==
  /\ pc = "send"
  /\ pc' = IF ret = "nolog" THEN "exit" ELSE "log"
  /\ UNCHANGED <<ret, nRequest, method, global, reply, ctl, nTimeoutLine, cgi>>

Entry == [req |-> nRequest, script |-> global.zScript, status |-> replyStatus']

\* MakeLogEntry() up to the write(): frees the POST data (but keeps nPostData)
\* and appends one entry.
WriteLog ==
  /\ pc = "log"
  /\ global' = [global EXCEPT !.zPostData = 0]
  /\ UNCHANGED replyStatus
  /\ log' = IF omitLog THEN log ELSE Append(log, Entry)
  /\ pc' = "logged"
  /\ UNCHANGED <<ret, nRequest, method, closeConnection, statusSent, wire,
                 omitLog, isExiting, handling, nTimeoutLine, cgi>>

\* The rest of MakeLogEntry(): exit if the connection is to be closed.
FinishLog ==
  /\ pc = "logged"
  /\ IF closeConnection
     THEN pc' = "exit" /\ UNCHANGED statusSent
     ELSE /\ statusSent' = FALSE
          /\ pc' = CASE ret = "return" -> "top"
                     [] ret = "omit" -> "omit"
                     [] OTHER -> "exit"
  /\ UNCHANGED <<ret, nRequest, method, global, closeConnection, replyStatus,
                 wire, ctl, nTimeoutLine, cgi>>

\* A normal reply ends with omitLog set; the other returns leave it as it is.
SetOmitLog ==
  /\ pc = "omit"
  /\ omitLog' = TRUE
  /\ pc' = "top"
  /\ UNCHANGED <<ret, nRequest, method, global, reply, isExiting, handling,
                 log, nTimeoutLine, cgi>>

\* althttpd_exit(): from the assignment to isExiting on, signals are ignored, the
\* alarm as well.
Exit ==
  /\ pc = "exit"
  /\ isExiting' = TRUE
  /\ pc' = "flush"
  /\ UNCHANGED <<ret, nRequest, method, global, reply, omitLog, handling, log,
                 nTimeoutLine, cgi>>

\* The client has taken what stdout still held, or is gone: exit().
Flush ==
  /\ pc = "flush"
  /\ pc' = "exited"
  /\ UNCHANGED <<ret, nRequest, method, global, reply, ctl, nTimeoutLine, cgi>>

-----------------------------------------------------------------------------
(* Signals. *)

\* Timeout(): log the signal (status 900 + its number) if there is a URL, then
\* exit.  MakeLogEntry() exits by itself in a handler.
Handle(sig, number) ==
  /\ handling' = handling \cup {sig}
  /\ pc' = "exit"
  /\ IF global.zScript # 0
     THEN /\ replyStatus' = 900 + number
          /\ global' = [global EXCEPT !.zPostData = 0]
          /\ log' = IF omitLog THEN log ELSE Append(log, Entry)
     ELSE UNCHANGED <<replyStatus, global, log>>
  /\ UNCHANGED <<ret, nRequest, method, closeConnection, statusSent, wire,
                 omitLog, isExiting, nTimeoutLine, cgi>>

\* A signal arrives: the alarm if it is set, SIGPIPE at a write, SIGXCPU at any
\* time.  Signals whose handler is running are blocked; after althttpd_exit()
\* has begun nothing happens.
Signal(sig) ==
  /\ ~isExiting /\ sig \notin handling
  /\ \/ sig = "SIGALRM" /\ nTimeoutLine # 0 /\ Handle(sig, 14)
     \/ sig = "SIGPIPE" /\ pc \in {"send", "forward"} /\ Handle(sig, 13)
     \/ sig = "SIGXCPU" /\ Handle(sig, 24)

\* POST data are sent to an SCGI server from a buffer that was freed, because
\* an earlier request left nPostData positive: undefined behaviour.  The
\* process is killed through its SIGSEGV handler, or nothing is written.
ForwardNull ==
  /\ pc = "forward" /\ ret = "scgi"
  /\ global.nPostData # 0 /\ global.zPostData = 0
  /\ \/ Handle("SIGSEGV", 11)
     \/ /\ global' = [global EXCEPT !.nPostData = 0]
        /\ SetTimeout(800)
        /\ pc' = "cgi" /\ ret' = "omit"
        /\ UNCHANGED <<nRequest, method, reply, ctl, cgi>>

-----------------------------------------------------------------------------
Respond ==
  \/ NotModified \/ FileGone \/ SendPart \/ SendWhole \/ PipeThrough
  \/ CgiLocation \/ CgiLength \/ (\E code \in CgiCodes : CgiStatus(code))
  \/ CgiAbuse \/ CgiEnd

Request ==
  \/ Top \/ ReadLine \/ EndOfInput \/ RejectLine \/ ParseLine
  \/ (\E h \in Headers \ {"Connection"} : ReadHeader(h)) \/ ConnectionHeader
  \/ RejectHeader \/ EndHeaders \/ RejectRequest \/ BeginPost \/ ReadPost
  \/ NoPost

Route == Refuse \/ Redirect \/ Open \/ Authorize \/ BeginFile \/ BeginCgi
         \/ BeginScgi

Program == Request \/ Route \/ ForwardPost \/ ForwardNull \/ Respond \/ Sent
           \/ WriteLog \/ FinishLog \/ SetOmitLog \/ Exit \/ Flush

Interrupt == \E sig \in Signals : Signal(sig)

Exited == pc = "exited" /\ UNCHANGED vars

Next == Program \/ Interrupt \/ Exited

Spec == Init /\ [][Next]_vars

\* The process runs when it waits for nobody, and an alarm that is set goes
\* off if the process waits for long enough.  Clients and programs owe nothing.
FairSpec ==
  /\ Spec
  /\ WF_vars(pc \notin Waiting /\ Program)
  /\ WF_vars(pc \in Waiting /\ "SIGALRM" \in Signals /\ Signal("SIGALRM"))

-----------------------------------------------------------------------------
(* Properties. *)

Replies == [lines : 0..2, status : 0..599,
            by : {"nobody", "althttpd", "program"},
            announce : {"none", "keep", "close"}, gzip : BOOLEAN,
            body : {"none", "exact", "short"}, posted : Requests]
Entries == [req : Requests, script : Requests, status : 0..999]
Continuations == {"return", "omit", "exit", "nolog", "cgi", "scgi", "nph"}

\* Every variable stays in its range; in particular no connection is served
\* more than KeepAlive + 1 requests.
TypeOK ==
  /\ pc \in Locations
  /\ ret \in Continuations
  /\ nRequest \in Requests
  /\ method \in {"GET", "HEAD", "POST"}
  /\ global \in [Globals -> Requests]
  /\ closeConnection \in BOOLEAN /\ statusSent \in BOOLEAN
  /\ omitLog \in BOOLEAN /\ isExiting \in BOOLEAN
  /\ replyStatus \in 0..999
  /\ nTimeoutLine \in {0} \cup 800..805
  /\ cgi \in [len : BOOLEAN, status : {0, 200, 206, 304, 404}]
  /\ handling \subseteq AllSignals \cup {"SIGSEGV"}
  /\ wire \in Replies
  /\ log \in Seq(Entries)

\* The forced last request never returns to main(): whatever its headers say
\* and whichever reply it gets, the connection ends with it.
ForceCloseNeverReturns == pc = "top" => nRequest <= KeepAlive

\* A partial reply that althttpd makes, or makes out of what a program gave,
\* answers a GET that itself carries the range, both ends of it, and a file is
\* "not modified" only for a request that itself asks so.  A body is shorter than
\* announced only behind a program's reply that is no part, and only after some
\* request of the connection has asked for a part from a byte other than the
\* first, since when no whole file was sent.  (A file that changes while it is
\* sent is not modelled.)
ReplyFitsRequest ==
  /\ wire.status = 206 /\ wire.by = "althttpd" =>
       /\ method = "GET"
       /\ global.rangeEnd = nRequest
       /\ global.rangeStart \in {0, nRequest}
       /\ wire.body # "short"
  /\ wire.status = 304 /\ wire.by = "althttpd" =>
       nRequest \in {global.zIfNoneMatch, global.zIfModifiedSince}
  /\ wire.body = "short" => global.rangeStart # 0

\* An application is never given the POST data of an earlier request.
PostDataIsFresh == wire.posted \in {0, nRequest}

\* If the reply announces that the connection is kept alive, the process goes
\* on to the next request unless a signal ends it, or a program redirects first
\* and reports abuse then.
KeepAliveHonoured ==
  pc \in {"exit", "flush", "exited"} /\ handling = {} /\ replyStatus # 418 =>
    wire.announce # "keep"

\* The log has the requests in order, each once; only the signal handler makes a
\* second entry of a request.
OnlySignalsRepeat ==
  \A i, j \in DOMAIN log :
    i < j => \/ log[i].req < log[j].req
             \/ log[i].req = log[j].req /\ log[j].status >= 900

\* An entry is about the request it is made for, except that a signal between a
\* request line and its URL is logged with the URL of the request before.
EntryNamesUrl ==
  \A i \in DOMAIN log :
    log[i].script # log[i].req =>
      log[i].status >= 900 /\ log[i].script = log[i].req - 1

\* Once the process is done with a request it has replied to, the log has an
\* entry of it, signals or not; but for the fallback file of an SCGI server,
\* after which it just exits.
EveryReplyLogged ==
  pc \in {"top", "flush", "exited"} /\ wire.lines > 0 /\ ret # "nolog" =>
    \E i \in DOMAIN log : log[i].req = nRequest

\* The status in the log is the one the client goes by, whatever order a program
\* writes its lines in, but for a program that makes the reply have two status
\* lines (the log has the second), that reports abuse after its status was sent
\* (418), or whose output is not read (nph-).
LoggedStatusIsSent ==
  /\ pc = "logged" /\ handling = {}
  /\ wire.lines = 1 /\ wire.status # 0 /\ replyStatus # 418
  => log[Len(log)].status = wire.status

\* A process always comes to althttpd_exit(), although no client and no program
\* ever has to do anything: every wait before it has an alarm, and there are
\* finitely many requests.  In althttpd_exit() itself there is no alarm any more:
\* a client that never takes the rest of its reply keeps the process there.
Terminates == <>isExiting

-----------------------------------------------------------------------------
(* What a comment of the source says, and the code does not keep. *)

\* nPostData is the "Number of bytes of POST data": when data are forwarded to
\* an application, a count is never positive without a buffer.
PostCountIsReal ==
  pc = "forward" => (global.nPostData # 0 => global.zPostData # 0)
=============================================================================
