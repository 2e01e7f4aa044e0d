------------------------------- MODULE Locate -------------------------------
(***************************************************************************)
(* How ProcessOneRequest() finds what a URL names: the root directory for  *)
(* the host, the file -redirect, the walk along the elements of the URL    *)
(* with its index files and its not-found pages, the file -auth, and the   *)
(* choice between a program, an SCGI server and a file.  A client may      *)
(* follow the redirects it is sent.                                        *)
(*                                                                         *)
(* A path is a sequence of names below the root directory.  A URL has in   *)
(* addition a flag for a "/" at its end, so "/" is the empty path with the *)
(* flag.  The files do not change while a client follows redirects; what   *)
(* the walk does not depend on (the lines of -redirect and -auth, whether  *)
(* the file is a program) may be anything each time it is looked at.       *)
(*                                                                         *)
(* A reply is known by its tag, the number its log entry has in the code;  *)
(* 0 is the normal reply.                                                  *)
(***************************************************************************)
EXTENDS Naturals, FiniteSets, SequencesExt

CONSTANTS
  Names,       \* names of files, and elements of URLs
  URLs,        \* URLs that clients ask for
  Trees,       \* what may be below the root directory
  AuthLines,   \* kinds of lines a file -auth has, a subset of AllAuthLines
  MaxLines,    \* bound of their number
  MaxHops,     \* bound of the redirects a client follows
  standalone   \* TRUE if started with --port, --page or --popup

\* "mine" is a "user" line that the client has the password of, "other" one that
\* it has not; "text" stands for the lines that decide nothing.
AllAuthLines ==
  {"mine", "other", "anyone", "https-only", "http-redirect", "text", "bad"}

azIndex == <<"home", "index", "index.html", "index.cgi">>

Kinds == {"dir", "file", "locked"}   \* "locked": a file that is not readable

IsURL(u) == u \in [path : Seq(Names), slash : BOOLEAN]

\* Whatever is there has its directories there.
IsTree(t) ==
  /\ <<>> \in DOMAIN t /\ t[<<>>] = "dir"
  /\ \A f \in DOMAIN t :
       /\ f \in Seq(Names) /\ t[f] \in Kinds
       /\ \A k \in 0..(Len(f) - 1) :
            SubSeq(f, 1, k) \in DOMAIN t /\ t[SubSeq(f, 1, k)] = "dir"

ASSUME LocateAssumption ==
  /\ "not-found.html" \in Names
  /\ \A jj \in DOMAIN azIndex : azIndex[jj] \in Names
  /\ \A u \in URLs : IsURL(u)
  /\ \A t \in Trees : IsTree(t)
  /\ AuthLines \subseteq AllAuthLines
  /\ MaxLines \in Nat /\ MaxHops \in Nat /\ standalone \in BOOLEAN

VARIABLES
  pc,        \* where the process is
  url,       \* zScript
  tree,      \* what is below the root directory
  useHttps, zHttpScheme,
  level,     \* number of elements of the URL that are in zLine
  zFile,     \* path of the file that was found
  zPathInfo, \* the elements of the URL behind it
  authFile,  \* -auth: "none" (not looked for), "absent", "locked" or "read"
  auth,      \* the lines of -auth, if it is read
  line,      \* the one being read
  tag,       \* the reply
  to,        \* the URL it redirects to
  came,      \* history: tag of the redirect the client follows, 0 if none
  hops       \* history: number of redirects followed

https == <<useHttps, zHttpScheme>>
locals == <<level, zFile, zPathInfo, authFile, auth, line>>
locateVars == <<pc, url, tree, https, locals, tag, to, came, hops>>

NoFile == <<"none">>
Root == [path |-> <<>>, slash |-> TRUE]

Exists(f) == f \in DOMAIN tree
Readable(f) == Exists(f) /\ tree[f] = "file"

Prefix(k) == SubSeq(url.path, 1, k)
countSlashes(u) == Len(u.path) + (IF u.slash THEN 1 ELSE 0)
FileURL(f) == [path |-> f, slash |-> FALSE]

notFoundPage(d) == Append(d, "not-found.html")

LocateInit ==
  /\ pc = "request"
  /\ url \in URLs /\ tree \in Trees /\ useHttps \in BOOLEAN
  /\ zHttpScheme = IF useHttps THEN "https" ELSE "http"
  /\ level = 0 /\ zFile = NoFile /\ zPathInfo = <<>>
  /\ authFile = "none" /\ auth = <<>> /\ line = 0
  /\ tag = 0 /\ to = Root /\ came = 0 /\ hops = 0

Reply(n) ==
  /\ pc' = "replied" /\ tag' = n
  /\ UNCHANGED <<url, tree, https, locals, to, came, hops>>

\* Redirect(): the place is zHttpScheme, the host and the target.
Redirect(n, target) ==
  /\ pc' = "replied" /\ tag' = n /\ to' = target
  /\ UNCHANGED <<url, tree, https, locals, came, hops>>

Found(f, rest) ==
  /\ pc' = "auth" /\ zFile' = f /\ zPathInfo' = rest
  /\ UNCHANGED <<url, tree, https, level, authFile, auth, line, tag, to, came,
                 hops>>

WalkTo(place, k) ==
  /\ pc' = place /\ level' = k
  /\ UNCHANGED <<url, tree, https, zFile, zPathInfo, authFile, auth, line, tag,
                 to, came, hops>>

-----------------------------------------------------------------------------
(* Faulty variants of definitions below; each breaks a property.            *)

\* The search for a page starts one directory too far up.
MissingSkips ==
  /\ pc = "walk" /\ ~Exists(Prefix(level))
  /\ WalkTo("climb", IF level > 1 THEN level - 2 ELSE 0)

\* The files of azIndex[] are tried without access().
UsableIfThere(d) ==
  {jj \in DOMAIN azIndex : Exists(Append(d, azIndex[jj]))}

\* A line "https-only" is passed over when it holds.
AuthLineSkips(l) ==
  IF l = "https-only" THEN "next"
  ELSE IF l \in {"mine", "anyone"} THEN "admit"
  ELSE IF l = "http-redirect" /\ ~useHttps THEN "redirect"
  ELSE IF l = "bad" THEN "bad" ELSE "next"

-----------------------------------------------------------------------------
\* "/." and "/-" are refused anywhere in the URL (300), but for what is below
\* ".well-known", where only "/.." is.
Hidden(name) == name \in {".", "..", ".well-known", ".x", "-auth"}
CheckName ==
  /\ pc = "request"
  /\ LET wellKnown == /\ url.path # <<>> /\ Head(url.path) = ".well-known"
                      /\ countSlashes(url) > 1
         refused(name) == Hidden(name) /\ (wellKnown => name = "..")
     IN  IF \E k \in DOMAIN url.path : refused(url.path[k])
         THEN Reply(300)
         ELSE WalkTo("home", 0)

\* HOST.website, default.website, or the root itself.  The request fails if there
\* is no Host field or it is too long (330, 340), if there is no directory (350),
\* or if it cannot be entered (360).
FindHome ==
  /\ pc = "home"
  /\ \/ \E n \in {330, 340, 360} : Reply(n)
     \/ ~standalone /\ Reply(350)
     \/ WalkTo("forward", 0)

\* CheckForRedirect(): no line names the URL, the file cannot be opened (155), or
\* the first line that does redirects it to any place.
Forward ==
  /\ pc = "forward"
  /\ \/ WalkTo("walk", IF url.path = <<>> THEN 0 ELSE 1)
     \/ Reply(155)
     \/ \E target \in URLs : Redirect(420, target)

-----------------------------------------------------------------------------
(* The walk: stat() of the first elements of the URL, one more each time.   *)

AtEnd == level = Len(url.path)

\* No such file: the next thing is the directory it should have been in.
Missing ==
  /\ pc = "walk" /\ ~Exists(Prefix(level))
  /\ WalkTo("climb", level - 1)

\* A file ends the walk, whether or not the URL does.
AtFile ==
  /\ pc = "walk" /\ Exists(Prefix(level)) /\ tree[Prefix(level)] # "dir"
  /\ IF Readable(Prefix(level))
     THEN Found(Prefix(level), SubSeq(url.path, level + 1, Len(url.path)))
     ELSE Reply(390)

Descend ==
  /\ pc = "walk" /\ Exists(Prefix(level)) /\ tree[Prefix(level)] = "dir"
  /\ ~AtEnd
  /\ WalkTo("walk", level + 1)

\* The index files of a directory that stat() and access() accept.
Usable(d) == {jj \in DOMAIN azIndex : Readable(Append(d, azIndex[jj]))}

\* The URL ends at a directory: its first index file is found, after a redirect
\* if the URL has no "/" at its end.
AtDirectory ==
  /\ pc = "walk" /\ Exists(Prefix(level)) /\ tree[Prefix(level)] = "dir"
  /\ AtEnd
  /\ IF Usable(url.path) = {} THEN Reply(400)
     ELSE LET jj == CHOOSE k \in Usable(url.path) :
                      \A m \in Usable(url.path) : k <= m
              index == Append(url.path, azIndex[jj])
          IN  IF url.slash THEN Found(index, <<>>)
              ELSE Redirect(410, FileURL(index))

\* From the place where stat() failed up to the root, the first page for it.
Climb ==
  /\ pc = "climb"
  /\ IF Readable(notFoundPage(Prefix(level)))
     THEN Redirect(370, FileURL(notFoundPage(Prefix(level))))
     ELSE IF level = 0 THEN Reply(380) ELSE WalkTo("climb", level - 1)

-----------------------------------------------------------------------------
(* CheckBasicAuthorization() *)

\* -auth is looked for beside the file that was found.  If access() says that it
\* is absent, or there but not readable ("locked"), it is passed over.  Otherwise
\* it cannot be opened (150), or it is read.
OpenAuth ==
  /\ pc = "auth"
  /\ \/ /\ authFile' \in {"absent", "locked"} /\ pc' = "dispatch"
        /\ UNCHANGED <<url, tree, https, level, zFile, zPathInfo, auth, line, tag,
                       to, came, hops>>
     \/ Reply(150)
     \/ /\ authFile' = "read" /\ pc' = "lines" /\ line' = 1
        /\ auth' \in UNION {[1..n -> AuthLines] : n \in 0..MaxLines}
        /\ UNCHANGED <<url, tree, https, level, zFile, zPathInfo, tag, to, came,
                       hops>>

\* What a line decides.
AuthLine(l) ==
  IF l \in {"mine", "anyone"} THEN "admit"
  ELSE IF l = "https-only" /\ ~useHttps THEN "refuse"
  ELSE IF l = "http-redirect" /\ ~useHttps THEN "redirect"
  ELSE IF l = "bad" THEN "bad" ELSE "next"

ReadAuth ==
  /\ pc = "lines" /\ line <= Len(auth)
  /\ LET decision == AuthLine(auth[line]) IN
     \/ /\ decision = "admit" /\ pc' = "dispatch"
        /\ UNCHANGED <<url, tree, https, locals, tag, to, came, hops>>
     \/ decision = "refuse" /\ Reply(160)
     \/ /\ decision = "redirect"
        /\ zHttpScheme' = "https"
        /\ pc' = "replied" /\ tag' = 170 /\ to' = url
        /\ UNCHANGED <<url, tree, useHttps, locals, came, hops>>
     \/ decision = "bad" /\ Reply(180)
     \/ /\ decision = "next" /\ line' = line + 1
        /\ UNCHANGED <<pc, url, tree, https, level, zFile, zPathInfo, authFile,
                       auth, tag, to, came, hops>>

\* NotAuthorized()
EndAuth ==
  /\ pc = "lines" /\ line > Len(auth)
  /\ Reply(110)

-----------------------------------------------------------------------------
\* An executable file whose type allows it is a CGI program, unless others than
\* its owner may write to it (CgiScriptWritable(), 140); ".scgi" names a server;
\* any other file is sent, if the URL ends with its name (460 if not).
ProgramFound(place) ==
  /\ pc' = place
  /\ UNCHANGED <<url, tree, https, locals, tag, to, came, hops>>

Dispatch ==
  /\ pc = "dispatch"
  /\ \/ ProgramFound("cgi") \/ ProgramFound("scgi")
     \/ Reply(140)
     \/ Reply(IF countSlashes(FileURL(zFile)) # countSlashes(url) THEN 460 ELSE 0)

-----------------------------------------------------------------------------
Redirects == {170, 370, 410, 420}

NextRequest ==
  /\ pc' = "request"
  /\ level' = 0 /\ zFile' = NoFile /\ zPathInfo' = <<>>
  /\ authFile' = "none" /\ auth' = <<>> /\ line' = 0
  /\ tag' = 0 /\ to' = Root /\ hops' = hops + 1
  /\ UNCHANGED <<tree, zHttpScheme>>

\* The client follows the redirect: the next request, on this connection or on
\* another one.  The scheme of the place decides whether that uses https.
Follow ==
  /\ pc = "replied" /\ tag \in Redirects /\ hops < MaxHops
  /\ url' = to /\ useHttps' = (zHttpScheme = "https") /\ came' = tag
  /\ NextRequest

\* Sent to https, the client makes another request on the connection it has, where
\* zHttpScheme stays as it was set.  (Any other request leaves nothing behind: the
\* one after it begins as a first one does.)
StayOnHttp ==
  /\ pc = "replied" /\ tag = 170 /\ hops < MaxHops
  /\ url' \in URLs /\ UNCHANGED useHttps /\ came' = 0
  /\ NextRequest

Lookup ==
  \/ CheckName \/ FindHome \/ Forward
  \/ Missing \/ AtFile \/ Descend \/ AtDirectory \/ Climb
  \/ OpenAuth \/ ReadAuth \/ EndAuth \/ Dispatch

-----------------------------------------------------------------------------
(* Properties. *)

\* The directories on the way to the URL, by the number of elements.
Ancestors == {k \in 0..Len(url.path) : Exists(Prefix(k)) /\ tree[Prefix(k)] = "dir"}
Deepest == CHOOSE k \in Ancestors : \A m \in Ancestors : m <= k

\* The walk does what its comment says.  The file that is found and the rest of
\* the URL make up the URL again, and no file is on the way to it; at the end of
\* the URL the file is the first index file that can be read.  The reply is a
\* redirect to a not-found page only if the URL names nothing, and then to the
\* page in the nearest directory that has one; 404 only if there is none.
LookupIsRight ==
  /\ pc = "auth" =>
       /\ Readable(zFile)
       /\ \A k \in 0..(Len(zFile) - 1) : tree[SubSeq(zFile, 1, k)] = "dir"
       /\ \/ zFile \o zPathInfo = url.path
          \/ /\ zPathInfo = <<>> /\ url.slash /\ Front(zFile) = url.path
             /\ \E k \in DOMAIN azIndex :
                  /\ Last(zFile) = azIndex[k]
                  /\ \A m \in 1..(k - 1) : ~Readable(Append(url.path, azIndex[m]))
  /\ pc = "replied" /\ tag \in {370, 380} =>
       /\ ~Exists(Prefix(Deepest + 1))
       /\ LET pages == {k \in Ancestors : Readable(notFoundPage(Prefix(k)))}
          IN  IF tag = 380 THEN pages = {}
              ELSE \E k \in pages : /\ \A m \in pages : m <= k
                                    /\ to = FileURL(notFoundPage(Prefix(k)))

\* Redirects to a file lead there.  Who follows one to an index file or to a
\* not-found page is not told that nothing is there, nor sent on by the walk.  Who
\* was sent to https is not sent there again, and who uses https is never sent
\* back to http.
RedirectsLead ==
  pc = "replied" =>
    /\ came \in {370, 410} => tag \notin {370, 380, 390, 400, 410, 460}
    /\ came = 170 => tag # 170
    /\ tag \in Redirects /\ useHttps => zHttpScheme = "https"

\* A file is sent or a program started only if a line of -auth admits the client
\* and none before it turns every client away, or if there is no -auth, or one that
\* cannot be read; and the client is turned away only if this is not so.  An -auth
\* without lines admits nobody.
Admits(k) ==
  /\ auth[k] \in {"mine", "anyone"}
  /\ \A m \in 1..(k - 1) :
       auth[m] # "bad"
         /\ (auth[m] \in {"https-only", "http-redirect"} => useHttps)

Admitted ==
  authFile \in {"absent", "locked"} \/ \E k \in DOMAIN auth : Admits(k)

AuthObeyed ==
  /\ pc \in {"dispatch", "cgi", "scgi"} => Admitted
  /\ pc = "replied" /\ tag \in {0, 140, 460} => Admitted
  /\ pc = "replied" /\ tag \in {110, 160, 170, 180} => ~Admitted

=============================================================================
