------------------------------- MODULE Gateway ------------------------------
(***************************************************************************)
(* How a request goes through a program: a CGI program started by          *)
(* ProcessOneRequest(), joined to it by two pipes, or an SCGI server that  *)
(* SendScgiRequest() connects to.  In both cases althttpd first writes all *)
(* that the client posted and then reads the reply until its end.          *)
(*                                                                         *)
(* What is written, read or held by a pipe is counted in units; a socket   *)
(* is a pipe for each direction.  A program may read, write, close its     *)
(* input and exit in any order.  One that is polite reads all its input    *)
(* before it writes.                                                       *)
(***************************************************************************)
EXTENDS Naturals, FiniteSets, FiniteSetsExt

CONSTANTS
  PipeSize,     \* units a pipe holds
  MaxPost,      \* bound of the units a client posts
  MaxOut,       \* units a program writes at most
  Addresses,    \* number of addresses getaddrinfo() finds
  Descriptors   \* the sets of descriptors a process may have open before

ASSUME GatewayAssumption ==
  /\ PipeSize \in Nat \ {0} /\ MaxPost \in Nat /\ MaxOut \in Nat
  /\ Addresses \in Nat \ {0}
  /\ \A open \in Descriptors : open \subseteq Nat /\ IsFiniteSet(open)
                               /\ {0, 1} \subseteq open

VARIABLES
  gpc,       \* where the process is
  proto,     \* "cgi" or "scgi"
  size,      \* nPostData, with one unit for the header of an SCGI request
  wrote,     \* units written
  zRelight,  \* whether there is a relight command
  zFallback, \* whether there is a fallback file
  addr,      \* number of the address to try
  held,      \* the ends of the two pipes that the program has open
  prog,      \* the program: "none", "running", "deaf" (input closed), "exited"
  polite,    \* whether it is polite
  toProg, fromProg,   \* units in transit
  taken, given,       \* units it read and wrote
  got,       \* units of its reply that were read
  sized,     \* whether its header sets an end to what is read
  limit,     \* that end, in units with the header as the first
  part,      \* history: whether a range or a 304 set it
  result,    \* how the request ended
  relit,     \* history: number of relight commands run
  tries      \* history: number of times the addresses were gone through

setup == <<proto, size, zRelight, zFallback, addr, held, polite, relit, tries>>
header == <<sized, limit, part>>
traffic == <<wrote, toProg, fromProg, taken, given, got, header>>
gatewayVars == <<gpc, setup, traffic, prog, result>>

GatewayInit ==
  /\ gpc = "idle" /\ proto = "cgi" /\ size = 0
  /\ zRelight = FALSE /\ zFallback = "none" /\ addr = 1
  /\ held = {} /\ prog = "none" /\ polite = FALSE
  /\ wrote = 0 /\ toProg = 0 /\ fromProg = 0
  /\ taken = 0 /\ given = 0 /\ got = 0
  /\ sized = FALSE /\ limit = 0 /\ part = FALSE
  /\ result = "none" /\ relit = 0 /\ tries = 0

End(how) ==
  /\ gpc' = "ended" /\ result' = how
  /\ UNCHANGED <<setup, traffic, prog>>

\* POSIX: a new descriptor is the lowest that is free.
Lowest(open) == CHOOSE fd \in 0..(2 * Cardinality(open) + 9) :
  fd \notin open /\ \A low \in 0..(fd - 1) : low \in open

-----------------------------------------------------------------------------
(* Faulty variants of actions below; each breaks a property.                *)

\* The relight command is kept, to be run again.
RelightForever ==
  /\ gpc = "relight"
  /\ \/ End("error")
     \/ /\ gpc' = "connect" /\ addr' = 1 /\ relit' = relit + 1
        /\ UNCHANGED <<proto, size, zRelight, zFallback, held, polite,
                       tries, traffic, prog, result>>

\* The child does not close the surplus descriptors.
CloseNothing(open) == open

\* The reply is read no further than what has come when all is written.
ReadEndEarly ==
  /\ gpc = "read" /\ fromProg = 0 /\ given > 0
  /\ End("reply")

-----------------------------------------------------------------------------
(* CGI *)

\* close(i) from 3 on, until the first that is not open.
CloseSurplus(open) ==
  {fd \in open : \E low \in 3..fd : low \notin open} \cup (open \cap 0..2)

\* pipe() twice; one of them may fail.
Pipes ==
  /\ gpc = "pipes"
  /\ \/ End("error")
     \/ \E fds \in Descriptors :
        LET px0 == Lowest(fds)
            px1 == Lowest(fds \cup {px0})
            py0 == Lowest(fds \cup {px0, px1})
            py1 == Lowest(fds \cup {px0, px1, py0})
            open == fds \cup {px0, px1, py0, py1}
            left == CloseSurplus(open)
            end(fd) == IF fd = px0 THEN "px0" ELSE IF fd = px1 THEN "px1"
                       ELSE IF fd = py0 THEN "py0" ELSE "py1"
        IN  /\ gpc' = "fork"
            \* dup() has made px[1] the program's descriptor 1, py[0] its 0.
            /\ held' = {"px1", "py0"}
                         \cup {end(fd) : fd \in left \cap {px0, px1, py0, py1}}
            /\ UNCHANGED <<proto, size, zRelight, zFallback, addr, polite, relit,
                           tries, traffic, prog, result>>

\* fork(); the program runs.  Or there is no child, which the code does not look
\* at; or the child cannot run the program and exits.  It is still the server then:
\* if dup() or chdir() failed it replies 500, into the pipe if it has that as its
\* standard output (444, 445).
Fork ==
  /\ gpc = "fork" /\ gpc' = "write"
  /\ \/ prog' = "running" /\ polite' \in BOOLEAN /\ UNCHANGED <<fromProg, given>>
     \/ /\ prog' = "exited" /\ UNCHANGED polite
        /\ \E reply \in {0, 1} :
             reply <= MaxOut /\ fromProg' = reply /\ given' = reply
  /\ UNCHANGED <<proto, size, zRelight, zFallback, addr, held, relit, tries,
                 wrote, toProg, taken, got, header, result>>

-----------------------------------------------------------------------------
(* SendScgiRequest() *)

\* The lines of the file: the last relight and fallback lines count.  The file
\* may not be what it should (700-704), or the host have no address (705).
ReadSpec ==
  /\ gpc = "spec"
  /\ \/ End("error")
     \/ /\ zRelight' \in BOOLEAN /\ zFallback' \in {"none", "file", "bad"}
        /\ gpc' = "connect" /\ addr' = 1
        /\ UNCHANGED <<proto, size, held, polite, relit, tries, traffic,
                       prog, result>>

\* socket() and connect() for one address.
TryAddress ==
  /\ gpc = "connect" /\ addr <= Addresses
  /\ \/ /\ addr' = addr + 1
        /\ UNCHANGED <<gpc, held, polite, prog>>
     \/ /\ gpc' = "write" /\ prog' = "running" /\ polite' \in BOOLEAN
        /\ held' = {"px1", "py0"}
        /\ UNCHANGED addr
  /\ UNCHANGED <<proto, size, zRelight, zFallback, relit, tries, traffic,
                 result>>

\* No address answers (the descriptor is closed, so fdopen() fails).
NoServer ==
  /\ gpc = "connect" /\ addr > Addresses
  /\ gpc' = IF zRelight THEN "relight" ELSE "fallback"
  /\ tries' = tries + 1
  /\ UNCHANGED <<proto, size, zRelight, zFallback, addr, held, polite,
                 relit, traffic, prog, result>>

\* system(): the command fails (721), or the addresses are tried again.
Relight ==
  /\ gpc = "relight"
  /\ \/ End("error")
     \/ /\ gpc' = "connect" /\ addr' = 1 /\ relit' = relit + 1
        /\ zRelight' = FALSE
        /\ UNCHANGED <<proto, size, zFallback, held, polite, tries, traffic,
                       prog, result>>

\* The fallback file is sent if it can be (else 720, 706); without one, 707.
Fallback ==
  /\ gpc = "fallback"
  /\ End(IF zFallback = "file" THEN "fallback" ELSE "error")

-----------------------------------------------------------------------------
(* The exchange *)

Write ==
  /\ gpc = "write" /\ wrote < size
  /\ prog = "running" /\ toProg < PipeSize
  /\ wrote' = wrote + 1 /\ toProg' = toProg + 1
  /\ UNCHANGED <<gpc, setup, fromProg, taken, given, got, header, prog, result>>

\* Nobody will read it.  The signal ends the process (Timeout(), 132); but if only
\* write() fails, the rest is left out and the reply is read.
BrokenPipe ==
  /\ gpc = "write" /\ wrote < size
  /\ prog \in {"deaf", "exited"}
  /\ \/ End("SIGPIPE")
     \/ gpc' = "read" /\ UNCHANGED <<setup, traffic, prog, result>>

\* close(py[1]), or fflush(): on to CgiHandleReply().
WriteEnd ==
  /\ gpc = "write" /\ wrote = size
  /\ gpc' = "read"
  /\ UNCHANGED <<setup, traffic, prog, result>>

\* The header of the reply, its first unit.  With Content-length, which is right if
\* the program is polite, the reply is read so far and no further; less of it if a
\* range is in force, and nothing after the header of a 304.
ReadHeader ==
  \/ sized' = FALSE /\ UNCHANGED <<limit, part>>
  \/ /\ sized' = TRUE /\ part' \in BOOLEAN /\ limit' \in 1..(MaxOut + 1)
     /\ polite => IF part' THEN limit' <= MaxOut ELSE limit' = MaxOut

Wanted == got = 0 \/ ~sized \/ got < limit

Read ==
  /\ gpc = "read" /\ fromProg > 0 /\ Wanted
  /\ fromProg' = fromProg - 1 /\ got' = got + 1
  /\ IF got = 0 THEN ReadHeader ELSE UNCHANGED header
  /\ UNCHANGED <<gpc, setup, wrote, toProg, taken, given, prog, result>>

\* All that is wanted was read; or the end of file: no process has the other end.
ReadEnd ==
  /\ gpc = "read"
  /\ Wanted => fromProg = 0 /\ prog = "exited"
  /\ End("reply")

\* SetTimeout() is called before the request is read and at the start of
\* CgiHandleReply(), so an alarm is always set.
Alarm ==
  /\ gpc \in {"connect", "relight", "write", "read"}
  /\ End("alarm")

Server ==
  \/ Pipes \/ Fork \/ ReadSpec \/ TryAddress \/ NoServer \/ Relight \/ Fallback
  \/ Write \/ BrokenPipe \/ WriteEnd \/ Read \/ ReadEnd

-----------------------------------------------------------------------------
(* The program *)

\* Nobody can write to its standard input any more; an SCGI server knows the
\* length of its request.
InputEnded ==
  IF proto = "scgi" THEN taken = size
  ELSE toProg = 0 /\ gpc = "read" /\ "py1" \notin held

ProgReads ==
  /\ prog = "running" /\ toProg > 0
  /\ toProg' = toProg - 1 /\ taken' = taken + 1
  /\ UNCHANGED <<gpc, setup, wrote, fromProg, given, got, header, prog, result>>

ProgWrites ==
  /\ prog \in {"running", "deaf"} /\ fromProg < PipeSize /\ given < MaxOut
  /\ polite => InputEnded
  /\ fromProg' = fromProg + 1 /\ given' = given + 1
  /\ UNCHANGED <<gpc, setup, wrote, toProg, taken, got, header, prog, result>>

ProgCloses ==
  /\ prog = "running" /\ ~polite
  /\ prog' = "deaf"
  /\ UNCHANGED <<gpc, setup, traffic, result>>

\* A server that closes a connection it has not read to the end may take what it
\* wrote with it.
ProgExits ==
  /\ prog \in {"running", "deaf"}
  /\ polite => InputEnded /\ given = MaxOut
  /\ prog' = "exited"
  /\ \/ UNCHANGED fromProg
     \/ proto = "scgi" /\ toProg > 0 /\ fromProg' = 0
  /\ UNCHANGED <<gpc, setup, wrote, toProg, taken, given, got, header, result>>

Program ==
  /\ gpc \in {"write", "read"}
  /\ ProgReads \/ ProgWrites \/ ProgCloses \/ ProgExits

-----------------------------------------------------------------------------
(* Properties. *)

\* A reply ends where its header said, and is never read further; or with all that
\* the program wrote, but for what an SCGI server threw away.  A broken pipe ends the
\* server only if the program stopped reading too early.  A polite program is not hurt by
\* any of this: it was given all the data the client posted, and its whole reply was
\* read, unless only a part was wanted.
WholeReply ==
  gpc = "ended" =>
    /\ result = "reply" =>
         \/ sized /\ got = limit
         \/ got = given
         \/ proto = "scgi" /\ taken < size
    /\ sized => got <= limit
    /\ result = "SIGPIPE" => taken < size /\ ~polite
    /\ result = "reply" /\ polite => taken = size /\ (got = MaxOut \/ part)

\* When the SCGI server does not answer, the relight command is run once, the
\* addresses are tried once more after it, and only then is the fallback file
\* sent or the request given up.
RelightOnce ==
  /\ relit <= 1 /\ tries <= 2
  /\ result = "fallback" =>
       ~zRelight /\ tries = relit + 1 /\ addr > Addresses /\ prog = "none"

=============================================================================
