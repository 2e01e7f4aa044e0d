------------------------------ MODULE Startup ------------------------------
(***************************************************************************)
(* How althttpd starts: main() from its first line to the first call of    *)
(* ProcessOneRequest().  It reads the options in the order in which they   *)
(* are given, goes to the root directory, looks the user up, enters the    *)
(* chroot jail, runs the server (whose parent stays in http_server(), see  *)
(* module HttpServer, and whose child goes on here), limits its CPU time,  *)
(* gives up its privileges, and serves requests.                           *)
(*                                                                         *)
(* Options that only set a variable read later on (--logfile, --ipshun,    *)
(* --max-age, --family, --remote-addr, --pkey) are the one option "other". *)
(***************************************************************************)
EXTENDS Integers, FiniteSets

CONSTANTS
  Options,   \* the options that may be given, a subset of AllOptions
  MaxArgs    \* bound of the number of options on the command line

\* Options with an argument, and without.  "port" names a range that is not
\* empty, "badport" one that is, or no number at all; "cert" is there only if
\* TLS is compiled in.
WithArgument == {"root", "user", "jail0", "port", "badport", "page", "https0",
                 "https1", "cert", "debug", "other"}
Flags == {"popup", "loopback"}
AllOptions == WithArgument \cup Flags \cup {"enable-sab", "bad", "version"}

\* The users that exist, apart from whom --user may name.
Users == {"root", "www"}

ASSUME StartupAssumption == Options \subseteq AllOptions /\ MaxArgs \in Nat

VARIABLES
  pc,             \* where main() is
  nArgs,          \* how many options were read
  given,          \* history: the options on the command line so far
  zRoot,          \* "null", "dir", "." or "" (the root of the jail)
  zPermUser,      \* "null", or a user: "www", "root", "nobody-knows"
  useChrootJail, bLocalhost, useTimeout,
  zPage,          \* whether there is a page
  ports,          \* mnPort..mxPort: "none" (0..0), "range" or "empty"
  standalone, useHttps,
  alarm,          \* whether the start-up alarm is set
  tls,            \* whether the certificate was read
  pwd,            \* whether the user was found
  jailed, listened,
  launchedBy, uid, gid

flags == <<zRoot, zPermUser, useChrootJail, bLocalhost, useTimeout, zPage,
           ports, standalone, useHttps>>
process == <<alarm, tls, pwd, jailed, listened, launchedBy, uid, gid>>
vars == <<pc, nArgs, given, flags, process>>

Init ==
  /\ pc = "args" /\ nArgs = 0 /\ given = {}
  /\ zRoot = "null" /\ zPermUser = "null"
  /\ useChrootJail = TRUE /\ bLocalhost = FALSE /\ useTimeout = TRUE
  /\ zPage = FALSE
  /\ ports = "none" /\ standalone = 0 /\ useHttps = 0
  /\ alarm = FALSE /\ tls = FALSE /\ pwd = FALSE
  /\ jailed = FALSE /\ listened = FALSE
  /\ launchedBy \in {"root", "www"}
  /\ uid = launchedBy /\ gid = launchedBy

-----------------------------------------------------------------------------
(* Faulty variants of actions below; each breaks a property. *)

\* Nobody looks whether the process is root after all.
CheckNothing ==
  /\ pc = "check" /\ pc' = "serve"
  /\ UNCHANGED <<nArgs, given, flags, process>>

\* zRoot is still the path to the jail after the jail was entered.
EnterJailKeepsRoot ==
  /\ pc = "jail" /\ pc' = "server"
  /\ jailed' = (zPermUser # "null" /\ useChrootJail /\ uid = "root")
  /\ UNCHANGED <<nArgs, given, flags, alarm, tls, pwd, listened, launchedBy,
                 uid, gid>>

\* The default root is served to the network.
DefaultsOpen ==
  /\ pc = "defaults" /\ pc' = "tls"
  /\ IF zRoot = "null"
     THEN /\ ports' = IF standalone = 0 THEN "range" ELSE ports
          /\ zRoot' = "." /\ standalone' = 1
     ELSE UNCHANGED <<zRoot, ports, standalone>>
  /\ alarm' = (useTimeout /\ standalone' = 0)
  /\ UNCHANGED <<nArgs, given, zPermUser, useChrootJail, bLocalhost, useTimeout,
                 zPage, useHttps, tls, pwd, jailed, listened, launchedBy, uid,
                 gid>>

-----------------------------------------------------------------------------
(* The command line. *)

\* The next argument is an option o, and is read together with what follows it.
Read(o) ==
  /\ pc = "args" /\ nArgs < MaxArgs /\ o \in Options
  /\ nArgs' = nArgs + 1
  /\ given' = given \cup {o}

Root ==
  /\ Read("root") /\ zRoot' = "dir"
  /\ UNCHANGED <<pc, zPermUser, useChrootJail, bLocalhost, useTimeout, zPage,
                 ports, standalone, useHttps, process>>

User ==
  /\ Read("user") /\ zPermUser' \in {"www", "root", "nobody-knows"}
  /\ UNCHANGED <<pc, zRoot, useChrootJail, bLocalhost, useTimeout, zPage, ports,
                 standalone, useHttps, process>>

Jail0 ==
  /\ Read("jail0") /\ useChrootJail' = FALSE
  /\ UNCHANGED <<pc, zRoot, zPermUser, bLocalhost, useTimeout, zPage, ports,
                 standalone, useHttps, process>>

\* Standalone mode, 2 standing for TLS.
Standalone == standalone' = IF useHttps = 2 THEN 2 ELSE 1

\* "N", "N1..N2", or a text that gives an empty range.
Port ==
  /\ \/ Read("port") /\ ports' = "range"
     \/ Read("badport") /\ ports' = "empty"
  /\ Standalone
  /\ UNCHANGED <<pc, zRoot, zPermUser, useChrootJail, bLocalhost, useTimeout,
                 zPage, useHttps, process>>

\* Ports 8080 to 8100 unless a port is given; "--port 0" and the like leave
\* mnPort at 0, "--port 90..80" does not.
DefaultPorts ==
  \/ ports = "none" /\ ports' = "range"
  \/ ports = "range" /\ UNCHANGED ports
  \/ ports = "empty" /\ ports' \in {"empty", "range"}

Page ==
  /\ Read("page")
  /\ zPage' = TRUE /\ bLocalhost' = TRUE
  /\ DefaultPorts /\ Standalone
  /\ UNCHANGED <<pc, zRoot, zPermUser, useChrootJail, useTimeout, useHttps,
                 process>>

Popup ==
  /\ Read("popup") /\ zRoot' = "."
  /\ DefaultPorts /\ Standalone
  /\ UNCHANGED <<pc, zPermUser, useChrootJail, bLocalhost, useTimeout, zPage,
                 useHttps, process>>

Loopback ==
  /\ Read("loopback") /\ bLocalhost' = TRUE
  /\ UNCHANGED <<pc, zRoot, zPermUser, useChrootJail, useTimeout, zPage, ports,
                 standalone, useHttps, process>>

\* --cert makes a server that is standalone already a TLS server.
Cert ==
  /\ Read("cert") /\ useHttps' = 2
  /\ standalone' = IF standalone = 0 THEN 0 ELSE 2
  /\ UNCHANGED <<pc, zRoot, zPermUser, useChrootJail, bLocalhost, useTimeout,
                 zPage, ports, process>>

\* --https 0 and --https 1 undo a --cert before them.
Https ==
  /\ \/ Read("https0") /\ useHttps' = 0
     \/ Read("https1") /\ useHttps' = 1
  /\ UNCHANGED <<pc, zRoot, zPermUser, useChrootJail, bLocalhost, useTimeout,
                 zPage, ports, standalone, process>>

Debug ==
  /\ Read("debug") /\ useTimeout' = FALSE
  /\ UNCHANGED <<pc, zRoot, zPermUser, useChrootJail, bLocalhost, zPage, ports,
                 standalone, useHttps, process>>

Other == Read("other") /\ UNCHANGED <<pc, flags, process>>

\* --enable-sab takes two arguments off the command line although it has none:
\* the option that follows is lost, and if that one has an argument of its own,
\* the argument does not start with "-" and ends the options.
EnableSab ==
  /\ Read("enable-sab")
  /\ pc' \in {"args", "defaults"}
  /\ UNCHANGED <<flags, process>>

\* --version and --datetest end the process,
LeaveArgs ==
  /\ Read("version")
  /\ pc' = "exit"
  /\ UNCHANGED <<flags, process>>

\* and so does an option that is not known: Malfunction(), as for a family that is
\* not and an input that cannot be opened.
UnknownArg ==
  /\ Read("bad")
  /\ pc' = "exit"
  /\ UNCHANGED <<flags, process>>

EndArgs ==
  /\ pc = "args" /\ pc' = "defaults"
  /\ UNCHANGED <<nArgs, given, flags, process>>

-----------------------------------------------------------------------------
(* The rest of main(). *)

\* Without --root: "." on the loop-back device, at ports 8080..8100 unless the
\* server is standalone already.  Then the signals and the start-up alarm.
Defaults ==
  /\ pc = "defaults" /\ pc' = "tls"
  /\ IF zRoot = "null"
     THEN /\ ports' = IF standalone = 0 THEN "range" ELSE ports
          /\ zRoot' = "." /\ standalone' = 1 /\ bLocalhost' = TRUE
     ELSE UNCHANGED <<zRoot, ports, standalone, bLocalhost>>
  /\ alarm' = (useTimeout /\ standalone' = 0)
  /\ UNCHANGED <<nArgs, given, zPermUser, useChrootJail, useTimeout, zPage,
                 useHttps, tls, pwd, jailed, listened, launchedBy, uid, gid>>

\* ssl_init_server() reads the certificate.
ReadCert ==
  /\ pc = "tls" /\ pc' = "chdir"
  /\ tls' = (useHttps = 2)
  /\ UNCHANGED <<nArgs, given, flags, alarm, pwd, jailed, listened, launchedBy,
                 uid, gid>>

\* chdir() to the root, then getpwnam() of the user; a process of root needs one.
EnterRoot ==
  /\ pc = "chdir" /\ pc' = "user"
  /\ UNCHANGED <<nArgs, given, flags, process>>

LookUpUser ==
  /\ pc = "user"
  /\ pc' = IF zPermUser = "null" /\ uid = "root" THEN "exit" ELSE "jail"
  /\ \/ zPermUser \in Users /\ pwd' = TRUE
     \/ zPermUser \notin Users /\ pwd' = FALSE
  /\ UNCHANGED <<nArgs, given, flags, alarm, tls, jailed, listened, launchedBy,
                 uid, gid>>

EnterJail ==
  /\ pc = "jail" /\ pc' = "server"
  /\ jailed' = (zPermUser # "null" /\ useChrootJail /\ uid = "root")
  /\ zRoot' = IF jailed' THEN "" ELSE zRoot
  /\ UNCHANGED <<nArgs, given, zPermUser, useChrootJail, bLocalhost, useTimeout,
                 zPage, ports, standalone, useHttps, alarm, tls, pwd, listened,
                 launchedBy, uid, gid>>

\* http_server(), from which only a child comes back, with a connection.
Server ==
  /\ pc = "server" /\ pc' = "setgid"
  /\ listened' = (ports = "range")
  /\ UNCHANGED <<nArgs, given, flags, alarm, tls, pwd, jailed, launchedBy, uid,
                 gid>>

\* setgid() and setuid(); without a user of that name the process ends.
SetGid ==
  /\ pc = "setgid"
  /\ pc' = IF zPermUser = "null" THEN "check"
           ELSE IF pwd /\ (uid = "root" \/ gid = zPermUser) THEN "setuid"
           ELSE "exit"
  /\ gid' = IF pc' = "setuid" THEN zPermUser ELSE gid
  /\ UNCHANGED <<nArgs, given, flags, alarm, tls, pwd, jailed, listened,
                 launchedBy, uid>>

SetUid ==
  /\ pc = "setuid"
  /\ pc' = IF uid = "root" \/ uid = zPermUser THEN "check" ELSE "exit"
  /\ uid' = IF pc' = "check" THEN zPermUser ELSE uid
  /\ UNCHANGED <<nArgs, given, flags, alarm, tls, pwd, jailed, listened,
                 launchedBy, gid>>

\* "cannot run as root"
CheckRoot ==
  /\ pc = "check"
  /\ pc' = IF uid = "root" THEN "exit" ELSE "serve"
  /\ UNCHANGED <<nArgs, given, flags, process>>

\* A call that fails ends the process (Malfunction()): the certificate cannot be
\* read, there is no such directory, chroot(), http_server(), setgid() or
\* setuid() fails.  So does the start-up alarm.
Fails ==
  /\ \/ pc = "tls" /\ useHttps = 2
     \/ pc = "jail" /\ zPermUser # "null" /\ useChrootJail /\ uid = "root"
     \/ pc = "server" /\ ports = "range"
     \/ pc \in {"setgid", "setuid"} /\ zPermUser # "null"
     \/ pc = "chdir"
     \/ alarm /\ pc \notin {"args", "defaults", "serve", "exit"}
  /\ pc' = "exit"
  /\ UNCHANGED <<nArgs, given, flags, process>>

Done == pc \in {"serve", "exit"} /\ UNCHANGED vars

Arguments == Root \/ User \/ Jail0 \/ Port \/ Page \/ Popup \/ Loopback \/ Cert
             \/ Https \/ Debug \/ Other \/ EnableSab \/ LeaveArgs \/ UnknownArg
             \/ EndArgs

Steps == Defaults \/ ReadCert \/ EnterRoot \/ LookUpUser \/ EnterJail \/ Server
         \/ SetGid \/ SetUid \/ CheckRoot \/ Fails

Next == Arguments \/ Steps \/ Done

Spec == Init /\ [][Next]_vars

-----------------------------------------------------------------------------
(* Properties. *)

\* Every variable stays in its range: where main() is and what it read, the
\* values the options set, and the state of the process.
ProgressOK ==
  /\ pc \in {"args", "defaults", "tls", "chdir", "user", "jail", "server",
             "setgid", "setuid", "check", "serve", "exit"}
  /\ nArgs \in 0..MaxArgs
  /\ given \subseteq Options

FlagsOK ==
  /\ zRoot \in {"null", "dir", ".", ""}
  /\ zPermUser \in {"null", "www", "root", "nobody-knows"}
  /\ useChrootJail \in BOOLEAN /\ bLocalhost \in BOOLEAN
  /\ useTimeout \in BOOLEAN /\ zPage \in BOOLEAN
  /\ ports \in {"none", "range", "empty"}
  /\ standalone \in {0, 1, 2} /\ useHttps \in {0, 1, 2}

ProcessOK ==
  /\ alarm \in BOOLEAN /\ tls \in BOOLEAN /\ pwd \in BOOLEAN
  /\ jailed \in BOOLEAN /\ listened \in BOOLEAN
  /\ launchedBy \in Users /\ uid \in Users /\ gid \in Users

\* Every variable stays in its range, as listed above.
TypeOK == ProgressOK /\ FlagsOK /\ ProcessOK

\* "No input is read while this process has root privileges": whatever the
\* options and whoever launched the process, no request is processed as root,
\* and with --user each is processed under that user and its group.
NeverServesAsRoot ==
  pc = "serve" =>
    /\ uid # "root"
    /\ zPermUser # "null" => uid = zPermUser /\ gid = zPermUser

\* A process launched as root serves from inside the jail unless --jail 0 is on
\* the command line, and zRoot, to which each request goes back, is the path seen
\* from inside exactly when the process is in the jail.
ServesFromJail ==
  pc = "serve" =>
    /\ launchedBy = "root" /\ "jail0" \notin given => jailed
    /\ zRoot = "" <=> jailed

\* Standalone mode means to listen, unless the ports given are no range: then
\* the process serves its standard input.
StandaloneListens ==
  pc = "serve" /\ standalone # 0 /\ "badport" \notin given => listened

\* A server that listens to the network was given a root directory, or started
\* with --popup: without them only the loop-back device is served.
LoopbackByDefault ==
  listened /\ ~bLocalhost => given \cap {"root", "popup"} # {}
=============================================================================
