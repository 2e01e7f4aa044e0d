# Verification of ccode-learn

TLA+ models of the programs of this repository that have a behaviour worth
checking: **althttpd**, a web server that forks a process for each connection
(`src/althttpd.c`, 58 % of the repository), the thread pool `src/ptpool.c`, and
the event-driven server `src/epoll-demo.c`. TLC checks the models on small
instances, TLAPS proves their safety properties for all values of their
constants. Source lines below are lines of `src/althttpd.c` unless a file is
named.

## 1. Inventory

### althttpd

One executable; what it is depends on its options: a listening daemon
(`--port`, `--page`, `--popup`, `--https`), or a process that serves the one
connection on its standard input (inetd, xinetd, stunnel). The daemon does
nothing but accept and fork; all else happens in one process per connection,
which keeps the connection for up to 101 requests. The processes share no memory.
They interact through the file system (log file, ban files), signals, and exit
statuses.

| Part | State | Operations | What is hard | What makes it right |
|---|---|---|---|---|
| Start-up, `main()` 3801-4070 | the option variables; user, root directory, jail, listening socket | read an option; defaults; `chdir`, `getpwnam`, `chroot`, `http_server`, `setgid`, `setuid` | options in any order imply one another; six privileged steps in an order; launched as root or not | never serves as root; serves from the jail; listens only where it was asked to |
| Listening daemon, `http_server()` 3691-3798 | port, listening socket, connection, `nchildren` | port scan, listen, launch of the browser, select, accept, fork, bury | `fork`/`accept`/`bind` fail; children end at any time, in any order, one of them no client's; limit of children | the count is exact; no descriptor leaks; the first usable port is taken; no client waits for ever |
| The file of a URL, `ProcessOneRequest()` 3341-3635, 1905-2004 | the path built so far, `-redirect`, `-auth` | walk along the URL, search upwards for a not-found page, index files, authorization, redirects | a path edited in place; redirects that come back as requests; the order of the lines of `-auth` | the first file on the way is found; redirects lead somewhere; nobody gets in against an `-auth` that can be read |
| Programs, `ProcessOneRequest()` 3535-3614, `SendScgiRequest()` 2733-2891 | two pipes, or a socket; the relight and fallback lines | pipes, `fork`, `exec`, connect, relight, write the posted data, read the reply | both sides may wait for each other; programs that close or exit early; surplus descriptors; a server that is down | a reply ends where its header says, or with all the program wrote; one relight, one retry, then the fallback; every wait for a program ends |
| One connection, `ProcessOneRequest()` 3010-3638 and what it calls | some thirty globals that outlive the request; alarm; log | request line, header, body, routing; file, CGI, nph-CGI, SCGI, fallback, redirect, 401, error pages; log entry; signal handler | state of request *n* in request *n+1*; nested signal handlers; programs that send header lines in any order; who logs, and once | replies fit their request; the log has each reply once, with the status the client goes by; the forced last request is the last; every wait before `althttpd_exit()` has an alarm |
| Abuse blocking, 1326-1359, 1425-1457, 2948-2991 | one file per address: existence, size, mtime | decide, note a strike, reap | lock-free: `stat`, `open`, `write`, `unlink` of several processes, the administrator's `touch`, a signal between two of them, a write that fails | no strike lost, no ban cut short, none for ever but the administrator's; where the code fails in this, the one way in which it does |
| MIME types, `GetMimeType()` 2030-2270 | table, bounds of the search | binary search | order of the table; bound that starts past the end | an entry of the table is found; the search ends |
| TLS, 500-640, 1772-1890, 2334-2455, 2897-2930 | one connection record | `tls_*` wrappers of stdio | use after close | closed once |
| String helpers | buffers | `sanitizeString` 2298, `Decode64` 1666, dates 700 and 1256 | calendar, padding, lengths | a reference calendar |
| Log line, 781-909 and `MakeLogEntry()` 956-1086 | a buffer of 5000 bytes, a place in it or none | append a text, a quoted text, a number, a date; write | lines that just fit, or do not | nothing behind the buffer; no text cut |

How they are joined: `main()` (Startup) calls `http_server()` (HttpServer),
whose child returns from it with the connection on its standard input and output
and goes on in `main()`, which drops privileges and calls `ProcessOneRequest()`
(Connection) in a loop. Where Connection chooses a route, Deliver has the details:
the search for the file (Locate) and, if it is a program, the exchange with it
(Gateway). Connection consults the ban file (IPShun) once per
connection and notes strikes in it, GetMimeType() (MimeType) for each file, the
calendar of Dates for If-Modified-Since, and writes its entries with LogLine.

### The other programs

| Program | State and operations | Hard part | Modelled |
|---|---|---|---|
| `ptpool.c` | ring of four tasks, mutex, two condition variables; workers, `main()` | lost and spurious wakeups | ThreadPool |
| `epoll-demo.c` | epoll instance, descriptors, batch of events | descriptors reused within a batch, partial `recv`, a reset ends the server | EpollServer |
| `calculator.c`, `calculator-1.c` | operator and operand stacks | precedence, empty stack, evaluation of the wrong text | planned |
| `pip-demo.c` | two children, a pipe | which end who must close for an end of file | planned |
| `udp-multi-server/`, `udpserver.c`, `mju-qin-udp.c` | sockets, one buffer | buffer shared by handlers, terminating zero | planned |
| `linux-module-templ.c` | one message | `read` and `write` of several openers without a lock | planned |
| `ucontext-1.c` | two contexts | they swap for ever | planned |
| `tcp-server.c`, `tcpserver.c`, `tcpclient.c`, `udpclient.c` | none beyond the connection | end of file | planned with the UDP programs |
| `linklist.c`, `bintree_*.c` | lists and trees | insertion and deletion at the ends | planned as pure functions |
| `vndev/`, `net-tty/`, `netlink-demo.c`, `web-demo.c`, `pthread-demo.c` | registration only, or a call and its end | - | no, or planned last |
| `jwtdemo.c`, `sdl2.c`, `mosquito-plugin-demo.c`, `modbus_demo1.c`, `select-uart.c`, `serial-tty-demo.c`, `poll-demo.c`, `gpu-demo.c`, `yuv420p-demo.c`, `ann-1.c` and the smaller ones | straight-line calls of a device or library | - | no: input and output only |

`PROJECT.json` lists the components with their status, the hazards with their
line, and for each definition the lines it models.

## 2. The modules

Each module opens with what it models and how its data are abstracted.
Definitions before the actions, under the heading *Faulty variants*, are
changed forms of an action (`ForkFailsLeaks`, `NotModifiedTwice`): each is a
plausible mistake that breaks one of the properties. They are in no behaviour;
they document what the property detects.

| Module | Code | State | Actions |
|---|---|---|---|
| HttpServer | `http_server()` | `pc`, `iPort`, `listener`, `connection`, `nchildren` as in the code; `fds` the connections the parent has a descriptor of; `unusable` the ports that `socket()` or `bind()` refuses, chosen at the start; `queue`, `child` kernel and children | one per system call that may fail or is seen by others: `TryNextPort`, `Bind`, `GiveUp`, `Listen`, `LaunchBrowser`, `CheckLoad`, `Wake`, `Select`, `Accept`, `AcceptFails`, `Fork`, `ForkFails`, `BuryOne`, `BuryDone`; and `Connect`, `ChildEnds` of the world |
| Connection | loop 4071-4078, `ProcessOneRequest()`, `SendFile()`, `CgiHandleReply()`, `SendScgiRequest()`, `StartResponse()`, `MakeLogEntry()`, `Timeout()`, `althttpd_exit()` | each global holds the number of the request that set it, 0 for its initial value; `wire` the reply so far as the client sees it (the first status line counts), `log` the entries; `handling` the handlers running | one per point at which the process may wait or branch; `Exit` and `Flush` are the two halves of `althttpd_exit()`; `Signal` may happen between any two |
| Locate | `ProcessOneRequest()` 3341-3528 and 3615-3635, `CheckForRedirect()`, `CheckBasicAuthorization()`, `Redirect()` | the URL, the tree of files, `level` elements of the URL in `zLine`; `zFile`, `zPathInfo`; `-auth`, which may be absent, unreadable or read, and its lines; `zHttpScheme`, which outlives the request; the reply by its `LOG` number; the redirect that is followed | one per `stat()` of the walk, per line of `-auth`, per choice; `Follow` of a client that follows a redirect, `StayOnHttp` of one that asks again where it was |
| Gateway | 3535-3614, `SendScgiRequest()` | units written, in transit, read, and the end that the reply's header sets to the last (`limit`, by Content-length, range or 304); the pipe ends the program has open; relight and fallback; address | one per system call; the program reads, writes, closes, exits |
| Deliver, MCDeliver | Locate and Gateway joined where the code joins them; the instance | both | both, `Begin`, the alarm |
| Dates | `unixToDateTime()`, `ParseRfc822Date()` | a day and its date | the calendar goes on by a day |
| LogLine | `log_str()`, `log_escstr()`, `log_int()`, `log_DateTime()`, 1031-1085 | item of the line, `zPos`, how far was written | one per item, `Close`, `Send` |
| IPShun | `DisallowedRemoteAddr()`, `BlockIPAddress()`, `UnlinkExpiredIPBlockers()` | one file; per process its place, its `statbuf`, the time it took, whether its open file still has its name | one per system call; `StrikeFails` for those that fail; `AdminTouch`, `Tick`, `Interrupted` |
| TaskQueue | what a pool promises | queue, tasks held, tasks finished | `Put`, `Get`, `Finish` |
| ThreadPool | `ptpool.c` | ring, owner of the mutex, the two wait sets, place of each thread | one per critical section, up to an unlock or a wait |
| Startup | `main()` 3801-4051 | option variables, user and group, jail, listening socket | one per option and per step; failures leave through `Fails` |
| MimeType | `GetMimeType()` and its table | `first`, `last`, the suffix as a number that keeps the order of `strcmp()` | one comparison a step |
| EpollServer | `epoll-demo.c` | batch, watched descriptors, descriptor of each client, what is pending | `Wait`, one action per outcome of handling an event, and what clients do; `Exit` is the part that the two `exit(1)` share |
| *X*Proofs | - | - | theorems about HttpServer, Connection, Deliver (with Locate and Gateway), ThreadPool, Startup, IPShun, EpollServer; HelperProofs those about MimeType, Dates and LogLine |

ThreadPool implements TaskQueue: `Promise` in ThreadPool is the instance with
`queue` as the `count` slots from `head` on, `submitted` as `next - 1`, `held` as
`task`.

## 3. The runs

| Run | Instance | States | What it shows |
|---|---|---|---|
| http_server | 3 clients, 2 ports, limit of 1 child, kernel queue of 2, browser | 23 441 | `nchildren` is the number of children not buried, whatever fails and whoever ends when; a descriptor is held only between `accept()` and the end of the branch; the first usable port is taken; every connection in the queue is taken in the end and every zombie buried |
| connection | 2 + 1 requests; GET, HEAD, POST; five header fields; file, CGI, redirect, refusal; programs that write `Location`, `Content-length`, `Status` 200, 206, 304, 404 and 418 in any order | 2 996 161 | a 206 or 304 of althttpd answers its own request, and only a program's body is cut by what an earlier one left; each reply has an entry in the log, with the status the client goes by; the forced last request never returns |
| connection_signals | 1 + 1 requests, all eight routes, SIGALRM, SIGPIPE and SIGXCPU | 2 377 784 | the log has each request once, in order and with its URL, but for what signal handlers add; keep-alive announced is kept; stale POST data go to nobody; every process comes to `althttpd_exit()` |
| post_count | 1 + 1 requests, GET and POST | violated | section 6 |
| deliver | 9 URLs of up to 3 elements, 189 trees, 2 lines of `-auth`, 1 redirect followed; pipes of 2 units, 3 posted, 3 written, 2 addresses | 1 238 211 | the file found and the rest make up the URL; a not-found page is the nearest; redirects to a page do not end in a 404; an `-auth` that can be read is obeyed, and one without lines admits nobody; a reply is read to the end its header sets and no further, or to the program's last unit; a program that reads its input gets all of it; one relight; every request ends |
| ipshun | 2 processes, administrator, interrupts, failing writes, clock to 11, 2 abuses | 461 963 | a file is empty only for a moment, by the administrator, or because a signal hit between `fopen()` and `fputc()` or the write failed; a ban that the administrator makes in a quiet moment stays; the size of the file is the number of strikes; a file that did not change is deleted only when 5 bans old |
| thread_pool | 3 workers, ring of 3, 5 tasks, spurious wakeups | 2 724 | no lost wakeup; refinement of TaskQueue, so that each task is run once; each task runs unless `main()` returns first |
| startup | all lines of up to 3 options of 16, launched as root and as a user | 19 123 | never a request as root or outside the jail; only the loop-back device by default |
| mime_type | the table's 193 entries, 387 suffixes: each entry, one between any two, one at each end | 3 572 | an entry in its place is found; memory behind the table is read only for suffixes after the last entry |
| dates | each day from 1970 to 2517 | 200 001 | both conversions agree with the calendar |
| log_line | a buffer of 72 bytes, texts of 0, 1, 3 and numbers of 1, 3 bytes | violated | section 6 |
| epoll_server | 3 clients, 2 descriptors, batches of 2, 1 unit per `recv`, 2 units per client | 497 071 | no event of a batch reaches a later connection; `recv()` never blocks; nothing is lost while the server runs; a reset or the want of a descriptor is all that ends it; each descriptor has one owner and is watched; closed connections are closed here too |

Why the bounds are enough for what is asked:

- *http_server.* A limit of one child with three clients and the browser makes
  the parent sleep, bury late and accept above its limit; two ports give a scan
  with the first, the second or neither usable; a kernel queue shorter than the
  number of clients makes clients wait outside it.
- *connection.* Two kept-alive requests and the forced third are the shortest
  connection in which a value can survive a request that does not touch it. The
  hazards of a third kept-alive request are those of the second, as the loop has
  no other state than `nRequest`. The header fields of the two runs together
  are one of each way in which the code treats a field: reset before the
  headers (`Referer`, `IfNoneMatch`), set in two globals of which one is reset (`Range`, `Authorization`), one
  that leads to further state which outlives it (`ContentLength`: the POST buffer
  and its count), one without a global of its own (`Connection`). Signals double
  the states at each step: so that run has one request less and every route. A program may
  write each of its lines any number of times and in any order, so `Location` before
  `Status`, two status lines, and a 206 with and without a range in force come by.
- *deliver.* A reply of up to three units may set itself an end before, at or behind its
  last. Trees of two levels below the root, each with or without a not-found
  page and index files that can or cannot be read, and URLs that end above, at, in
  and behind what is there: a walk of zero to three steps down and up. With two lines
  of `-auth` each kind stands before each other. One redirect followed shows where each
  kind of redirect leads; a second one starts from a URL that the first has, too.
  More posted and more written than a pipe holds makes either side wait; four sets of
  open descriptors put the surplus ends below, at and above a gap.
- *ipshun.* A ban lasts `size * BANISH_TIME`, its file five times as long. With
  `BANISH_TIME` 1 a clock to 11 covers a file of two strikes from its making past
  its deletion (10). Two processes suffice for each race of one reader with one writer;
  the proofs are for any number.
- *dates.* Five century years that are no leap years, one that is, and the day
  2^15 of the century term come by.
- *log_line.* The shortest lines fit, the longest do not, and every place near
  the end of the buffer is met.
- *thread_pool.* Five tasks go once around a ring of three and fill it, with
  all three workers asleep and `main()` asleep at some time.
- *startup.* Each property depends on at most two options and who launched the
  program; three options give a third one to interfere, and repetition.
- *mime_type.* No bound: it is the table, and suffixes matter only by their order.
- *epoll_server.* Two descriptors and three connections make one be used again;
  a batch of two leaves the third ready descriptor for the next.

Bounds in guards: `MaxTime`, `MaxAbuses` (IPShun), `MaxArgs` (Startup), `MaxSent`
(EpollServer), `MaxLines`, `MaxHops`, `MaxPost`, `MaxOut` (Deliver), `MaxDay` (Dates),
the clients of HttpServer and EpollServer that connect once. None
stands for a limit of the code. `KeepAlive`, `MaxParallel`, `MnPort`, `MxPort`,
`BanishTime`, `Size`, `NTasks`, `MAX_EVENTS`, `BUF_SIZE` are constants of the
code with smaller values. Programs that may come to an end (the server that
gives up, the connection that is closed, the pool whose `main()` returned) have
an explicit stuttering action, so deadlock is checked in every run.

## 4. Fairness

- *HttpServer*: weak fairness of the parent, which only the scheduler can stop;
  strong fairness of `Accept`: `accept()` does not fail for ever while connections
  wait. Nothing is assumed of clients or children; that a child ends is no
  assumption of `EventuallyTaken`, since the parent above its limit only sleeps
  (`Wake`) and goes on.
- *Connection*: weak fairness of the process where it does not wait for a peer,
  and of SIGALRM where it does: an alarm that is set goes off. Clients and programs
  owe nothing, they may be silent for ever. `Terminates` ends at `isExiting`: in the flush
  that follows (639) `Timeout()` does nothing any more (1562), so nothing but the client
  can end it, and `Flush` has no fairness.
- *ThreadPool*: weak fairness of each thread in its critical section or task, and
  strong fairness of `Acquire`: a mutex that is given back over and over is not
  withheld from a thread for ever. A spurious wakeup is allowed, never required,
  and `main()` need not return.
- *Deliver*: weak fairness of the process where it does not wait; of a program that is
  `polite` (it reads all its input, writes its reply and exits); and of the alarm for
  programs that are not. A polite program must not need the alarm.
- *EpollServer*: weak fairness of `epoll_wait()` and of handling. The kernel's list
  of ready descriptors is level-triggered; the clients send a bounded amount.

The other modules state no liveness. That the search of MimeType ends is proved.

## 5. What is proved

For every value of the constants that satisfies the module's assumption (the
assumptions are what the code fixes: finite sets of clients, ranges that are not
empty, distinct model values). Each invariant proof has the same shape: `Inv` is
inductive (one step per action), and the properties follow from it. The type
invariants are conjuncts of these, proved and in no run; those that only a proof
needs stand in its module.

- **HttpServerProofs.** `CountIsExact` is `ChildrenCounted` for any number of
  clients. `ChildrenCounted` is not inductive: `fork()` adds one to a cardinality
  only if the child is new, which holds as `accept()` returns a connection from
  the queue, and a queued connection has no child (`Fresh`); and cardinality is
  known only of finite sets (`UnburiedFinite`). `NoLeak` needs that the only
  descriptor held is that of `connection`; `ScanIsRight` that all ports below
  `iPort` are unusable.
- **ConnectionProofs.** All eight safety properties that the runs check, for any number of requests and
  any choice of methods, header fields, routes, programs and signals. Lemmas of one
  kind carry them: who sets a variable, or from where a place is reached (`WaysOut`,
  `WhoLogs`, `WhoPosts`), so that an invariant has a step for those few actions only.
  - `TypeCorrect` needs that `nRequest` stops growing: `ForcedInv` says that the
    request after the last kept-alive one has `closeConnection` set, wherever it is.
    `ForcedRequestIsLast` follows.
  - `LogInOrder`, `LogNamesUrl` from `LogInv`: from the request line on `omitLog` is
    off (`OmitInv`); `zScript` is of this request, or of the one before until the
    request line is taken apart (`ScriptInv`); the log has no entry of this request
    before `MakeLogEntry()` (`OrderInv`). `NothingUnlogged` from `LoggedInv`: who
    leaves the request with a reply has passed `MakeLogEntry()`, but for the way of the
    SCGI fallback (section 6).
  - `PostedIsOwn` from `PostInv`: the POST buffer is of this request or freed.
  - `RepliesFit` from `RangeInv` (a range in force belongs to a GET, and `rangeStart`
    is then 0 or that of the present request), `FitInv` and a lemma, `FreshCorrect`,
    about the globals that are reset. Only the first status line counts, so a part that
    `CgiEnd` makes must be the first (`AnswerInv`). The property allows the one body
    that is cut by a stale `rangeStart` (section 6) and no other.
  - `KeepAliveKept` from `AnswerInv` (nothing is sent before the first status line) and
    `KeepInv`: after keep-alive was announced `closeConnection` stays off and the way
    leads back to `main()`.
  - `StatusLogged` from `StatusInv`: from the first status line of a reply on, as long as
    it stays the only one, `zReplyStatus` agrees with it. It holds of every server; the
    property itself excepts what the code gets wrong (section 6): a reply with two status
    lines, abuse that a program reports after its status, nph- programs.
- **DeliverProofs.** The five safety properties, for every tree of files, every URL
  and every `-auth`, and for every size of pipe, data and output. The two halves share
  their steps and have an invariant each.
  - `LookupRight` from `WalkInv`: the walk has come through directories only; and the
    search upwards knows an element `n` that is not there, below directories, of which
    those between the present one and `n` have no page. So the nearest directory is
    the one above `n` (`Nearest`), as what exists has its directories (`DirsAbove`).
  - `RedirectsLeadOn` from `LeadInv`: who follows a redirect of the walk asks for a
    file that is there and readable, so the walk passes directories up to it
    (`WalkToFile`) and `zFile` is what was asked for.
  - `AuthKept` from `AuthInv`: the lines that were read decide nothing, so that the
    present line decides for the whole file (`Decided`); who comes past `-auth` was
    admitted by a line, or there was none to read.
  - `RepliesWhole` from `UnitsInv`: what was written is in the pipe or taken, what was
    given is read or in the pipe, unless an SCGI server exited with its request unread;
    and from `SizeInv`: what was read stays within the end that the header set, which for
    a polite program is its whole output or a part that was wanted.
    `RelitOnce` from `RelightInv`, which counts relights and rounds through the
    addresses at each place.
- **ThreadPoolProofs.** `PoolIsQueue`: the pool implements TaskQueue for every size.
  The invariant ties `tail` to `head + count` modulo `Size` (`RingInv`) and each
  thread's place to the wait sets (`PlaceInv`). `TasksRunOnce` is what
  that promise is worth, proved of TaskQueue and carried over: a submitted task waits in
  one slot, or is run by one worker, or has run. `NoLostWakeup` is `NoIdleWorker`, by
  counting: a submission adds one task and wakes one worker if any sleeps; taking
  removes one of each.
- **StartupProofs.** `DropsPrivileges`, `Jailed`, `Listens`, `LoopbackUnlessAsked`
  for command lines of any length. `IdentityInv` relates the identity to the place
  in `main()`, `JailInv` the jail to the options read, `ListenInv` the ports to
  `standalone`.
- **IPShunProofs.** All four properties, for any number of processes and any times. A
  process knows only its `stat()` of some time ago, so the invariant says what stays
  true of it: an open file that has its name is the one on disk (`LinkInv`); after a
  ban in a quiet moment nobody is on the way to `fopen()` or `unlink()` (`QuietInv`);
  who is about to delete saw a file that had expired, and what has expired stays so
  (`StatInv`). `StrikesCounted` counts those who have opened the file and not yet
  written: each of them is a strike that the size lacks (`StrikeInv`). A strike that is given up,
  by a signal or a failing write, is taken back from that count (`GiveUpStep`). That
  `IsFiniteSet(Processes)` is assumed serves this count only.
- **EpollServerProofs.** All four safety properties, for any number of clients and
  descriptors and any sizes of batch and buffer. `NoSharedDescriptor` needs that a
  connection waits for `accept()` once and has no descriptor until then
  (`BacklogInv`); `EventsStayTrue` that the rest of a batch names each descriptor once
  (`BatchInv`): only the handling of its own event closes a descriptor, so no other
  event of the batch can be about one that was used again. `AllReceived` speaks of a
  server that runs, since `Exit` takes all that is pending; `EndsOnlyForCause` says when
  it ends.
- **HelperProofs**, about three components without a state in common.
  - MimeType. `PlacedFound`: in a table of any size and order the search finds each
    entry that is greater than all before and less than all behind it, since such an
    entry stays between `first` and `last` (`RangeInv`). `StaysInTable`;
    `SearchNarrows`: each comparison leaves fewer entries, so the search ends; and
    `SortedFindsAll`: a sorted table hides no entry, so the flaw of section 6 is one of
    the table alone.
  - Dates. `ParseExact`: `ParseRfc822Date()` is the inverse of the calendar for ever,
    but in a century year that is no leap year (section 6). The walk through the days is
    the induction: the date of a day is right if the day before is and the formula grows
    by one. That takes the growth of its three divisions from year to year
    (`NewYearGrows`) and of `priorDays[]` from month to month. `LogDateRight`:
    `unixToDateTime()` counts years from March. `DayInv` writes the number of the
    day as days before that year, days before that month and days in it, and each of
    the function's divisions gives one of them back. It is right for every day before
    1 March 28052, and no further: then a count of years no longer fits into the 15 bits
    that are kept of it.
  - LogLine. `StaysInBuffer`: for a buffer of any size and a line of any items
    nothing is written behind its end; `PlaceInv` says that the place for the next item
    is inside or given up. So the assertion at 1074 fails (section 6) without harm to
    what lies behind.

Every safety property that a passing run checks, and the refinement, is the statement of
one of these theorems. Only model-checked is all liveness (`EventuallyTaken`,
`EventuallyBuried`, `Terminates`, `EveryRequestEnds`, `EveryTaskRuns`,
`EventuallyClosed`), as fairness and ENABLED are beyond the prover; and the two
violations of section 6, each a behaviour that TLC exhibits. Theorems beyond
the runs are the types, `Listens`, `TasksRunOnce`, `SortedFindsAll`, `SearchNarrows` and
`StaysInBuffer`.

## 6. What the code does otherwise than it says

Two disagreements have a run that violates the statement:

- `PostCountIsReal`: `SendFile()` (2506) and `MakeLogEntry()` free the POST buffer
  and leave `nPostData`, the "Number of bytes of POST data" (400). A later request
  for a program on the same connection then writes that many bytes from address 0.
  The other property, `PostDataIsFresh`, holds: no data of an earlier request
  is ever sent.
- `EndsEarlier`: `assert( zPos<zEnd-1 )` at 1074 says that a line to be written
  ends before the buffer does. A text may fill the buffer to its last byte, and then
  the assertion fails.

Seen while modelling, and in no run of their own:

- "Suffixes must be in sorted order so that we can do a binary search" (2034). The
  table is not: `jpeg` precedes `jpe`, and so on. Never found are h, hh, hqx, jpeg,
  movie, mpe, mpga, sgm, tif. For a suffix after `zip` the entry behind the table is
  read, since `last` starts at its length (2244).
- The file of a ban is to be deleted when it is 5 bans old (2941). A process that
  decides so on an old `stat()` deletes the strike that another has just noted;
  `BanNotCut` says that this is the only way, as it asks only of a file that did
  not change since.
- "If the relight is attempted but the SCGI server still cannot be contacted" the
  fallback is returned (292-295). A relight command that fails is error 721 at once,
  without the fallback (2811-2815).
- "If there is no HTTP_HOST header" default.website is used (41-44); the code replies
  404 (3373).
- `ParseRfc822Date()` subtracts the century day a year late, `year/100` where
  `(year-1)/100` counts the centuries past (1275): every date in 2100, 2200, 2300, 2500 is a day
  early. The test of the repository (1286) ends in 2038. `ParseIsExact` exempts
  these years and no others.
- `log_int()` is to give up the line if its number does not fit (838-841), as `log_str()`
  does. It returns without `*pzTail = 0` (871), so a number is left out of a
  line that is written.
- `fork()` failing (3546), or `execl()` in the child, is not noticed: the client reads "200 OK" and
  an empty body. A child that fails before `execl()` (444, 445) is still the server: its 500
  goes into the pipe, where the parent reads it as output of a program, and the log gets
  an entry from each.
- `zAcceptEncoding` is not among the fields reset at 3141, so a reply may be
  compressed because an earlier request of the connection allowed it (99-101).
- The reply of a program is cut by `rangeStart` (2705) even if no range is honoured:
  2684 asks for `rangeEnd`, which is reset, while `rangeStart` may be that of an
  earlier request. `ReplyFitsRequest` says that this is the only body that is cut.
- A program's own `206` is passed on without a range in force, and held back with one
  (2653): then althttpd applies the range once more to what the program sent, or
  replies 200.
- "If there is" an authorization file it is processed (3505-3506); one that is there but
  cannot be read is passed over (3509), and everybody is served. `AuthObeyed` states
  both.
- `zAuthType` is reset at 3142 and then not asked for: the test of a password (1929-1933)
  looks at `zAuthArg`, which is not reset. So the credentials of an earlier request on the
  connection may count for one that has none, if they were not decoded yet (1917 works
  in place).
- `zHttpScheme` stays "https" after an http-redirect of `-auth` (1946): later redirects
  on the same connection, which does not use https, lead to https.
- In `althttpd_exit()` stdout is flushed after `isExiting` was set (638-639), and then
  `Timeout()` returns at once (1562): a client that never reads can keep the process for
  ever, whatever alarm is set. So the statement on liveness ends before it.
- A program's `Status:` after `Location:`, or a second `Status:`, writes a second status
  line (2662), although `statusSent` is "True after status line is sent" (437). The client
  goes by the first, the log has the last (`LoggedStatusIsSent` excepts this); and a status of 4xx or 5xx by a program keeps
  `closeConnection` as it was, unlike one of althttpd's own (1306).
- The comment at 3665 calls MAX_PARALLEL a maximum; above it the parent sleeps a
  while and accepts nevertheless (3759).
- The reply of an SCGI fallback is sent by `SendFile()` and then leaves through
  `althttpd_exit()` (2836): it is not in the log (124-125). `EveryReplyLogged`
  exempts this way out and no other.
- A signal after the entry of a request was made adds a second one for it (1572-1586);
  one that arrives while a request line is read logs the URL of the request
  before, with the status of the signal (1563). `OnlySignalsRepeat` and
  `EntryNamesUrl` say that these are the only irregular entries.
- An nph- program's status is unknown: the log has the last one of the connection
  (2635, 1043). And if a program reports abuse with `Status: 418` (2654) after its status
  line was sent, the log has 418, which the client never saw.
- A signal between `fopen()` and `fputc()` (1454), or a full disk, leaves an empty file,
  which is a ban without end (1405-1423); `EmptyIsMomentary` says these are the only ways.
- A ban still holds in its last second: 2984 compares with `>=`, the comment (2938)
  says "less than".
- `--enable-sab` takes no argument according to 182-185, but swallows the next one,
  since `nTerm` stays 2 (3860).

- In `epoll-demo.c` one client that resets its connection ends the server (102-107), and
  what all other clients have sent is lost with it; as does an `accept()` without a free
  descriptor. `EndsForCause` says that nothing else does.

## 7. What is not modelled

- Out of memory (`SafeMalloc()` and its `Malfunction()`), a log file that cannot be
  opened, `chdir()` failing at 3046, `pthread_create()` failing, the CPU limit.
- Sizes and positions within files: a comparison of a range with a file's length
  may go either way, an ETag matches or does not. A file does not change while it is
  sent; one that is gone when it is opened is an action (`FileGone`).
- What a client takes of a reply: Deliver ends when the reply was read from the program,
  Connection has one step, with an alarm, for the sending.
- The text of requests: parsing decides only which action comes next.
- The walk along a URL: doubled slashes, and names too long for the buffer (320, 340).
- Of the exchange with programs: `fdopen()` failing for want of memory; the
  environment.
- TLS (section 8); escaping and Base64; a log in another format (`COMBINED_LOG_FORMAT`), with process
  numbers (`ALTHTTPD_LOG_PID`), or in a file that `strftime()` names.
- Connection and Deliver are not composed: Connection has each route with all its
  outcomes, Deliver has how the outcome comes about.
- Real time: that the tasks of `ptpool.c` are done within the five seconds that
  `main()` sleeps.
- The calls that open the listening socket of `epoll-demo.c`.
- The kernel, libc and clients are modelled from how the code uses them; the map
  marks them external.

## 8. Plan

Done, in this order: HttpServer, Connection, IPShun, TaskQueue and ThreadPool,
Startup, MimeType, EpollServer; Locate and Gateway and their composition Deliver;
Dates, LogLine; and eight modules of proofs.

Next models:

1. *AltHttpd*: Startup, HttpServer and Connection composed: each child's life is a
   connection, the identity of the parent is inherited, and `ChildEnds` becomes
   `Terminates`.
2. *CgiReply* with numbers: Content-length, ranges and what is copied.
3. *TlsConn*, `sanitizeString()` and `Decode64()`.
4. *PipeDemo*, *CharDevice*, *UdpEcho*, *Calculator*, *UContext*; lists and trees;
   life cycles of the kernel modules.

Next proofs: what of the liveness properties needs no fairness, as `SearchNarrows` is for
MimeType: a measure that each step of the walk and of the relight loop lowers (Deliver),
that each step of a request lowers (Connection), and that no state but an end is without
a step (HttpServer, ThreadPool).

## Running

    tlc -workers 2 -config HttpServer.cfg HttpServer
    tlapm HttpServerProofs.tla

`PROJECT.json` names the module and the configuration of each run. The longest run
takes about a minute, each module of proofs at most a few.
