------------------------------- MODULE IPShun -------------------------------
(***************************************************************************)
(* How althttpd shuns abusive clients: the file of one remote address in   *)
(* the directory given by --ipshun.  Its size is the number of strikes,    *)
(* its mtime the time of the last one, and an empty file is a ban without  *)
(* end, which the administrator makes with touch(1).  Every process that   *)
(* serves the address reads, extends and deletes the file without a lock,  *)
(* each system call being a step of its own.                               *)
(*                                                                         *)
(* UnlinkExpiredIPBlockers() treats the files of the directory one by one, *)
(* so one file stands for all.                                             *)
(***************************************************************************)
EXTENDS Integers, FiniteSets

CONSTANTS
  Processes,   \* processes that serve connections of the address
  BanishTime,  \* BANISH_TIME: seconds of ban for each strike
  MaxTime,     \* bound of the clock
  MaxAbuses,   \* bound of the number of abusive requests
  Admin,       \* TRUE if the administrator may touch the file
  Interrupts   \* TRUE if signals may end a process

ASSUME ShunAssumption ==
  /\ IsFiniteSet(Processes)
  /\ BanishTime \in Nat \ {0} /\ MaxTime \in Nat /\ MaxAbuses \in Nat
  /\ Admin \in BOOLEAN /\ Interrupts \in BOOLEAN

VARIABLES
  now,      \* the clock
  file,     \* the file of the address: whether it exists, its size and mtime
  pc,       \* where each process is
  st,       \* the statbuf of each process, while it is of use
  began,    \* the time each process took before it read the directory
  linked,   \* whether the file each process has open is still the file
  abuses,   \* history: number of abusive requests
  strikes,  \* history: those begun on the file and not given up
  touched,  \* history: "no", or how the administrator made the file
  torn      \* history: whether a process gave up a strike on an empty file

vars == <<now, file, pc, st, began, linked, abuses, strikes, touched, torn>>

Absent == [there |-> FALSE, size |-> 0, mtime |-> 0]

\* The ban is over for so long that the file may be deleted.
Expired(f, time) == f.size > 0 /\ f.size * 5 * BanishTime + f.mtime <= time

Init ==
  /\ now = 0
  /\ file = Absent
  /\ pc = [p \in Processes |-> "idle"]
  /\ st = [p \in Processes |-> Absent]
  /\ began = [p \in Processes |-> 0]
  /\ linked = [p \in Processes |-> FALSE]
  /\ abuses = 0 /\ strikes = 0
  /\ touched = "no" /\ torn = FALSE

Go(p, place) == pc' = [pc EXCEPT ![p] = place]

\* The statbuf is kept while the process may still act on it.
Remember(p, f, use) ==
  st' = [st EXCEPT ![p] = IF pc'[p] \in use THEN f ELSE Absent]

\* unlink(): who has the file open keeps a file without a name.
Remove ==
  /\ file' = Absent
  /\ linked' = [p \in Processes |-> FALSE]
  /\ strikes' = 0

-----------------------------------------------------------------------------
(* Faulty variants of actions below; each breaks a property.                *)

\* The file is opened with mode "w" instead of "a".
OpenTruncates(p) ==
  /\ pc[p] = "open"
  /\ file' = [there |-> TRUE, size |-> 0, mtime |-> now]
  /\ linked' = [linked EXCEPT ![p] = TRUE]
  /\ strikes' = strikes + 1
  /\ Go(p, "write")
  /\ UNCHANGED <<now, st, began, abuses, touched, torn>>

\* The file is deleted as soon as the ban is over.
DecideEarly(p) ==
  /\ pc[p] = "decide"
  /\ Go(p, IF st[p].size * BanishTime + st[p].mtime < now THEN "unlink"
           ELSE IF st[p].size * 5 * BanishTime + st[p].mtime < now THEN "serve"
           ELSE "refused")
  /\ Remember(p, st[p], {"unlink"})
  /\ UNCHANGED <<now, file, began, linked, abuses, strikes, touched, torn>>

\* Empty files are deleted like others.
ScanEmpty(p) ==
  /\ pc[p] = "scan"
  /\ Go(p, IF file.there
              /\ file.size * 5 * BanishTime + file.mtime <= began[p]
           THEN "reap" ELSE "idle")
  /\ began' = [began EXCEPT ![p] = 0]
  /\ Remember(p, file, {"reap"})
  /\ UNCHANGED <<now, file, linked, abuses, strikes, touched, torn>>

\* The byte is written only if the file was there before.
WriteOld(p) ==
  /\ pc[p] = "write"
  /\ IF linked[p] /\ file.size > 0
     THEN file' = [there |-> TRUE, size |-> file.size + 1, mtime |-> now]
     ELSE UNCHANGED file
  /\ linked' = [linked EXCEPT ![p] = FALSE]
  /\ Go(p, "refused")
  /\ UNCHANGED <<now, st, began, abuses, strikes, touched, torn>>

-----------------------------------------------------------------------------
(* DisallowedRemoteAddr() *)

\* stat(): no file is no ban, an empty one is a ban for ever.
Check(p) ==
  /\ pc[p] = "idle"
  /\ Go(p, IF ~file.there THEN "serve"
           ELSE IF file.size = 0 THEN "refused" ELSE "decide")
  /\ Remember(p, file, {"decide"})
  /\ UNCHANGED <<now, file, began, linked, abuses, strikes, touched, torn>>

\* time(): the ban holds, or is over, or is over for so long that the file goes.
Decide(p) ==
  /\ pc[p] = "decide"
  /\ Go(p, IF st[p].size * BanishTime + st[p].mtime >= now THEN "refused"
           ELSE IF st[p].size * 5 * BanishTime + st[p].mtime < now THEN "unlink"
           ELSE "serve")
  /\ Remember(p, st[p], {"unlink"})
  /\ UNCHANGED <<now, file, began, linked, abuses, strikes, touched, torn>>

Unlink(p) ==
  /\ pc[p] = "unlink"
  /\ Remove
  /\ Go(p, "serve")
  /\ Remember(p, st[p], {})
  /\ UNCHANGED <<now, began, abuses, touched, torn>>

-----------------------------------------------------------------------------
(* BlockIPAddress(), called for a request that looks like an attack (which   *)
(* may show before the address is checked) or at the word of a CGI program.  *)

\* stat(): the strike is noted unless the ban is for ever.
Abuse(p) ==
  /\ pc[p] \in {"idle", "serve"} /\ abuses < MaxAbuses
  /\ abuses' = abuses + 1
  /\ Go(p, IF file.there /\ file.size = 0 THEN "refused" ELSE "open")
  /\ UNCHANGED <<now, file, st, began, linked, strikes, touched, torn>>

\* fopen(..., "a") makes the file if there is none.
OpenFile(p) ==
  /\ pc[p] = "open"
  /\ file' = IF file.there THEN file
             ELSE [there |-> TRUE, size |-> 0, mtime |-> now]
  /\ linked' = [linked EXCEPT ![p] = TRUE]
  /\ strikes' = strikes + 1
  /\ Go(p, "write")
  /\ UNCHANGED <<now, st, began, abuses, touched, torn>>

\* fputc() and fclose(): the byte reaches the file if it still is the file.
Write(p) ==
  /\ pc[p] = "write"
  /\ file' = IF linked[p]
             THEN [there |-> TRUE, size |-> file.size + 1, mtime |-> now]
             ELSE file
  /\ linked' = [linked EXCEPT ![p] = FALSE]
  /\ Go(p, "refused")
  /\ UNCHANGED <<now, st, began, abuses, strikes, touched, torn>>

\* What a strike leaves behind whose byte never reaches the file.
GiveUp(p) ==
  /\ linked' = [linked EXCEPT ![p] = FALSE]
  /\ torn' = (torn \/ (linked[p] /\ file.size = 0))
  /\ strikes' = IF linked[p] THEN strikes - 1 ELSE strikes

\* fopen() fails, or fputc() and fclose() do (the disk is full): nobody looks at
\* what they return, and the request goes on as if the strike were noted.
StrikeFails(p) ==
  /\ pc[p] \in {"open", "write"}
  /\ GiveUp(p)
  /\ Go(p, "refused")
  /\ UNCHANGED <<now, file, st, began, abuses, touched>>

-----------------------------------------------------------------------------
(* UnlinkExpiredIPBlockers(), called by NotFound() *)

\* time()
NotFound(p) ==
  /\ pc[p] \in {"idle", "serve"}
  /\ began' = [began EXCEPT ![p] = now]
  /\ Go(p, "scan")
  /\ UNCHANGED <<now, file, st, linked, abuses, strikes, touched, torn>>

\* stat()
Scan(p) ==
  /\ pc[p] = "scan"
  /\ Go(p, IF file.there /\ Expired(file, began[p]) THEN "reap" ELSE "idle")
  /\ began' = [began EXCEPT ![p] = 0]
  /\ Remember(p, file, {"reap"})
  /\ UNCHANGED <<now, file, linked, abuses, strikes, touched, torn>>

Reap(p) ==
  /\ pc[p] = "reap"
  /\ Remove
  /\ Go(p, "idle")
  /\ Remember(p, st[p], {})
  /\ UNCHANGED <<now, began, abuses, touched, torn>>

-----------------------------------------------------------------------------
\* The request is served, or refused with 503.  The next one is served by this
\* process or by another, forked in its place.
Leave(p) ==
  /\ pc[p] \in {"serve", "refused"}
  /\ Go(p, "idle")
  /\ UNCHANGED <<now, file, st, began, linked, abuses, strikes, touched, torn>>

\* A signal ends the process: what it has not yet written is not written.
Interrupted(p) ==
  /\ Interrupts /\ pc[p] # "idle"
  /\ GiveUp(p)
  /\ Go(p, "idle")
  /\ Remember(p, st[p], {}) /\ began' = [began EXCEPT ![p] = 0]
  /\ UNCHANGED <<now, file, abuses, touched>>

\* No process is between its look at the file and what it does about it.
Quiet ==
  \A p \in Processes :
    pc[p] \notin {"decide", "unlink", "open", "write", "reap"}

\* The administrator bans the address for ever, or extends a ban.
AdminTouch ==
  /\ Admin
  /\ file' = [there |-> TRUE, size |-> file.size, mtime |-> now]
  /\ touched' = IF file.there THEN touched
                ELSE IF Quiet THEN "settled" ELSE "raced"
  /\ UNCHANGED <<now, pc, st, began, linked, abuses, strikes, torn>>

Tick ==
  /\ now < MaxTime
  /\ now' = now + 1
  /\ UNCHANGED <<file, pc, st, began, linked, abuses, strikes, touched, torn>>

Process(p) ==
  \/ Check(p) \/ Decide(p) \/ Unlink(p)
  \/ Abuse(p) \/ OpenFile(p) \/ Write(p) \/ StrikeFails(p)
  \/ NotFound(p) \/ Scan(p) \/ Reap(p)
  \/ Leave(p)

Next ==
  \/ \E p \in Processes : Process(p) \/ Interrupted(p)
  \/ AdminTouch \/ Tick

Spec == Init /\ [][Next]_vars

-----------------------------------------------------------------------------
(* Properties. *)

\* An empty file, which bans for ever, is the administrator's, or there for a
\* moment only because the process that made it is about to write, or left by a
\* process that a signal ended in that moment or whose write failed: no other
\* interleaving of strikes and deletions turns a ban into one for ever.
EmptyIsMomentary ==
  file.there /\ file.size = 0 =>
    \/ touched # "no" \/ torn
    \/ \E p \in Processes : linked[p]

\* A ban for ever that the administrator made while no process was at the file
\* stays: whatever is requested afterwards, the file is neither deleted nor made
\* a ban that ends.
SettledBanStays == touched = "settled" => file.there /\ file.size = 0

\* No strike is lost or counted twice while its file is there: the size of the
\* file and the bytes still to be written are the strikes begun on it, however
\* several processes take turns in BlockIPAddress().
NoLostStrike ==
  file.there => file.size + Cardinality({p \in Processes : linked[p]}) = strikes

\* A ban ends early only for one reason: a process deletes the file for what it
\* was at its stat(), and another process or the administrator has changed it
\* since.  A file that nobody changed is deleted only when it is long expired.
BanNotCut ==
  [][file.there /\ ~file'.there =>
       \E p \in Processes :
         /\ pc[p] \in {"unlink", "reap"} /\ pc'[p] # pc[p]
         /\ Expired(file, now) \/ file # st[p]]_vars

=============================================================================
