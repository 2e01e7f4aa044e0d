---------------------------- MODULE IPShunProofs ----------------------------
(***************************************************************************)
(* Proofs about the ban file of IPShun for any number of processes, any    *)
(* length of ban, any number of abuses and an unbounded clock: each of the *)
(* properties that TLC checks for two processes.                           *)
(***************************************************************************)
EXTENDS IPShun, FiniteSetTheorems, TLAPS

Files == [there : BOOLEAN, size : Nat, mtime : Nat]

Places == {"idle", "decide", "unlink", "serve", "refused", "open", "write",
           "scan", "reap"}

\* Every variable stays in its range.
TypeOK ==
  /\ now \in Nat
  /\ file \in Files
  /\ pc \in [Processes -> Places]
  /\ st \in [Processes -> Files]
  /\ began \in [Processes -> Nat]
  /\ linked \in [Processes -> BOOLEAN]
  /\ strikes \in Int
  /\ touched \in {"no", "raced", "settled"} /\ torn \in BOOLEAN

\* Only who is about to write has the file open, and a file that is not there is
\* nobody's.
LinkInv ==
  /\ \A p \in Processes : linked[p] => file.there /\ pc[p] = "write"
  /\ ~file.there => file = Absent /\ strikes = 0

\* After a ban was made in a quiet moment no process is about to change the file.
QuietInv == touched = "settled" => file.there /\ file.size = 0 /\ Quiet

\* What a process knows of the file it looked at: it was no ban for ever, and who
\* is about to delete it has found it expired.
StatInv ==
  \A p \in Processes :
    /\ began[p] <= now
    /\ pc[p] = "decide" => st[p].there /\ st[p].size > 0
    /\ pc[p] \in {"unlink", "reap"} => Expired(st[p], now)

Inv == TypeOK /\ LinkInv /\ EmptyIsMomentary /\ QuietInv /\ StatInv

-----------------------------------------------------------------------------
\* What has expired stays expired.
LEMMA StaysExpired ==
  ASSUME NEW f \in Files, NEW t \in Nat, NEW u \in Nat, t <= u, Expired(f, t)
  PROVE  Expired(f, u)
<1> DEFINE e == f.size * 5 * BanishTime + f.mtime
<1>1. e \in Nat
  BY ShunAssumption DEF Files
<1>2. e <= t /\ f.size > 0
  BY DEF Expired
<1> HIDE DEF e
<1>3. e <= u
  BY <1>1, <1>2
<1>4. QED
  BY <1>2, <1>3 DEF Expired, e

\* The statbuf of one process is another, or forgotten.
LEMMA Remembered ==
  ASSUME TypeOK, NEW p \in Processes, NEW f \in Files, NEW use, Remember(p, f, use)
  PROVE  /\ st' \in [Processes -> Files]
         /\ \A q \in Processes \ {p} : st'[q] = st[q]
<1>1. Absent \in Files
  BY DEF Absent, Files
<1>2. PICK g \in Files : st' = [st EXCEPT ![p] = g]
  BY <1>1 DEF Remember
<1>3. QED
  BY <1>2 DEF TypeOK

\* A process that looks at the file, and decides.
LEMMA LookStep ==
  ASSUME Inv, NEW p \in Processes,
         Check(p) \/ Decide(p) \/ NotFound(p) \/ Scan(p) \/ Leave(p) \/ Abuse(p)
  PROVE  Inv'
<1> USE DEF Inv
<1>1. /\ UNCHANGED <<now, file, linked, strikes, touched, torn>>
      /\ pc[p] \in {"idle", "serve", "refused", "decide", "scan"}
  BY DEF Check, Decide, NotFound, Scan, Leave, Abuse
<1>2. /\ pc' \in [Processes -> Places]
      /\ \A q \in Processes \ {p} : pc'[q] = pc[q]
  BY DEF Check, Decide, NotFound, Scan, Leave, Abuse, Go, TypeOK, Places
<1>3. /\ st' \in [Processes -> Files]
      /\ \A q \in Processes \ {p} : st'[q] = st[q]
  <2>1. file \in Files /\ st[p] \in Files
    BY DEF TypeOK
  <2>2. CASE Check(p) \/ Decide(p) \/ Scan(p)
    BY <2>1, <2>2, Remembered DEF Check, Decide, Scan
  <2>3. CASE NotFound(p) \/ Leave(p) \/ Abuse(p)
    BY <2>3 DEF NotFound, Leave, Abuse, TypeOK
  <2>4. QED
    BY <2>2, <2>3
<1>4. /\ began' \in [Processes -> Nat] /\ began'[p] <= now
      /\ \A q \in Processes \ {p} : began'[q] = began[q]
  BY DEF Check, Decide, NotFound, Scan, Leave, Abuse, TypeOK, StatInv
<1>5. TypeOK'
  BY <1>1, <1>2, <1>3, <1>4 DEF TypeOK
<1>6. LinkInv'
  BY <1>1, <1>2 DEF LinkInv
<1>7. EmptyIsMomentary'
  BY <1>1 DEF EmptyIsMomentary
<1>8. QuietInv'
  <2> SUFFICES ASSUME touched = "settled" PROVE Quiet'
    BY <1>1 DEF QuietInv
  <2>1. pc'[p] \notin {"decide", "unlink", "open", "write", "reap"}
    BY DEF QuietInv, Quiet, Check, Decide, NotFound, Scan, Leave, Abuse, Go,
           Expired, TypeOK, Files
  <2>2. QED
    BY <1>2, <2>1 DEF QuietInv, Quiet
<1>9. StatInv'
  <2>1. /\ pc'[p] = "decide" => st'[p].there /\ st'[p].size > 0
        /\ pc'[p] \in {"unlink", "reap"} => Expired(st'[p], now)
    <3>1. CASE Check(p)
      BY <3>1 DEF Check, Go, Remember, TypeOK, Files
    <3>2. CASE Decide(p)
      <4>1. st[p] \in Files /\ st[p].size > 0
        BY <3>2 DEF Decide, StatInv, TypeOK
      <4>2. pc'[p] \in {"refused", "unlink", "serve"}
        BY <3>2 DEF Decide, Go, TypeOK
      <4>3. ASSUME pc'[p] = "unlink" PROVE Expired(st'[p], now)
        <5> DEFINE e == st[p].size * 5 * BanishTime + st[p].mtime
        <5>1. e < now /\ st'[p] = st[p]
          BY <3>2, <4>3 DEF Decide, Go, Remember, TypeOK
        <5>2. e \in Nat
          BY <4>1, ShunAssumption DEF Files
        <5> HIDE DEF e
        <5>3. e <= now
          BY <5>1, <5>2 DEF TypeOK
        <5>4. QED
          BY <4>1, <5>1, <5>3 DEF Expired, e
      <4>4. QED
        BY <4>2, <4>3
    <3>3. CASE Scan(p)
      <4>1. pc'[p] \in {"reap", "idle"}
        BY <3>3 DEF Scan, Go, TypeOK
      <4>2. ASSUME pc'[p] = "reap" PROVE st'[p] = file /\ Expired(file, began[p])
        BY <3>3, <4>2 DEF Scan, Go, Remember, TypeOK
      <4>3. file \in Files /\ began[p] \in Nat /\ now \in Nat /\ began[p] <= now
        BY DEF TypeOK, StatInv
      <4>4. QED
        BY <4>1, <4>2, <4>3, StaysExpired
    <3>4. CASE NotFound(p) \/ Leave(p) \/ Abuse(p)
      BY <3>4 DEF NotFound, Leave, Abuse, Go, TypeOK
    <3>5. QED
      BY <3>1, <3>2, <3>3, <3>4
  <2>2. QED
    BY <1>1, <1>2, <1>3, <1>4, <2>1 DEF StatInv
<1>10. QED
  BY <1>5, <1>6, <1>7, <1>8, <1>9

\* A process that deletes the file.
LEMMA RemoveStep ==
  ASSUME Inv, NEW p \in Processes, Unlink(p) \/ Reap(p)
  PROVE  Inv'
<1> USE DEF Inv
<1>1. /\ file' = Absent /\ strikes' = 0
      /\ linked' = [q \in Processes |-> FALSE]
      /\ UNCHANGED <<now, began, touched, torn>>
      /\ pc[p] \in {"unlink", "reap"}
  BY DEF Unlink, Reap, Remove
<1>2. /\ pc' \in [Processes -> Places] /\ pc'[p] \in {"serve", "idle"}
      /\ \A q \in Processes \ {p} : pc'[q] = pc[q]
  BY DEF Unlink, Reap, Go, TypeOK, Places
<1>3. /\ st' \in [Processes -> Files]
      /\ \A q \in Processes \ {p} : st'[q] = st[q]
  <2>1. st[p] \in Files
    BY DEF TypeOK
  <2>2. QED
    BY <2>1, Remembered DEF Unlink, Reap
<1>4. touched # "settled"
  BY <1>1 DEF QuietInv, Quiet
<1>5. TypeOK'
  BY <1>1, <1>2, <1>3 DEF TypeOK, Files, Absent
<1>6. LinkInv' /\ EmptyIsMomentary' /\ QuietInv'
  BY <1>1, <1>4 DEF LinkInv, EmptyIsMomentary, QuietInv, Absent
<1>7. StatInv'
  BY <1>1, <1>2, <1>3 DEF StatInv
<1>8. QED
  BY <1>5, <1>6, <1>7

\* A process that opens the file and writes to it, or is ended by a signal.
LEMMA OpenStep ==
  ASSUME Inv, NEW p \in Processes, OpenFile(p)
  PROVE  Inv'
<1> USE DEF Inv
<1>1. /\ file' \in Files /\ file'.there
      /\ file.there => file' = file
      /\ strikes' = strikes + 1
      /\ UNCHANGED <<now, st, began, touched, torn>>
      /\ pc[p] = "open"
  BY DEF OpenFile, TypeOK, Files
<1>2. /\ pc' \in [Processes -> Places] /\ pc'[p] = "write"
      /\ linked' \in [Processes -> BOOLEAN] /\ linked'[p]
      /\ \A q \in Processes \ {p} : pc'[q] = pc[q] /\ linked'[q] = linked[q]
  BY DEF OpenFile, Go, TypeOK, Places
<1>3. TypeOK'
  BY <1>1, <1>2 DEF TypeOK
<1>4. LinkInv' /\ EmptyIsMomentary'
  BY <1>1, <1>2 DEF LinkInv, EmptyIsMomentary
<1>5. QuietInv'
  BY <1>1 DEF QuietInv, Quiet
<1>6. StatInv'
  BY <1>1, <1>2 DEF StatInv
<1>7. QED
  BY <1>3, <1>4, <1>5, <1>6

LEMMA WriteStep ==
  ASSUME Inv, NEW p \in Processes, Write(p)
  PROVE  Inv'
<1> USE DEF Inv
<1>1. /\ file' \in Files /\ file'.there = file.there
      /\ file' # file => file'.size > 0
      /\ linked[p] => file'.size > 0
      /\ ~linked[p] => file' = file
      /\ UNCHANGED <<now, st, began, strikes, touched, torn>>
      /\ pc[p] = "write"
  <2>1. pc[p] = "write" /\ UNCHANGED <<now, st, began, strikes, touched, torn>>
    BY DEF Write
  <2>2. file \in Files
    BY DEF TypeOK
  <2>3. CASE linked[p]
    <3>1. file' = [there |-> TRUE, size |-> file.size + 1, mtime |-> now]
      BY <2>3 DEF Write
    <3>2. file.size \in Nat /\ file.there /\ now \in Nat
      BY <2>2, <2>3 DEF Files, LinkInv, TypeOK
    <3>3. file'.there /\ file'.size > 0 /\ file' \in Files
      BY <3>1, <3>2 DEF Files
    <3>4. QED
      BY <2>1, <2>3, <3>2, <3>3
  <2>4. CASE ~linked[p]
    BY <2>1, <2>2, <2>4 DEF Write
  <2>5. QED
    BY <2>3, <2>4
<1>2. /\ pc' \in [Processes -> Places] /\ pc'[p] = "refused"
      /\ linked' \in [Processes -> BOOLEAN] /\ ~linked'[p]
      /\ \A q \in Processes \ {p} : pc'[q] = pc[q] /\ linked'[q] = linked[q]
  BY DEF Write, Go, TypeOK, Places
<1>3. TypeOK'
  BY <1>1, <1>2 DEF TypeOK
<1>4. LinkInv'
  BY <1>1, <1>2 DEF LinkInv
<1>5. EmptyIsMomentary'
  BY <1>1, <1>2 DEF EmptyIsMomentary, TypeOK, Files
<1>6. QuietInv'
  BY <1>1 DEF QuietInv, Quiet
<1>7. StatInv'
  BY <1>1, <1>2 DEF StatInv
<1>8. QED
  BY <1>3, <1>4, <1>5, <1>6, <1>7

\* A strike is given up, and the process ends or goes on.
LEMMA GiveUpStep ==
  ASSUME Inv, NEW p \in Processes, Interrupted(p) \/ StrikeFails(p)
  PROVE  Inv'
<1> USE DEF Inv
<1>1. /\ UNCHANGED <<now, file, touched>>
      /\ torn' \in BOOLEAN
      /\ torn \/ (linked[p] /\ file.size = 0) => torn'
      /\ strikes' \in Int
      /\ ~file.there => strikes' = strikes
  BY DEF Interrupted, StrikeFails, GiveUp, TypeOK, LinkInv
<1>2. /\ pc' \in [Processes -> Places] /\ pc'[p] \in {"idle", "refused"}
      /\ linked' \in [Processes -> BOOLEAN] /\ ~linked'[p]
      /\ began' \in [Processes -> Nat] /\ began'[p] <= now
      /\ \A q \in Processes \ {p} :
           pc'[q] = pc[q] /\ linked'[q] = linked[q] /\ began'[q] = began[q]
  <2>1. /\ pc' \in [Processes -> Places] /\ pc'[p] \in {"idle", "refused"}
        /\ \A q \in Processes \ {p} : pc'[q] = pc[q]
    BY DEF Interrupted, StrikeFails, Go, TypeOK, Places
  <2>2. linked' = [linked EXCEPT ![p] = FALSE]
    BY DEF Interrupted, StrikeFails, GiveUp
  <2>3. /\ linked' \in [Processes -> BOOLEAN] /\ ~linked'[p]
        /\ \A q \in Processes \ {p} : linked'[q] = linked[q]
    BY <2>2, Zenon DEF TypeOK
  <2>4. /\ began' \in [Processes -> Nat] /\ began'[p] <= now
        /\ \A q \in Processes \ {p} : began'[q] = began[q]
    BY DEF Interrupted, StrikeFails, TypeOK, StatInv
  <2>5. QED
    BY <2>1, <2>3, <2>4
<1>3. /\ st' \in [Processes -> Files]
      /\ \A q \in Processes \ {p} : st'[q] = st[q]
  BY Remembered DEF Interrupted, StrikeFails, TypeOK
<1>4. TypeOK'
  BY <1>1, <1>2, <1>3 DEF TypeOK
<1>5. LinkInv'
  BY <1>1, <1>2 DEF LinkInv
<1>6. EmptyIsMomentary'
  BY <1>1, <1>2 DEF EmptyIsMomentary
<1>7. QuietInv'
  BY <1>1, <1>2 DEF QuietInv, Quiet
<1>8. StatInv'
  BY <1>1, <1>2, <1>3 DEF StatInv, TypeOK
<1>9. QED
  BY <1>4, <1>5, <1>6, <1>7, <1>8

\* The administrator and the clock.
LEMMA WorldStep ==
  ASSUME Inv, AdminTouch \/ Tick
  PROVE  Inv'
<1> USE DEF Inv
<1>1. CASE AdminTouch
  <2>1. /\ file' \in Files /\ file'.there /\ file'.size = file.size
        /\ UNCHANGED <<now, pc, st, began, linked, strikes, torn>>
    BY <1>1 DEF AdminTouch, TypeOK, Files
  <2>2. /\ touched' \in {"no", "raced", "settled"}
        /\ file.there => touched' = touched
        /\ ~file.there => touched' # "no" /\ (touched' = "settled" => Quiet)
    BY <1>1 DEF AdminTouch, TypeOK
  <2>3. TypeOK' /\ LinkInv'
    BY <2>1, <2>2 DEF TypeOK, LinkInv
  <2>4. EmptyIsMomentary'
    BY <2>1, <2>2 DEF EmptyIsMomentary
  <2>5. QuietInv'
    BY <2>1, <2>2 DEF QuietInv, Quiet, LinkInv, Absent
  <2>6. StatInv'
    BY <2>1 DEF StatInv
  <2>7. QED
    BY <2>3, <2>4, <2>5, <2>6
<1>2. CASE Tick
  <2>1. /\ now' \in Nat /\ now <= now' /\ now \in Nat
        /\ UNCHANGED <<file, pc, st, began, linked, strikes, touched, torn>>
    BY <1>2 DEF Tick, TypeOK
  <2>2. TypeOK' /\ LinkInv' /\ EmptyIsMomentary' /\ QuietInv'
    BY <2>1 DEF TypeOK, LinkInv, EmptyIsMomentary, QuietInv, Quiet
  <2>3. StatInv'
    <3> SUFFICES ASSUME NEW p \in Processes
                 PROVE  /\ began[p] <= now'
                        /\ pc[p] = "decide" => st[p].there /\ st[p].size > 0
                        /\ pc[p] \in {"unlink", "reap"} => Expired(st[p], now')
      BY <2>1 DEF StatInv
    <3>1. began[p] \in Nat /\ st[p] \in Files /\ began[p] <= now
      BY DEF TypeOK, StatInv
    <3>2. pc[p] \in {"unlink", "reap"} => Expired(st[p], now')
      BY <2>1, <3>1, StaysExpired DEF StatInv
    <3>3. QED
      BY <2>1, <3>1, <3>2 DEF StatInv
  <2>4. QED
    BY <2>2, <2>3
<1>3. QED
  BY <1>1, <1>2

LEMMA InvCorrect == Spec => []Inv
<1>1. Init => Inv
  <2> SUFFICES ASSUME Init PROVE Inv
    OBVIOUS
  <2>1. TypeOK
    <3>1. Absent \in Files
      BY DEF Absent, Files
    <3>2. torn \in BOOLEAN /\ touched \in {"no", "raced", "settled"}
      BY Zenon DEF Init
    <3>3. /\ now \in Nat /\ strikes \in Int
          /\ pc \in [Processes -> Places] /\ began \in [Processes -> Nat]
      BY DEF Init, Places
    <3>4. /\ file \in Files /\ st \in [Processes -> Files]
          /\ linked \in [Processes -> BOOLEAN]
      BY <3>1 DEF Init
    <3>5. QED
      BY <3>2, <3>3, <3>4, Zenon DEF TypeOK
  <2>2. LinkInv /\ EmptyIsMomentary /\ QuietInv /\ StatInv
    BY DEF Init, LinkInv, EmptyIsMomentary, QuietInv, StatInv, Absent
  <2>3. QED
    BY <2>1, <2>2 DEF Inv
<1>2. Inv /\ [Next]_vars => Inv'
  <2> SUFFICES ASSUME Inv, [Next]_vars PROVE Inv'
    OBVIOUS
  <2>1. ASSUME NEW p \in Processes, Process(p) PROVE Inv'
    BY <2>1, LookStep, RemoveStep, OpenStep, WriteStep, GiveUpStep DEF Process
  <2>2. ASSUME NEW p \in Processes, Interrupted(p) PROVE Inv'
    BY <2>2, GiveUpStep
  <2>3. CASE AdminTouch \/ Tick
    BY <2>3, WorldStep
  <2>4. CASE UNCHANGED vars
    BY <2>4 DEF vars, Inv, TypeOK, LinkInv, EmptyIsMomentary, QuietInv, Quiet,
                StatInv, Expired
  <2>5. QED
    BY <2>1, <2>2, <2>3, <2>4 DEF Next
<1>3. QED
  BY <1>1, <1>2, PTL DEF Spec

-----------------------------------------------------------------------------
(* The strikes are counted. *)

Writers == {p \in Processes : linked[p]}

StrikeInv ==
  IF file.there THEN file.size + Cardinality(Writers) = strikes ELSE Writers = {}

LEMMA WritersFinite ==
  /\ IsFiniteSet(Writers) /\ Cardinality(Writers) \in Nat
  BY ShunAssumption, FS_Subset, FS_CardinalityType DEF Writers

\* One writer more or less.
LEMMA WritersChange ==
  ASSUME Inv, NEW p \in Processes, NEW l \in BOOLEAN,
         linked' = [linked EXCEPT ![p] = l]
  PROVE  /\ l /\ ~linked[p] => Cardinality(Writers') = Cardinality(Writers) + 1
         /\ ~l /\ linked[p] => Cardinality(Writers') = Cardinality(Writers) - 1
         /\ (l <=> linked[p]) => Writers' = Writers
<1>1. linked \in [Processes -> BOOLEAN]
  BY DEF Inv, TypeOK
<1>2. CASE l /\ ~linked[p]
  <2>1. Writers' = Writers \cup {p} /\ p \notin Writers
    BY <1>1, <1>2 DEF Writers
  <2>2. QED
    BY <1>2, <2>1, WritersFinite, FS_AddElement
<1>3. CASE ~l /\ linked[p]
  <2>1. Writers' = Writers \ {p} /\ p \in Writers
    BY <1>1, <1>3 DEF Writers
  <2>2. QED
    BY <1>3, <2>1, WritersFinite, FS_RemoveElement
<1>4. CASE l <=> linked[p]
  BY <1>1, <1>4 DEF Writers
<1>5. QED
  BY <1>2, <1>3, <1>4

LEMMA StrikeStep == Inv /\ StrikeInv /\ [Next]_vars => StrikeInv'
<1> SUFFICES ASSUME Inv, StrikeInv, [Next]_vars PROVE StrikeInv'
  OBVIOUS
<1> DEFINE n == Cardinality(Writers)
<1>0. /\ file \in Files /\ file.size \in Nat /\ n \in Nat /\ strikes \in Int
      /\ linked \in [Processes -> BOOLEAN]
  BY WritersFinite DEF Inv, TypeOK, Files
<1>1. CASE UNCHANGED <<file, linked, strikes>>
  BY <1>1 DEF StrikeInv, Writers
<1>2. ASSUME NEW p \in Processes, Unlink(p) \/ Reap(p) PROVE StrikeInv'
  BY <1>2 DEF Unlink, Reap, Remove, StrikeInv, Writers, Absent
<1>3. ASSUME NEW p \in Processes, OpenFile(p) PROVE StrikeInv'
  <2>1. ~linked[p] /\ linked' = [linked EXCEPT ![p] = TRUE] /\ strikes' = strikes + 1
    BY <1>3 DEF OpenFile, Inv, LinkInv
  <2>2. Cardinality(Writers') = n + 1
    BY <2>1, WritersChange
  <2>3. CASE file.there
    <3>1. file' = file
      BY <1>3, <2>3 DEF OpenFile
    <3>2. QED
      BY <1>0, <2>1, <2>2, <2>3, <3>1 DEF StrikeInv
  <2>4. CASE ~file.there
    <3>1. file'.there /\ file'.size = 0
      BY <1>3, <2>4 DEF OpenFile
    <3>2. n = 0 /\ strikes = 0
      BY <2>4, FS_EmptySet DEF StrikeInv, Inv, LinkInv
    <3>3. QED
      BY <2>1, <2>2, <3>1, <3>2 DEF StrikeInv
  <2>5. QED
    BY <2>3, <2>4
<1>4. ASSUME NEW p \in Processes, Write(p) PROVE StrikeInv'
  <2>1. linked' = [linked EXCEPT ![p] = FALSE] /\ strikes' = strikes
    BY <1>4 DEF Write
  <2>2. CASE linked[p]
    <3>1. file.there /\ file'.there /\ file'.size = file.size + 1
      BY <1>4, <2>2 DEF Write, Inv, LinkInv
    <3>2. Cardinality(Writers') = n - 1
      BY <2>1, <2>2, WritersChange
    <3>3. QED
      BY <1>0, <2>1, <3>1, <3>2 DEF StrikeInv
  <2>3. CASE ~linked[p]
    <3>1. file' = file /\ Writers' = Writers
      BY <1>4, <2>1, <2>3, WritersChange DEF Write
    <3>2. QED
      BY <2>1, <3>1 DEF StrikeInv
  <2>4. QED
    BY <2>2, <2>3
<1>5. ASSUME NEW p \in Processes, Interrupted(p) \/ StrikeFails(p)
      PROVE  StrikeInv'
  <2>1. /\ linked' = [linked EXCEPT ![p] = FALSE] /\ file' = file
        /\ strikes' = IF linked[p] THEN strikes - 1 ELSE strikes
    BY <1>5 DEF Interrupted, StrikeFails, GiveUp
  <2>2. CASE linked[p]
    <3>1. file.there
      BY <2>2 DEF Inv, LinkInv
    <3>2. Cardinality(Writers') = n - 1
      BY <2>1, <2>2, WritersChange
    <3>3. QED
      BY <1>0, <2>1, <2>2, <3>1, <3>2 DEF StrikeInv
  <2>3. CASE ~linked[p]
    <3>1. Writers' = Writers
      BY <2>1, <2>3, WritersChange
    <3>2. QED
      BY <2>1, <2>3, <3>1 DEF StrikeInv
  <2>4. QED
    BY <2>2, <2>3
<1>6. CASE AdminTouch
  <2>1. /\ file'.there /\ file'.size = file.size
        /\ UNCHANGED <<linked, strikes>>
    BY <1>6 DEF AdminTouch
  <2>2. Writers' = Writers
    BY <2>1 DEF Writers
  <2>3. CASE ~file.there
    <3>1. file.size = 0 /\ n = 0 /\ strikes = 0
      BY <2>3, FS_EmptySet DEF StrikeInv, Inv, LinkInv, Absent
    <3>2. QED
      BY <2>1, <2>2, <3>1 DEF StrikeInv
  <2>4. QED
    BY <2>1, <2>2, <2>3 DEF StrikeInv
<1>7. ASSUME NEW p \in Processes,
             \/ Check(p) \/ Decide(p) \/ Abuse(p)
             \/ NotFound(p) \/ Scan(p) \/ Leave(p)
      PROVE  UNCHANGED <<file, linked, strikes>>
  BY <1>7 DEF Check, Decide, Abuse, NotFound, Scan, Leave
<1>8. CASE Tick \/ UNCHANGED vars
  BY <1>1, <1>8 DEF Tick, vars
<1>9. QED
  BY <1>1, <1>2, <1>3, <1>4, <1>5, <1>6, <1>7, <1>8 DEF Next, Process

-----------------------------------------------------------------------------
(* The results. *)

\* Among any number of processes, only the administrator, a signal between
\* fopen() and fputc(), or a write that fails makes a ban for ever.
THEOREM OnlyTornOrTouched == Spec => []EmptyIsMomentary
<1>1. Inv => EmptyIsMomentary
  BY DEF Inv
<1>2. QED
  BY <1>1, InvCorrect, PTL

\* A ban that the administrator makes while no process is at the file stays.
THEOREM SettledStays == Spec => []SettledBanStays
<1>1. Inv => SettledBanStays
  BY DEF Inv, QuietInv, SettledBanStays
<1>2. QED
  BY <1>1, InvCorrect, PTL

\* However many processes note strikes at once, the file counts each of them.
THEOREM StrikesCounted == Spec => []NoLostStrike
<1>1. Init => StrikeInv
  BY DEF Init, StrikeInv, Writers, Absent
<1>2. Inv /\ StrikeInv /\ [Next]_vars => StrikeInv'
  BY StrikeStep
<1>3. StrikeInv => NoLostStrike
  BY DEF StrikeInv, Writers, NoLostStrike
<1>4. QED
  BY <1>1, <1>2, <1>3, InvCorrect, PTL DEF Spec

\* A file is deleted only when it is long expired, unless it was changed after
\* the stat() of the process that deletes it.
THEOREM DeletedWhenExpired == Spec => BanNotCut
<1>1. Inv /\ [Next]_vars =>
        [file.there /\ ~file'.there =>
           \E p \in Processes :
             /\ pc[p] \in {"unlink", "reap"} /\ pc'[p] # pc[p]
             /\ Expired(file, now) \/ file # st[p]]_vars
  <2> SUFFICES ASSUME Inv, Next, file.there, ~file'.there
               PROVE  \E p \in Processes :
                        /\ pc[p] \in {"unlink", "reap"} /\ pc'[p] # pc[p]
                        /\ Expired(file, now) \/ file # st[p]
    OBVIOUS
  <2>1. \E p \in Processes : Unlink(p) \/ Reap(p)
    BY DEF Next, Process, Check, Decide, Abuse, OpenFile, Write, StrikeFails,
           NotFound, Scan, Leave, Interrupted, AdminTouch, Tick
  <2>2. PICK p \in Processes : Unlink(p) \/ Reap(p)
    BY <2>1
  <2>3. pc[p] \in {"unlink", "reap"} /\ pc'[p] # pc[p]
    BY <2>2 DEF Unlink, Reap, Go, Inv, TypeOK
  <2>4. Expired(st[p], now)
    BY <2>3 DEF Inv, StatInv
  <2>5. QED
    BY <2>3, <2>4
<1>2. QED
  BY <1>1, InvCorrect, PTL DEF Spec, BanNotCut

=============================================================================
