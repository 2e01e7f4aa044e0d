------------------------------ MODULE MimeType ------------------------------
(***************************************************************************)
(* GetMimeType() of althttpd: a binary search for the suffix of a file in  *)
(* the table aMime, one comparison a step.  The content type of a static   *)
(* file and whether an executable file is a CGI program depend on it.      *)
(*                                                                         *)
(* Only the order of the suffixes matters to the search: a suffix is a     *)
(* number, the r-th suffix of the table in the order of strcmp() is        *)
(* 2 * r + 1, and the even numbers are the suffixes between them.          *)
(***************************************************************************)
EXTENDS Integers

CONSTANTS
  Size,       \* how many entries the table has
  aMime,      \* the table, from positions to suffixes
  Suffixes    \* the suffixes that files may have

Positions == 0..Size - 1

ASSUME MimeAssumption ==
  /\ Size \in Nat \ {0}
  /\ aMime \in [Positions -> Int]
  /\ Suffixes \subseteq Int

\* The table of the source, from "ai" to "zip".  Where a suffix follows a longer
\* one that starts with it ("jpeg", "jpe"), strcmp() orders them the other way.
Shorter == {62, 83, 87, 89, 128, 158}  \* jpe mov mpe mpg sgm tif

Table ==
  [i \in 0..192 |->
     LET rank == IF i \in 47..49 THEN i + 1     \* hdf hh hqx
                 ELSE IF i = 50 THEN 47         \* h
                 ELSE IF i \in Shorter THEN i - 1
                 ELSE IF i + 1 \in Shorter THEN i + 1
                 ELSE i
     IN 2 * rank + 1]

\* Each suffix of the table, and one before, between any two, and after them.
AllSuffixes == 0..386

VARIABLES
  pc,           \* "search", "done", "crash", or "skip": no search at all
  zSuffix,      \* the suffix looked for
  first, last,  \* the bounds of the search
  found         \* the position returned, or None

vars == <<pc, zSuffix, first, last, found>>

None == -1

Middle == (first + last) \div 2

-----------------------------------------------------------------------------
(* Faulty variants of definitions below; each breaks a property. *)

\* The search skips the first candidate above.
ProbeSkips ==
  /\ pc = "search" /\ first <= last
  /\ Middle < Size /\ zSuffix # aMime[Middle]
  /\ IF zSuffix < aMime[Middle]
     THEN last' = Middle - 1 /\ UNCHANGED first
     ELSE first' = Middle + 2 /\ UNCHANGED last
  /\ UNCHANGED <<pc, zSuffix, found>>

\* The comparison is the wrong way round.
ProbeSwapped ==
  /\ pc = "search" /\ first <= last
  /\ Middle < Size /\ zSuffix # aMime[Middle]
  /\ IF zSuffix > aMime[Middle]
     THEN last' = Middle - 1 /\ UNCHANGED first
     ELSE first' = Middle + 1 /\ UNCHANGED last
  /\ UNCHANGED <<pc, zSuffix, found>>
-----------------------------------------------------------------------------
(* The search. *)

\* A suffix of more than 17 bytes is not looked for; none in the table is longer.
Init ==
  /\ zSuffix \in Suffixes
  /\ first = 0 /\ last = Size
  /\ found = None
  /\ \/ pc = "search"
     \/ pc = "skip" /\ \A i \in Positions : zSuffix # aMime[i]

\* c == 0: the entry is returned.
Match ==
  /\ pc = "search" /\ first <= last
  /\ Middle < Size /\ zSuffix = aMime[Middle]
  /\ pc' = "done" /\ found' = Middle
  /\ UNCHANGED <<zSuffix, first, last>>

\* c < 0 or c > 0: the search goes on below or above.
Probe ==
  /\ pc = "search" /\ first <= last
  /\ Middle < Size /\ zSuffix # aMime[Middle]
  /\ IF zSuffix < aMime[Middle]
     THEN last' = Middle - 1 /\ UNCHANGED first
     ELSE first' = Middle + 1 /\ UNCHANGED last
  /\ UNCHANGED <<pc, zSuffix, found>>

\* The bounds start with last behind the table, so the search may compare with
\* what follows it: any outcome, the end of the process included.
ReadPastEnd ==
  /\ pc = "search" /\ first <= last
  /\ Middle >= Size
  /\ \/ pc' = "crash" /\ UNCHANGED <<first, last, found>>
     \/ pc' = "done" /\ found' = Middle /\ UNCHANGED <<first, last>>
     \/ last' = Middle - 1 /\ UNCHANGED <<pc, first, found>>
     \/ first' = Middle + 1 /\ UNCHANGED <<pc, last, found>>
  /\ UNCHANGED zSuffix

NotFound ==
  /\ pc = "search" /\ first > last
  /\ pc' = "done"
  /\ UNCHANGED <<zSuffix, first, last, found>>

Done == pc # "search" /\ UNCHANGED vars

Search == Match \/ Probe \/ ReadPastEnd \/ NotFound

Next == Search \/ Done

Spec == Init /\ [][Next]_vars

-----------------------------------------------------------------------------
(* Properties. *)

\* The bounds stay in or next to the table.
TypeOK ==
  /\ pc \in {"search", "done", "crash", "skip"}
  /\ zSuffix \in Suffixes
  /\ first \in 0..Size + 1 /\ last \in -1..Size
  /\ found \in -1..Size

\* The entry at p is where the order of the suffixes wants it.
InPlace(p) ==
  \A i \in Positions : /\ i < p => aMime[i] < aMime[p]
                       /\ i > p => aMime[i] > aMime[p]

\* The search for the suffix of the entry at p came to its end.
Sought(p) == zSuffix = aMime[p] /\ pc # "search"

\* An entry that is in its place is found, wherever other entries are.
PlacedAreFound ==
  \A p \in Positions :
    Sought(p) /\ InPlace(p) => pc = "done" /\ found = p

\* The search reads behind the table only for a suffix greater than the last
\* entry, and the result for each other suffix that is not there is none.
PastEndOnlyAfterLast ==
  (\A i \in Positions : aMime[i] <= aMime[Size - 1]) /\ zSuffix <= aMime[Size - 1] =>
    /\ pc # "crash"
    /\ found # Size
    /\ (\A i \in Positions : zSuffix # aMime[i]) => found = None

\* "Suffixes must be in sorted order so that we can do a binary search": the
\* search finds each suffix of the table.
EntryFound ==
  \A p \in Positions : Sought(p) => pc = "done" /\ found = p

=============================================================================
