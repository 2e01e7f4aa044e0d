---------------------------- MODULE HelperProofs ----------------------------
(***************************************************************************)
(* What is proved about the helper functions of althttpd: the search for a *)
(* MIME type, the two conversions of dates, and the line of the log.       *)
(*                                                                         *)
(* MIME types.  For a table of any size and in any order, an entry that is *)
(* in its place is found, the search stays in the table as long as the     *)
(* suffix is not greater than the last entry, and it narrows with each     *)
(* comparison, so that it ends.                                            *)
(*                                                                         *)
(* Dates.  The walk of the calendar gives an induction: a date is right if *)
(* the one before is and the conversion grows by one day.  Within a month  *)
(* it grows with the day; from month to month by the differences in        *)
(* priorDays[] and the leap day; from year to year by three divisions,     *)
(* whose growth the first lemmas give.  unixToDateTime() goes the other    *)
(* way: its divisions find century, year and month one after the other, so *)
(* the number of the day is written as the sum those divisions undo, which *)
(* is the invariant of the walk.                                           *)
(*                                                                         *)
(* Lines.  The invariant says where zPos may be: a text that was cut has   *)
(* left it at the end of the buffer, from where only numbers, which are    *)
(* skipped there, lead on; and since the last item is a text of fixed      *)
(* length, a line that survives ends before the last byte.                 *)
(***************************************************************************)
EXTENDS MimeType, Dates, Sequences, TLAPS

CONSTANTS BufferSize, Texts, Digits
VARIABLES next, zPos, top, cut, lost, toSend

Log == INSTANCE LogLine WITH Size <- BufferSize

-----------------------------------------------------------------------------
(* The search for a MIME type. *)

\* An entry in its place that is looked for is not outside the bounds.
RangeInv ==
  \A p \in Positions :
    zSuffix = aMime[p] /\ InPlace(p) =>
      IF pc = "search" THEN first <= p /\ p <= last /\ found = None
      ELSE pc = "done" /\ found = p

\* The last entry is the greatest, and the suffix is not greater.
Covered ==
  /\ \A i \in Positions : aMime[i] <= aMime[Size - 1]
  /\ zSuffix <= aMime[Size - 1]

\* Then the search never starts above the last entry, and what it returns is
\* the position of the suffix.
InTableInv ==
  Covered =>
    /\ first <= Size - 1
    /\ pc # "crash"
    /\ found # None => found \in Positions /\ zSuffix = aMime[found]

Inv == TypeOK /\ RangeInv /\ InTableInv

\* The middle of two bounds lies between them.
LEMMA MiddleBetween ==
  ASSUME TypeOK, first <= last
  PROVE  Middle \in Int /\ first <= Middle /\ Middle <= last
BY MimeAssumption DEF TypeOK, Middle

\* The entries are numbers.
LEMMA EntriesAreNumbers ==
  /\ \A i \in Positions : aMime[i] \in Int
  /\ Size - 1 \in Positions
BY MimeAssumption DEF Positions

LEMMA TypeStep == TypeOK /\ [Next]_vars => TypeOK'
<1> SUFFICES ASSUME TypeOK, [Next]_vars PROVE TypeOK' OBVIOUS
<1> USE MimeAssumption DEF TypeOK, None
<1>1. CASE Match BY <1>1, MiddleBetween DEF Match
<1>2. CASE Probe BY <1>2, MiddleBetween DEF Probe
<1>3. CASE ReadPastEnd BY <1>3, MiddleBetween DEF ReadPastEnd
<1>4. CASE NotFound BY <1>4 DEF NotFound
<1>5. CASE UNCHANGED vars BY <1>5 DEF vars
<1>6. QED BY <1>1, <1>2, <1>3, <1>4, <1>5 DEF Next, Search, Done

LEMMA RangeStep == TypeOK /\ RangeInv /\ [Next]_vars => RangeInv'
<1> SUFFICES ASSUME TypeOK, RangeInv, [Next]_vars,
                    NEW p \in Positions, (zSuffix = aMime[p] /\ InPlace(p))'
             PROVE  (IF pc = "search"
                     THEN first <= p /\ p <= last /\ found = None
                     ELSE pc = "done" /\ found = p)'
  BY DEF RangeInv
<1>1. InPlace(p) BY DEF InPlace
<1>2. zSuffix' = zSuffix /\ zSuffix = aMime[p]
  BY DEF Next, Search, Match, Probe, ReadPastEnd, NotFound, Done, vars
<1>3. IF pc = "search" THEN first <= p /\ p <= last /\ found = None
      ELSE pc = "done" /\ found = p
  BY <1>1, <1>2 DEF RangeInv
<1> USE MimeAssumption DEF Positions
<1>4. CASE Match
  <2>1. Middle \in Positions /\ aMime[Middle] = aMime[p]
    BY <1>2, <1>4, MiddleBetween DEF Match, TypeOK
  <2>2. Middle = p
    BY <1>1, <2>1, EntriesAreNumbers DEF InPlace
  <2>3. QED BY <1>4, <2>2 DEF Match
<1>5. CASE Probe
  <2>1. Middle \in Positions /\ aMime[Middle] # aMime[p] /\ pc = "search"
    BY <1>2, <1>5, MiddleBetween DEF Probe, TypeOK
  <2>2. CASE zSuffix < aMime[Middle]
    <3>1. p < Middle
      BY <1>1, <1>2, <2>1, <2>2, EntriesAreNumbers DEF InPlace
    <3>2. QED BY <1>3, <1>5, <2>1, <2>2, <3>1 DEF Probe, TypeOK
  <2>3. CASE ~(zSuffix < aMime[Middle])
    <3>1. Middle < p
      BY <1>1, <1>2, <2>1, <2>3, EntriesAreNumbers DEF InPlace
    <3>2. QED BY <1>3, <1>5, <2>1, <2>3, <3>1 DEF Probe, TypeOK
  <2>4. QED BY <2>2, <2>3
<1>6. CASE ReadPastEnd
  <2>1. first <= p /\ first <= last /\ Middle >= Size
    BY <1>3, <1>6 DEF ReadPastEnd
  <2>2. (first + last) \div 2 < Size
    BY <2>1 DEF TypeOK
  <2>3. QED BY <2>1, <2>2, MiddleBetween DEF Middle
<1>7. CASE NotFound BY <1>3, <1>7 DEF NotFound, TypeOK
<1>8. CASE UNCHANGED vars BY <1>3, <1>8 DEF vars
<1>9. QED BY <1>4, <1>5, <1>6, <1>7, <1>8 DEF Next, Search, Done

LEMMA InTableStep == TypeOK /\ InTableInv /\ [Next]_vars => InTableInv'
<1> SUFFICES ASSUME TypeOK, InTableInv, [Next]_vars, Covered'
             PROVE  /\ first' <= Size - 1
                    /\ pc' # "crash"
                    /\ found' # None =>
                         found' \in Positions /\ zSuffix' = aMime[found']
  BY DEF InTableInv
<1>1. zSuffix' = zSuffix
  BY DEF Next, Search, Match, Probe, ReadPastEnd, NotFound, Done, vars
<1>2. Covered BY <1>1 DEF Covered
<1>3. /\ first <= Size - 1
      /\ pc # "crash"
      /\ found # None => found \in Positions /\ zSuffix = aMime[found]
  BY <1>2 DEF InTableInv
<1> USE MimeAssumption
<1>4. CASE Match
  BY <1>3, <1>4, MiddleBetween DEF Match, TypeOK, Positions
<1>5. CASE Probe
  <2>1. Middle \in Positions
    BY <1>5, MiddleBetween DEF Probe, TypeOK, Positions
  <2>2. zSuffix > aMime[Middle] => Middle # Size - 1
    BY <1>2, <2>1, EntriesAreNumbers DEF Covered, TypeOK
  <2>3. first' <= Size - 1
    BY <1>3, <1>5, <2>1, <2>2, EntriesAreNumbers
       DEF Probe, Positions, TypeOK
  <2>4. QED BY <1>3, <1>5, <2>3 DEF Probe
<1>6. CASE ReadPastEnd
  <2>1. first <= last /\ Middle >= Size BY <1>6 DEF ReadPastEnd
  <2>2. (first + last) \div 2 < Size BY <1>3, <2>1 DEF TypeOK
  <2>3. QED BY <2>1, <2>2, MiddleBetween DEF Middle
<1>7. CASE NotFound BY <1>3, <1>7 DEF NotFound
<1>8. CASE UNCHANGED vars BY <1>3, <1>8 DEF vars
<1>9. QED BY <1>4, <1>5, <1>6, <1>7, <1>8 DEF Next, Search, Done

LEMMA InvInductive == Spec => []Inv
<1>1. Init => Inv
  <2> SUFFICES ASSUME Init PROVE Inv OBVIOUS
  <2> USE MimeAssumption DEF Init, None
  <2>1. TypeOK BY DEF TypeOK
  <2>2. RangeInv BY DEF RangeInv, Positions
  <2>3. InTableInv BY DEF InTableInv
  <2>4. QED BY <2>1, <2>2, <2>3 DEF Inv
<1>2. Inv /\ [Next]_vars => Inv'
  BY TypeStep, RangeStep, InTableStep DEF Inv
<1>3. QED BY <1>1, <1>2, PTL DEF Spec

-----------------------------------------------------------------------------
(* The results. *)

\* The bounds of the search stay in or next to the table.
THEOREM TypeCorrect == Spec => []TypeOK
<1>1. Inv => TypeOK BY DEF Inv
<1>2. QED BY <1>1, InvInductive, PTL

\* Whatever the order of the other entries, one in its place is found.
THEOREM PlacedFound == Spec => []PlacedAreFound
<1>1. Inv => PlacedAreFound
  BY DEF Inv, RangeInv, PlacedAreFound, Sought
<1>2. QED BY <1>1, InvInductive, PTL

\* A suffix not greater than the last entry never makes the search read behind
\* the table, and has no entry when it is not there.
THEOREM StaysInTable == Spec => []PastEndOnlyAfterLast
<1>1. Inv => PastEndOnlyAfterLast
  BY MimeAssumption
     DEF Inv, InTableInv, Covered, PastEndOnlyAfterLast, Positions, None
<1>2. QED BY <1>1, InvInductive, PTL

\* Each comparison that does not end the search leaves a smaller range, whether
\* or not it was one with an entry: the loop in GetMimeType() ends after at most
\* Size + 1 of them.
Narrows == [][pc' = "search" => last' - first' < last - first]_vars

THEOREM SearchNarrows == Spec => Narrows
<1>1. Inv /\ [Next]_vars =>
        [pc' = "search" => last' - first' < last - first]_vars
  <2> SUFFICES ASSUME Inv, Next, pc' = "search"
               PROVE  last' - first' < last - first \/ UNCHANGED vars
    OBVIOUS
  <2> USE DEF Inv
  <2>1. TypeOK /\ first \in Int /\ last \in Int
    BY MimeAssumption DEF TypeOK
  <2>2. CASE Probe
    <3>1. Middle \in Int /\ first <= Middle /\ Middle <= last
      BY <2>1, <2>2, MiddleBetween DEF Probe
    <3>2. \/ last' = Middle - 1 /\ first' = first
          \/ first' = Middle + 1 /\ last' = last
      BY <2>2 DEF Probe
    <3>3. QED BY <2>1, <3>1, <3>2
  <2>3. CASE ReadPastEnd
    <3>1. Middle \in Int /\ first <= Middle /\ Middle <= last
      BY <2>1, <2>3, MiddleBetween DEF ReadPastEnd
    <3>2. \/ last' = Middle - 1 /\ first' = first
          \/ first' = Middle + 1 /\ last' = last
      BY <2>3 DEF ReadPastEnd
    <3>3. QED BY <2>1, <3>1, <3>2
  <2>4. QED BY <2>2, <2>3 DEF Next, Search, Match, NotFound, Done
<1>2. QED BY <1>1, InvInductive, PTL DEF Spec, Narrows

\* In a table in strictly ascending order each entry is found.
THEOREM SortedFindsAll ==
  (\A p \in Positions : InPlace(p)) => (Spec => []EntryFound)
<1> SUFFICES ASSUME \A p \in Positions : InPlace(p) PROVE Spec => []EntryFound
  OBVIOUS
<1>1. Inv => EntryFound BY DEF Inv, RangeInv, EntryFound, Sought
<1>2. QED BY <1>1, InvInductive, PTL

-----------------------------------------------------------------------------
(* The dates. *)

Century(year) == year % 100 = 0 /\ year % 400 # 0

DateTypeOK ==
  /\ day \in Nat /\ y \in Nat /\ y >= 1970
  /\ m \in 1..12 /\ d \in Nat /\ d >= 1

DateInv == DateTypeOK /\ ParseIsExact

-----------------------------------------------------------------------------
(* How the divisions grow from one year to the next. *)

\* A division by a constant grows by one at its multiples.
LEMMA DivGrows ==
  ASSUME NEW n \in Nat
  PROVE  /\ (n + 1) \div 4 = n \div 4 + (IF (n + 1) % 4 = 0 THEN 1 ELSE 0)
         /\ (n + 1) \div 100 = n \div 100 + (IF (n + 1) % 100 = 0 THEN 1 ELSE 0)
         /\ (n + 1) \div 400 = n \div 400 + (IF (n + 1) % 400 = 0 THEN 1 ELSE 0)
  BY SMT

\* The remainders of the year as ParseRfc822Date() counts it are those of the year.
LEMMA SameRemainders ==
  ASSUME NEW n \in Nat
  PROVE  /\ (n + 1900) % 4 = n % 4
         /\ (n + 1900) % 100 = n % 100
         /\ (n + 1900) % 400 = (n + 300) % 400
         /\ (n + 300) % 400 = 0 => n % 100 = 0
         /\ n % 100 = 0 => n % 4 = 0
  BY SMT

\* Days until the first of January, as ParseRfc822Date() counts them.
NewYear(n) ==
  (n - 70) * 365 + (n - 69) \div 4 - n \div 100 + (n + 300) \div 400

\* They grow by 365, one more after a leap year, one more after a century that is
\* not one, and one less before such a century.
LEMMA NewYearGrows ==
  ASSUME NEW n \in Nat, n >= 70
  PROVE  NewYear(n + 1) = NewYear(n) + 365
           + (IF Leap(n + 1900) THEN 1 ELSE 0)
           + (IF Century(n + 1900) THEN 1 ELSE 0)
           - (IF Century(n + 1901) THEN 1 ELSE 0)
<1>1. \A i \in Nat : i >= 70 =>
        (i + 1 - 69) \div 4 = (i - 69) \div 4 + (IF i % 4 = 0 THEN 1 ELSE 0)
  BY SMT
<1>2. (n + 1 - 69) \div 4 = (n - 69) \div 4 + (IF n % 4 = 0 THEN 1 ELSE 0)
  BY <1>1
<1>3. (n + 1) \div 100 = n \div 100 + (IF (n + 1) % 100 = 0 THEN 1 ELSE 0)
  BY DivGrows
<1>4. (n + 1 + 300) \div 400
        = (n + 300) \div 400 + (IF (n + 1 + 300) % 400 = 0 THEN 1 ELSE 0)
  <2>1. n + 300 \in Nat /\ n + 300 + 1 = n + 1 + 300
    OBVIOUS
  <2>2. QED
    BY <2>1, DivGrows
<1>5. /\ Leap(n + 1900) <=> n % 4 = 0 /\ (n % 100 # 0 \/ (n + 300) % 400 = 0)
      /\ Century(n + 1900) <=> n % 100 = 0 /\ (n + 300) % 400 # 0
  BY SameRemainders DEF Leap, Century
<1>6. Century(n + 1901) <=> (n + 1) % 100 = 0 /\ (n + 1 + 300) % 400 # 0
  <2>1. n + 1 \in Nat /\ n + 1 + 1900 = n + 1901
    OBVIOUS
  <2>2. QED
    BY <2>1, SameRemainders DEF Century
<1>7. /\ (n + 300) % 400 = 0 => n % 100 = 0
      /\ n % 100 = 0 => n % 4 = 0
      /\ (n + 1 + 300) % 400 = 0 => (n + 1) % 100 = 0
  <2>1. n + 1 \in Nat
    OBVIOUS
  <2>2. QED
    BY <2>1, SameRemainders
<1> DEFINE a == n % 4 = 0
           b == n % 100 = 0
           c == (n + 300) % 400 = 0
           e == (n + 1) % 100 = 0
           f == (n + 1 + 300) % 400 = 0
<1>8. (IF a THEN 1 ELSE 0) - (IF e THEN 1 ELSE 0) + (IF f THEN 1 ELSE 0)
        = (IF Leap(n + 1900) THEN 1 ELSE 0)
           + (IF Century(n + 1900) THEN 1 ELSE 0)
           - (IF Century(n + 1901) THEN 1 ELSE 0)
  <2>1. /\ Leap(n + 1900) <=> a /\ (~b \/ c)
        /\ Century(n + 1900) <=> b /\ ~c
        /\ Century(n + 1901) <=> e /\ ~f
        /\ c => b /\ a
        /\ b => a
        /\ f => e
    BY <1>5, <1>6, <1>7
  <2>2. QED
    BY <2>1
<1>9. QED
  BY <1>2, <1>3, <1>4, <1>8 DEF NewYear

-----------------------------------------------------------------------------
(* The conversion along the walk. *)

\* The conversion by its parts.
LEMMA ParseParts ==
  ASSUME NEW Y \in Nat, Y >= 1970, NEW M \in 1..12, NEW D \in Nat
  PROVE  ParseRfc822Date(Y, M, D) =
           NewYear(Y - 1900) + priorDays[M] + D - 1
             + (IF Leap(Y) /\ M > 2 THEN 1 ELSE 0)
<1> DEFINE n == Y - 1900
<1>1. n \in Nat /\ n + 1900 = Y /\ Y > 1900 /\ M - 1 + 1 = M
  OBVIOUS
<1>2. isLeapDay(n, M - 1) <=> Leap(Y) /\ M > 2
  <2>1. /\ Y % 4 = n % 4 /\ Y % 100 = n % 100
        /\ Y % 400 = (n + 300) % 400
    BY <1>1, SameRemainders
  <2>2. QED
    BY <2>1 DEF isLeapDay, Leap
<1>3. priorDays[M] \in Int
  BY DEF priorDays
<1>4. ParseRfc822Date(Y, M, D) =
        (n - 70) * 365 + (n - 69) \div 4 - n \div 100 + (n + 300) \div 400
          + (priorDays[M] + D - 1
            + (IF isLeapDay(n, M - 1) THEN 1 ELSE 0))
  BY <1>1 DEF ParseRfc822Date
<1>5. QED
  BY <1>1, <1>2, <1>3, <1>4 DEF NewYear

\* From the last day of a month to the next month the table grows as it must.
LEMMA MonthGrows ==
  ASSUME NEW Y \in Nat, NEW M \in 1..11
  PROVE  priorDays[M + 1] + (IF Leap(Y) /\ M + 1 > 2 THEN 1 ELSE 0) =
           priorDays[M] + Length(M, Y)
             + (IF Leap(Y) /\ M > 2 THEN 1 ELSE 0)
  BY SMTT(30) DEF priorDays, Length

\* The year ends after 365 days, one more in a leap year.
LEMMA YearEnds ==
  ASSUME NEW Y \in Nat
  PROVE  priorDays[12] + Length(12, Y) = 365 /\ priorDays[1] = 0
  BY DEF priorDays, Length

LEMMA PriorInt == \A M \in 1..12 : priorDays[M] \in Int
  BY DEF priorDays

LEMMA NewYearInt == \A n \in Nat : NewYear(n) \in Int
  BY DEF NewYear

\* A day more is a day more, whatever happens to month and year.
LEMMA DateStepInv == DateInv /\ [DatesNext]_datesVars => DateInv'
<1> SUFFICES ASSUME DateInv, [DatesNext]_datesVars PROVE DateInv'
  OBVIOUS
<1> USE DEF DateInv, DateTypeOK
<1>1. CASE UNCHANGED datesVars
  BY <1>1 DEF datesVars, ParseIsExact
<1>2. CASE LastDay
  BY <1>2 DEF LastDay, datesVars, ParseIsExact
<1>3. CASE Midnight /\ NextDay
  <2>1. /\ y' = y /\ m' = m /\ d' = d + 1 /\ day' = day + 1
    BY <1>3 DEF Midnight, NextDay
  <2>2. ParseRfc822Date(y, m, d + 1) = ParseRfc822Date(y, m, d) + 1
    <3>1. /\ ParseRfc822Date(y, m, d + 1) =
               NewYear(y - 1900) + priorDays[m] + (d + 1) - 1
                 + (IF Leap(y) /\ m > 2 THEN 1 ELSE 0)
          /\ ParseRfc822Date(y, m, d) =
               NewYear(y - 1900) + priorDays[m] + d - 1
                 + (IF Leap(y) /\ m > 2 THEN 1 ELSE 0)
      <4>1. d + 1 \in Nat
        OBVIOUS
      <4>2. QED
        BY <4>1, ParseParts
    <3>2. NewYear(y - 1900) \in Int /\ priorDays[m] \in Int
      BY PriorInt, NewYearInt
    <3>3. QED
      BY <3>1, <3>2
  <2>3. QED
    BY <2>1, <2>2 DEF ParseIsExact
<1>4. CASE Midnight /\ NextMonth
  <2>1. /\ y' = y /\ m' = m + 1 /\ d' = 1 /\ day' = day + 1
        /\ d = Length(m, y) /\ m \in 1..11
    BY <1>4 DEF Midnight, NextMonth
  <2>2. ParseRfc822Date(y, m + 1, 1) = ParseRfc822Date(y, m, d) + 1
    <3>1. /\ ParseRfc822Date(y, m + 1, 1) =
               NewYear(y - 1900) + priorDays[m + 1] + 1 - 1
                 + (IF Leap(y) /\ m + 1 > 2 THEN 1 ELSE 0)
          /\ ParseRfc822Date(y, m, d) =
               NewYear(y - 1900) + priorDays[m] + d - 1
                 + (IF Leap(y) /\ m > 2 THEN 1 ELSE 0)
      BY <2>1, ParseParts
    <3>2. /\ NewYear(y - 1900) \in Int
          /\ priorDays[m] \in Int /\ priorDays[m + 1] \in Int
      BY <2>1, PriorInt, NewYearInt
    <3>3. QED
      BY <2>1, <3>1, <3>2, MonthGrows
  <2>3. QED
    BY <2>1, <2>2 DEF ParseIsExact
<1>5. CASE Midnight /\ NextYear
  <2>1. /\ y' = y + 1 /\ m' = 1 /\ d' = 1 /\ day' = day + 1
        /\ d = Length(12, y) /\ m = 12
    BY <1>5 DEF Midnight, NextYear
  <2> DEFINE n == y - 1900
             one(P) == IF P THEN 1 ELSE 0
  <2>2. /\ n \in Nat /\ n >= 70 /\ n + 1900 = y
        /\ y + 1 - 1900 = n + 1 /\ n + 1901 = y + 1
    OBVIOUS
  <2>3. /\ ParseRfc822Date(y + 1, 1, 1) = NewYear(n + 1) + priorDays[1]
        /\ ParseRfc822Date(y, 12, d) =
             NewYear(n) + priorDays[12] + d - 1 + one(Leap(y))
    BY <2>1, <2>2, ParseParts, PriorInt, NewYearInt
  <2>4. NewYear(n + 1) = NewYear(n) + 365 + one(Leap(y)) + one(Century(y))
                           - one(Century(y + 1))
    BY <2>2, NewYearGrows
  <2>5. ParseRfc822Date(y + 1, 1, 1) =
          ParseRfc822Date(y, 12, d) + 1
            + one(Century(y)) - one(Century(y + 1))
    <3>1. /\ NewYear(n) \in Int /\ NewYear(n + 1) \in Int
          /\ priorDays[12] + d = 365 /\ priorDays[1] = 0
          /\ priorDays[12] \in Int
      BY <2>1, <2>2, PriorInt, NewYearInt, YearEnds
    <3>2. QED
      BY <2>3, <2>4, <3>1
  <2>6. ParseRfc822Date(y, 12, d) = day - one(Century(y))
    BY <2>1 DEF ParseIsExact, Century
  <2>7. ParseRfc822Date(y + 1, 1, 1) = day + 1 - one(Century(y + 1))
    BY <2>5, <2>6
  <2>8. QED
    BY <2>1, <2>7 DEF ParseIsExact, Century
<1>6. QED
  BY <1>1, <1>2, <1>3, <1>4, <1>5 DEF DatesNext, Midnight

\* The walk begins right.
LEMMA DateInitInv == DatesInit => DateInv
<1>1. ParseRfc822Date(1970, 1, 1) = 0
  BY DEF ParseRfc822Date, isLeapDay, priorDays
<1>2. 1970 % 100 # 0
  OBVIOUS
<1>3. QED
  BY <1>1, <1>2 DEF DatesInit, DateInv, DateTypeOK, ParseIsExact

\* ParseRfc822Date() gives the day its text names, for every day from 1970 on, but
\* for the years divisible by 100 and not by 400, where it is a day early: 2100 is
\* the first.
THEOREM ParseExact == DatesSpec => []ParseIsExact
<1>1. DatesInit => DateInv
  BY DateInitInv
<1>2. DateInv /\ [DatesNext]_datesVars => DateInv'
  BY DateStepInv
<1>3. DateInv => ParseIsExact
  BY DEF DateInv
<1>4. QED
  BY <1>1, <1>2, <1>3, PTL DEF DatesSpec

-----------------------------------------------------------------------------
(* unixToDateTime().  It works with years that begin in March, counted by C  *)
(* from 4716 years earlier, and months E from 4 for March to 15 for February.*)

MarchYear(Y, M) == IF M > 2 THEN Y ELSE Y - 1
MonthE(M) == IF M > 2 THEN M + 1 ELSE M + 13
MonthDays(M) == (306001 * MonthE(M)) \div 10000

\* Days until March of the year, but for a constant.
Leaps(Y) == Y \div 4 - Y \div 100 + Y \div 400

\* The date and the number of its day belong together.
DayInv ==
  /\ day <= MaxDay
  /\ d <= Length(m, y)
  /\ day + 719591 = 365 * MarchYear(y, m) + Leaps(MarchYear(y, m))
                      + MonthDays(m) + d

\* The table of the month lengths that is hidden in 30.6001.
LEMMA MonthTable ==
  ASSUME NEW M \in 1..12
  PROVE  /\ MonthE(M) \in 4..15
         /\ MonthDays(M) \in 122..459
         /\ M \notin {2, 12} => \A Y \in Nat :
              MonthDays(M + 1) = MonthDays(M) + Length(M, Y)
         /\ MonthDays(1) = MonthDays(12) + 31
         /\ MonthDays(2) = 459 /\ MonthDays(3) = 122
  BY SMTT(30) DEF MonthE, MonthDays, Length

\* A year has 366 days from March on if the next one is a leap year.
LEMMA LeapsGrow ==
  ASSUME NEW Y \in Nat
  PROVE  Leaps(Y + 1) = Leaps(Y) + (IF Leap(Y + 1) THEN 1 ELSE 0)
<1>1. /\ (Y + 1) \div 4 = Y \div 4 + (IF (Y + 1) % 4 = 0 THEN 1 ELSE 0)
      /\ (Y + 1) \div 100 = Y \div 100 + (IF (Y + 1) % 100 = 0 THEN 1 ELSE 0)
      /\ (Y + 1) \div 400 = Y \div 400 + (IF (Y + 1) % 400 = 0 THEN 1 ELSE 0)
  BY DivGrows
<1>2. /\ (Y + 1) % 400 = 0 => (Y + 1) % 100 = 0
      /\ (Y + 1) % 100 = 0 => (Y + 1) % 4 = 0
  BY SMT
<1>3. QED
  BY <1>1, <1>2 DEF Leaps, Leap

LEMMA LengthFacts ==
  ASSUME NEW Y \in Nat, NEW M \in 1..12
  PROVE  /\ Length(M, Y) \in 28..31
         /\ Length(2, Y) = 28 + (IF Leap(Y) THEN 1 ELSE 0)
         /\ Length(12, Y) = 31
  BY DEF Length

LEMMA DayStep ==
  ASSUME DateTypeOK, DayInv, [DatesNext]_datesVars, MaxDay \in Nat
  PROVE  DayInv'
<1> USE DEF DateTypeOK
<1>1. CASE UNCHANGED datesVars
  BY <1>1 DEF datesVars, DayInv
<1>2. CASE LastDay
  BY <1>2 DEF LastDay, datesVars, DayInv
<1>3. Midnight => day' = day + 1 /\ day' <= MaxDay
  BY DEF Midnight
<1> DEFINE Y == MarchYear(y, m)
<1>4. Y \in Nat /\ Leaps(Y) \in Int /\ MonthDays(m) \in Int
  <2>1. Y \in Nat
    BY DEF MarchYear
  <2>2. QED
    BY <2>1, MonthTable DEF Leaps
<1>5. CASE Midnight /\ NextDay
  BY <1>3, <1>4, <1>5, LengthFacts DEF NextDay, DayInv
<1>6. CASE Midnight /\ NextMonth /\ m # 2
  <2>1. /\ y' = y /\ m' = m + 1 /\ d' = 1
        /\ d = Length(m, y) /\ m + 1 \in 1..12
    BY <1>6 DEF NextMonth
  <2>2. MarchYear(y, m + 1) = Y
    BY <1>6 DEF MarchYear
  <2>3. MonthDays(m + 1) = MonthDays(m) + d /\ 1 <= Length(m + 1, y)
    <3>1. Length(m + 1, y) \in 28..31
      BY <2>1, LengthFacts
    <3>2. m \notin {2, 12}
      BY <1>6 DEF NextMonth
    <3>3. MonthDays(m + 1) = MonthDays(m) + Length(m, y)
      BY <3>2, MonthTable
    <3>4. QED
      BY <2>1, <3>1, <3>3
  <2>4. QED
    BY <1>3, <1>4, <1>6, <2>1, <2>2, <2>3 DEF DayInv
<1>7. CASE Midnight /\ NextMonth /\ m = 2
  <2>1. /\ y' = y /\ m' = 3 /\ d' = 1 /\ d = Length(2, y)
    BY <1>7 DEF NextMonth
  <2>2. MarchYear(y, 3) = Y + 1 /\ y = Y + 1
    BY <1>7 DEF MarchYear
  <2>3. Leaps(Y + 1) = Leaps(Y) + (IF Leap(Y + 1) THEN 1 ELSE 0)
    BY <1>4, LeapsGrow
  <2>4. d = 28 + (IF Leap(Y + 1) THEN 1 ELSE 0) /\ 1 <= Length(3, y)
    BY <2>1, <2>2, LengthFacts
  <2>5. MonthDays(2) = 459 /\ MonthDays(3) = 122
    BY MonthTable
  <2>6. QED
    BY <1>3, <1>4, <1>7, <2>1, <2>2, <2>3, <2>4, <2>5 DEF DayInv
<1>8. CASE Midnight /\ NextYear
  <2>1. /\ y' = y + 1 /\ m' = 1 /\ d' = 1 /\ d = 31 /\ m = 12
    BY <1>8, LengthFacts DEF NextYear
  <2>2. MarchYear(y + 1, 1) = Y
    BY <2>1 DEF MarchYear
  <2>3. MonthDays(1) = MonthDays(12) + 31 /\ 1 <= Length(1, y + 1)
    <3>1. y + 1 \in Nat /\ 1 \in 1..12
      OBVIOUS
    <3>2. Length(1, y + 1) \in 28..31
      BY <3>1, LengthFacts
    <3>3. QED
      BY <3>1, <3>2, MonthTable
  <2>4. QED
    BY <1>3, <1>4, <1>8, <2>1, <2>2, <2>3 DEF DayInv
<1>9. QED
  BY <1>1, <1>2, <1>5, <1>6, <1>7, <1>8 DEF DatesNext, Midnight

-----------------------------------------------------------------------------
(* The way back, from the number of the day to the date. *)

\* What is left of a number by its quarter.
LEMMA Quarter ==
  ASSUME NEW n \in Nat, NEW a, a = n \div 4, NEW e, e = n % 4
  PROVE  a \in Int /\ e \in 0..3 /\ 4 * a = n - e
<1> DEFINE b == n - 4 * a
<1>1. a \in Int /\ b \in 0..3 /\ n = 4 * a + b
  BY SMTT(30)
<1> HIDE DEF b
<1>2. n % 4 = b
  BY SMTT(30), <1>1
<1>3. e = b
  BY <1>2
<1>4. QED
  BY SMTT(30), <1>1, <1>3

\* The Julian number of a day, k days into year 100 * q + r after those that are
\* not counted in k, and the century that is found for it.
CenturyDay(q, r, k) == 1720997 + 36524 * q + q \div 4 + 365 * r + r \div 4 + k

CenturyOf(Z) == (4 * Z - 7468865) \div 146097

\* A day there is: the 366th only in a year that has it.
InCentury(q, r, k) ==
  /\ q \in Nat /\ r \in 0..99 /\ k \in 123..488
  /\ k = 488 => Leap(100 * q + r + 1)

\* A century is found by its 146097 quarters of a day, though one of four is a day
\* longer than the others.
LEMMA CenturyFound ==
  ASSUME NEW q, NEW r, NEW k, InCentury(q, r, k)
  PROVE  CenturyOf(CenturyDay(q, r, k)) = q - 4
<1> DEFINE a == q \div 4
           e == q % 4
           b == r \div 4
           f == r % 4
           Z == CenturyDay(q, r, k)
           N == 4 * Z - 7468865
<1>0. /\ q \in Nat /\ r \in 0..99 /\ k \in 123..488
      /\ k = 488 => Leap(100 * q + r + 1)
  BY DEF InCentury
<1>1. /\ a \in Int /\ 4 * a = q - e /\ e \in 0..3
      /\ b \in Int /\ 4 * b = r - f /\ f \in 0..3
  <2>1. a = q \div 4 /\ e = q % 4 /\ b = r \div 4 /\ f = r % 4 /\ r \in Nat
    BY <1>0
  <2> HIDE DEF a, e, b, f
  <2>2. QED
    BY <1>0, <2>1, Quarter
<1>2. k = 488 /\ r = 99 => e = 3
  <2>1. (100 * q + 100) % 100 = 0 /\ ((100 * q + 100) % 400 = 0 => q % 4 = 3)
    BY SMTT(30), <1>0
  <2>2. QED
    BY SMTT(30), <1>0, <2>1 DEF Leap
<1>3. f <= r /\ (r = 99 => f = 3)
  BY SMTT(30), <1>0
<1>n. Z = 1720997 + 36524 * q + a + 365 * r + b + k
  BY SMTT(30), <1>0 DEF CenturyDay
<1> HIDE DEF a, b, e, f
<1>4. N = 146097 * (q - 4) - 489 - e + 1460 * r + r - f + 4 * k /\ N \in Int
  BY SMTT(30), <1>0, <1>1, <1>n
<1> HIDE DEF N
<1>5. N >= 146097 * (q - 4) /\ N < 146097 * (q - 4) + 146097
  BY SMTT(30), <1>0, <1>1, <1>2, <1>3, <1>4
<1>6. N \div 146097 = q - 4
  BY SMTT(30), <1>0, <1>4, <1>5
<1>7. QED
  BY SMTT(30), <1>6 DEF N, CenturyOf

\* 365.25 years are found by their days, though the count of days begins with the
\* shorter years.
LEMMA YearFound ==
  ASSUME NEW c \in Nat, NEW k \in 123..488, k = 488 => c % 4 = 3
  PROVE  /\ (36525 * c) \div 100 = 365 * c + c \div 4
         /\ (20 * ((36525 * c) \div 100 + k) - 2442) \div 7305 = c
<1> DEFINE a == c \div 4
           e == c % 4
           D == (36525 * c) \div 100
           N == 20 * (D + k) - 2442
<1>1. a \in Int /\ 4 * a = c - e /\ e \in 0..3
  <2>1. a = c \div 4 /\ e = c % 4
    OBVIOUS
  <2> HIDE DEF a, e
  <2>2. QED
    BY <2>1, Quarter
<1>2. D = 365 * c + a
  BY SMTT(30)
<1>3. k = 488 => e = 3
  BY SMTT(30)
<1> HIDE DEF a, e, D
<1>4. N = 7305 * c - 5 * e + 20 * k - 2442 /\ N \in Int
  BY SMTT(30), <1>1, <1>2
<1> HIDE DEF N
<1>5. N >= 7305 * c /\ N < 7305 * c + 7305
  BY SMTT(30), <1>1, <1>3, <1>4
<1>6. N \div 7305 = c
  BY SMTT(30), <1>4, <1>5
<1>7. QED
  BY SMTT(30), <1>2, <1>6 DEF N, D, a

\* Century, year and month are found one after the other: the number of a day
\* gives the date back, as long as the count of years fits into 15 bits.
LEMMA DateFound ==
  ASSUME DateTypeOK, DayInv, MarchYear(y, m) <= 28051
  PROVE  LogDateIsRight
<1> DEFINE Y == MarchYear(y, m)
           q == Y \div 100
           r == Y % 100
           c == Y + 4716
           k == MonthDays(m) + d
           Z == day + 2440588
           A0 == (4 * Z - 7468865) \div 146097
           B == Z + 1 + A0 - A0 \div 4 + 1524
           C == (20 * B - 2442) \div 7305
           D == (36525 * (C % 32768)) \div 100
           E == ((B - D) * 10000) \div 306001
           X1 == (306001 * E) \div 10000
           M == IF E < 14 THEN E - 1 ELSE E - 13
<1>1. unixToDateTime(day) =
        [Y |-> yearOf(C, M), M |-> M, D |-> B - D - X1]
  BY SMTT(30) DEF unixToDateTime
<1>2. /\ Y \in Nat /\ c \in Nat /\ c < 32768 /\ day \in Nat /\ d \in 1..31
      /\ m \in 1..12 /\ y \in Nat /\ y = (IF m > 2 THEN Y ELSE Y + 1)
      /\ d <= Length(m, y)
  <2>1. d <= Length(m, y) /\ Length(m, y) \in 28..31
    BY LengthFacts DEF DateTypeOK, DayInv
  <2>2. QED
    BY SMTT(30), <2>1 DEF DateTypeOK, MarchYear
<1> HIDE DEF q, r, Z, A0, B, C, D, E, X1, M
<1>3. /\ (k * 10000) \div 306001 = MonthE(m) /\ k \in 123..488
      /\ k = 488 => Leap(Y + 1)
  <2> HIDE DEF Y
  <2>1. /\ (k * 10000) \div 306001 = MonthE(m) /\ k \in 123..488
        /\ k = 488 => m = 2 /\ Leap(y)
    BY SMTT(60), <1>2 DEF MonthE, MonthDays, Length
  <2>2. m = 2 => y = Y + 1
    BY SMTT(30), <1>2
  <2>3. QED
    BY SMTT(30), <2>1, <2>2
<1>4. /\ day + 719591 = 365 * Y + Y \div 4 - q + Y \div 400 + k
      /\ MonthDays(m) \in Int
  <2>1. MonthDays(m) \in Int
    BY SMTT(30), <1>2, MonthTable
  <2>2. QED
    BY SMTT(30), <1>2, <2>1 DEF DayInv, Leaps, q
<1> HIDE DEF Y, k
<1>5. /\ q \in Nat /\ r \in 0..99 /\ Y = 100 * q + r
      /\ Y \div 4 = 25 * q + r \div 4 /\ Y \div 400 = q \div 4
      /\ r \div 4 \in Int /\ q \div 4 \in Int /\ c \div 4 = Y \div 4 + 1179
  BY SMTT(30), <1>2 DEF q, r
<1>6. Z = 1720997 + 36524 * q + q \div 4 + 365 * r + r \div 4 + k
  BY SMTT(30), <1>2, <1>3, <1>4, <1>5 DEF Z
<1>7. A0 = q - 4
  <2>1. k = 488 => Leap(100 * q + r + 1)
    BY SMTT(30), <1>3, <1>5
  <2>2. q \in Nat /\ r \in 0..99 /\ k \in 123..488
    BY <1>3, <1>5
  <2>3. InCentury(q, r, k)
    BY <2>1, <2>2 DEF InCentury
  <2>4. CenturyOf(CenturyDay(q, r, k)) = q - 4
    BY SMTT(30), <2>3, CenturyFound
  <2>5. QED
    BY SMTT(30), <1>6, <2>4 DEF A0, CenturyDay, CenturyOf
<1>8. B = 365 * c + c \div 4 + k
  <2>1. (q - 4) \div 4 = q \div 4 - 1
    BY SMTT(30), <1>5
  <2>2. B = Z + 1 + (q - 4) - (q \div 4 - 1) + 1524
    BY SMTT(30), <1>7, <2>1 DEF B
  <2>3. QED
    BY SMTT(30), <1>2, <1>3, <1>5, <1>6, <2>2
<1>9. /\ (36525 * c) \div 100 = 365 * c + c \div 4
      /\ (20 * ((36525 * c) \div 100 + k) - 2442) \div 7305 = c
  <2>1. k = 488 => c % 4 = 3
    BY SMTT(30), <1>2, <1>3 DEF Leap
  <2>2. c \in Nat
    BY <1>2
  <2> HIDE DEF c
  <2>3. QED
    BY SMTT(30), <1>3, <2>1, <2>2, YearFound
<1>10. C = c /\ C % 32768 = c
  BY SMTT(30), <1>2, <1>8, <1>9 DEF C
<1>11. D = 365 * c + c \div 4 /\ B - D = k
  BY SMTT(30), <1>2, <1>3, <1>5, <1>8, <1>9, <1>10 DEF D
<1>12. E = MonthE(m) /\ X1 = MonthDays(m)
  BY SMTT(30), <1>3, <1>11 DEF MonthDays, E, X1
<1>13. M = m
  BY SMTT(30), <1>2, <1>12 DEF MonthE, M
<1>14. yearOf(C, M) = y
  BY SMTT(30), <1>2, <1>10, <1>13 DEF yearOf
<1>15. B - D - X1 = d
  BY SMTT(30), <1>2, <1>4, <1>11, <1>12 DEF k
<1>16. QED
  BY SMTT(30), <1>1, <1>13, <1>14, <1>15 DEF LogDateIsRight

\* Before the first day of March 28052 it does.
LEMMA YearFits ==
  ASSUME DateTypeOK, DayInv, day < 9526315
  PROVE  MarchYear(y, m) <= 28051
<1> DEFINE Y == MarchYear(y, m)
           k == MonthDays(m) + d
<1>1. /\ Y \in Nat /\ MonthDays(m) \in Int /\ d \in Int /\ k \in Int /\ k >= 123
      /\ day \in Nat
  <2>1. MonthDays(m) \in 122..459
    BY SMTT(30), MonthTable DEF DateTypeOK
  <2>2. QED
    BY SMTT(30), <2>1 DEF DateTypeOK, MarchYear
<1>2. day + 719591 = 365 * Y + Y \div 4 - Y \div 100 + Y \div 400 + k
  BY SMTT(30), <1>1 DEF DayInv, Leaps
<1> HIDE DEF Y, k
<1>3. Y >= 28052 => /\ Y \div 4 >= 7013 /\ Y \div 400 >= 70
                    /\ Y \div 100 <= 280 + (Y - 28052)
  BY SMTT(30), <1>1
<1>4. Y \div 4 \in Int /\ Y \div 100 \in Int /\ Y \div 400 \in Int
  BY SMTT(30), <1>1
<1>5. ~(Y >= 28052)
  BY SMTT(30), <1>1, <1>2, <1>3, <1>4
<1>6. QED
  BY SMTT(30), <1>1, <1>5 DEF Y

\* unixToDateTime() gives the date of every day before the first of March 28052.
\* (On that day the count of years no longer fits into the 15 bits that are kept
\* of it.)
THEOREM LogDateRight ==
  ASSUME MaxDay < 9526315
  PROVE  DatesSpec => []LogDateIsRight
<1>1. DatesInit => DayInv
  <2>1. ASSUME DatesInit PROVE DayInv
    <3>1. Length(m, y) \in 28..31 /\ MonthDays(12) \in 122..459
      BY <2>1, LengthFacts, MonthTable DEF DatesInit
    <3>2. MarchYear(1970, 1) = 1969 /\ MonthDays(1) = 428 /\ Leaps(1969) = 477
      BY SMTT(30) DEF MarchYear, MonthDays, MonthE, Leaps
    <3>3. QED
      BY SMTT(30), <2>1, <3>1, <3>2, DatesAssumption DEF DatesInit, DayInv
  <2>2. QED
    BY <2>1
<1>2. DatesInit => DateInv
  BY DateInitInv
<1>3. DateInv /\ [DatesNext]_datesVars => DateInv'
  BY DateStepInv
<1>4. DateInv /\ DayInv /\ [DatesNext]_datesVars => DayInv'
  BY DayStep, DatesAssumption DEF DateInv
<1>5. DateInv /\ DayInv => LogDateIsRight
  <2>1. ASSUME DateInv, DayInv PROVE LogDateIsRight
    <3>1. day < 9526315
      BY SMTT(30), <2>1, DatesAssumption
      DEF DateInv, DateTypeOK, DayInv
    <3>2. QED
      BY <2>1, <3>1, YearFits, DateFound DEF DateInv
  <2>2. QED
    BY <2>1
<1>6. QED
  BY <1>1, <1>2, <1>3, <1>4, <1>5, PTL DEF DatesSpec

-----------------------------------------------------------------------------
(* The line of the log. *)

LineTypeOK ==
  /\ next \in Nat /\ next >= 1 /\ next <= Len(Log!Line) + 2
  /\ zPos \in Nat /\ zPos <= BufferSize + 1
  /\ top \in Nat /\ cut \in BOOLEAN

\* Where a line can be.
PlaceInv ==
  /\ top <= BufferSize
  /\ cut => zPos \in {BufferSize, Log!Null}
  /\ next > Len(Log!Line) => zPos = Log!Null \/ zPos < BufferSize
  /\ Log!Written => zPos # Log!Null

LineInv == LineTypeOK /\ PlaceInv

\* The line has 46 items, and its last one is a text of fixed length.
LEMMA LineFacts ==
  /\ Len(Log!Line) \in Nat /\ Len(Log!Line) >= 1
  /\ Log!Line[Len(Log!Line)].kind = "lit"
  /\ \A i \in 1..Len(Log!Line) : Log!Line[i].len \in Nat
  BY SMTT(60) DEF Log!Line, Log!Date, Log!Lit, Log!Str, Log!Esc, Log!Int,
                   Log!Quote, Log!Comma

-----------------------------------------------------------------------------
\* An item that is not the last one leads to no place behind the last.
LEMMA NotLast ==
  ASSUME NEW kind, kind # "lit", LineInv, Log!Appended(kind)
  PROVE  /\ next' = next + 1 /\ next' <= Len(Log!Line) /\ ~Log!Written'
         /\ toSend' = toSend
<1>1. /\ next <= Len(Log!Line) /\ next \in Nat
      /\ Log!Line[next].kind = kind /\ next' = next + 1
  BY DEF Log!Appended, LineInv, LineTypeOK
<1>2. next # Len(Log!Line)
  BY <1>1, LineFacts
<1>3. QED
  BY <1>1, <1>2, LineFacts DEF Log!Written, Log!Appended

\* A text that is appended whole or not at all keeps the invariant, the last one
\* too.
LEMMA StrInv ==
  ASSUME BufferSize \in Nat, LineInv, NEW n \in Nat, NEW kind \in {"lit", "str"},
         Log!log_str(kind, n)
  PROVE  LineInv'
<1>1. /\ next \in Nat /\ next >= 1 /\ next <= Len(Log!Line) /\ next' = next + 1
      /\ Len(Log!Line) \in Nat
  BY LineFacts DEF Log!log_str, Log!Appended, LineInv, LineTypeOK
<1>2. /\ zPos \in Nat /\ zPos <= BufferSize
      /\ top \in Nat /\ top <= BufferSize /\ cut' = cut
  BY DEF Log!log_str, LineInv, LineTypeOK, PlaceInv, Log!Null
<1>3. ~Log!Written'
  BY <1>1 DEF Log!Written
<1>4. CASE BufferSize <= zPos + n
  <2>1. zPos' = Log!Null /\ top' = top
    BY <1>4 DEF Log!log_str
  <2>2. QED
    BY <1>1, <1>2, <1>3, <2>1 DEF LineInv, LineTypeOK, PlaceInv, Log!Null
<1>5. CASE ~(BufferSize <= zPos + n)
  <2>1. zPos' = zPos + n /\ zPos + n < BufferSize
        /\ top' = IF zPos + n > top THEN zPos + n ELSE top
    BY <1>2, <1>5 DEF Log!log_str, Log!Put
  <2>2. ~cut
    BY <1>2, <2>1 DEF LineInv, LineTypeOK, PlaceInv, Log!Null
  <2>3. QED
    BY <1>1, <1>2, <1>3, <2>1, <2>2 DEF LineInv, LineTypeOK, PlaceInv, Log!Null
<1>6. QED
  BY <1>4, <1>5

\* What a text with quotes leaves behind is the end of the buffer at most.
LEMMA EscInv ==
  ASSUME BufferSize \in Nat, LineInv, NEW n \in Nat, Log!log_escstr(n)
  PROVE  LineInv'
<1>1. /\ next' = next + 1 /\ next' <= Len(Log!Line) /\ ~Log!Written'
      /\ next \in Nat /\ next >= 1 /\ Len(Log!Line) \in Nat
  BY NotLast, LineFacts DEF Log!log_escstr, LineInv, LineTypeOK
<1>2. /\ zPos \in Nat /\ zPos <= BufferSize
      /\ top \in Nat /\ top <= BufferSize /\ cut \in BOOLEAN
  BY DEF Log!log_escstr, LineInv, LineTypeOK, PlaceInv, Log!Null
<1>3. CASE zPos >= BufferSize /\ zPos' = Log!Null /\ UNCHANGED <<top, cut>>
  BY <1>1, <1>2, <1>3 DEF LineInv, LineTypeOK, PlaceInv, Log!Null
<1>4. CASE /\ zPos < BufferSize /\ zPos + n <= BufferSize
           /\ Log!Put(n) /\ UNCHANGED cut
  <2>1. ~cut
    BY <1>2, <1>4 DEF LineInv, PlaceInv, Log!Null
  <2>2. QED
    BY <1>1, <1>2, <1>4, <2>1
       DEF LineInv, LineTypeOK, PlaceInv, Log!Null, Log!Put
<1>5. CASE /\ zPos < BufferSize /\ zPos + n > BufferSize
           /\ Log!Put(BufferSize - zPos) /\ cut' = TRUE
  BY <1>1, <1>2, <1>5 DEF LineInv, LineTypeOK, PlaceInv, Log!Null, Log!Put
<1>6. CASE /\ zPos < BufferSize /\ zPos + n > BufferSize
           /\ zPos' = Log!Null /\ top' = BufferSize /\ UNCHANGED cut
  BY <1>1, <1>2, <1>6 DEF LineInv, LineTypeOK, PlaceInv, Log!Null
<1>7. QED
  BY <1>3, <1>4, <1>5, <1>6 DEF Log!log_escstr

\* A number is appended inside the buffer or skipped.
LEMMA IntInv ==
  ASSUME BufferSize \in Nat, LineInv, NEW n \in Nat, Log!log_int(n)
  PROVE  LineInv'
<1>1. /\ next' = next + 1 /\ next' <= Len(Log!Line) /\ ~Log!Written'
      /\ next \in Nat /\ next >= 1 /\ Len(Log!Line) \in Nat
  BY NotLast, LineFacts DEF Log!log_int, LineInv, LineTypeOK
<1>2. /\ zPos \in Nat /\ zPos <= BufferSize /\ top \in Nat /\ top <= BufferSize
      /\ cut \in BOOLEAN /\ cut' = cut
  BY DEF Log!log_int, LineInv, LineTypeOK, PlaceInv, Log!Null
<1>3. CASE BufferSize <= zPos + n
  BY <1>1, <1>2, <1>3 DEF Log!log_int, LineInv, LineTypeOK, PlaceInv, Log!Null
<1>4. CASE ~(BufferSize <= zPos + n)
  <2>1. ~cut
    BY <1>2, <1>4 DEF LineInv, PlaceInv, Log!Null
  <2>2. QED
    BY <1>1, <1>2, <1>4, <2>1 DEF Log!log_int,
             Log!Put, LineInv, LineTypeOK, PlaceInv, Log!Null
<1>5. QED
  BY <1>3, <1>4

LEMMA StampInv ==
  ASSUME BufferSize \in Nat, LineInv, Log!log_DateTime
  PROVE  LineInv'
<1>1. /\ next' = next + 1 /\ next' <= Len(Log!Line) /\ ~Log!Written'
      /\ next \in Nat /\ next >= 1 /\ Len(Log!Line) \in Nat
  BY NotLast, LineFacts DEF Log!log_DateTime, LineInv, LineTypeOK
<1>2. /\ zPos \in Nat /\ zPos <= BufferSize /\ top \in Nat /\ top <= BufferSize
      /\ cut \in BOOLEAN /\ cut' = cut
  BY DEF Log!log_DateTime, LineInv, LineTypeOK, PlaceInv, Log!Null
<1>3. CASE BufferSize <= zPos + 19
  BY <1>1, <1>2, <1>3
     DEF Log!log_DateTime, LineInv, LineTypeOK, PlaceInv, Log!Null
<1>4. CASE ~(BufferSize <= zPos + 19)
  <2>1. ~cut
    BY <1>2, <1>4 DEF LineInv, PlaceInv, Log!Null
  <2>2. QED
    BY <1>1, <1>2, <1>4, <2>1 DEF Log!log_DateTime,
             Log!Put, LineInv, LineTypeOK, PlaceInv, Log!Null
<1>5. QED
  BY <1>3, <1>4

-----------------------------------------------------------------------------
\* Whatever the size of the buffer and the lengths of texts and numbers, nothing is
\* written behind it, and a line that goes to the file ends inside it with each of
\* its texts whole.
THEOREM StaysInBuffer ==
  ASSUME BufferSize \in Nat, Texts \subseteq Nat, Digits \subseteq Nat
  PROVE  Log!Spec => []Log!InBuffer
<1>1. Log!Init => LineInv
  <2> SUFFICES ASSUME Log!Init PROVE LineInv
    OBVIOUS
  <2> DEFINE n == Len(Log!Line)
  <2>1. /\ next = 1 /\ zPos = 0 /\ top = 0 /\ ~cut /\ cut \in BOOLEAN
        /\ n \in Nat /\ n >= 1
    BY LineFacts, Zenon DEF Log!Init
  <2> HIDE DEF n
  <2>2. LineTypeOK
    <3>1. next \in Nat /\ next >= 1 /\ next <= n + 2
      BY <2>1
    <3>2. zPos \in Nat /\ zPos <= BufferSize + 1 /\ top \in Nat
      BY <2>1
    <3>3. QED
      BY <2>1, <3>1, <3>2, Zenon DEF LineTypeOK, n
  <2>3. PlaceInv
    <3>1. top <= BufferSize /\ ~(next > n) /\ next # n + 2
      BY <2>1
    <3>2. QED
      BY <2>1, <3>1, Zenon DEF PlaceInv, Log!Written, n
  <2>4. QED
    BY <2>2, <2>3 DEF LineInv
<1>2. LineInv /\ [Log!Next]_Log!vars => LineInv'
  <2> SUFFICES ASSUME LineInv, [Log!Next]_Log!vars PROVE LineInv'
    OBVIOUS
  <2>1. CASE \E kind \in {"date", "lit", "str", "esc", "int"} : Log!Skip(kind)
    <3>1. /\ zPos = Log!Null /\ zPos' = zPos /\ top' = top /\ cut' = cut
          /\ next' = next + 1 /\ next <= Len(Log!Line)
      BY <2>1 DEF Log!Skip, Log!Appended
    <3>2. QED
      BY <3>1, LineFacts DEF LineInv, LineTypeOK, PlaceInv, Log!Written, Log!Null
  <2>2. CASE next <= Len(Log!Line) /\ Log!log_str("lit", Log!Line[next].len)
    <3>1. Log!Line[next].len \in Nat
      BY <2>2, LineFacts DEF LineInv, LineTypeOK
    <3>2. QED
      BY <2>2, <3>1, StrInv
  <2>3. CASE \E n \in Texts : Log!log_str("str", n) \/ Log!log_escstr(n)
    BY <2>3, StrInv, EscInv
  <2>4. CASE \E n \in Digits : Log!log_int(n)
    BY <2>4, IntInv
  <2>5. CASE Log!log_DateTime
    BY <2>5, StampInv
  <2>6. CASE Log!Close
    BY <2>6, LineFacts DEF Log!Close, LineInv, LineTypeOK, PlaceInv, Log!Written
  <2>7. CASE Log!Send
    BY <2>7 DEF Log!Send, LineInv, LineTypeOK, PlaceInv, Log!Written
  <2>8. CASE Log!Done \/ UNCHANGED Log!vars
    BY <2>8 DEF Log!Done, Log!vars, LineInv, LineTypeOK, PlaceInv, Log!Written
  <2>9. QED
    BY <2>1, <2>2, <2>3, <2>4, <2>5, <2>6, <2>7, <2>8 DEF Log!Next
<1>3. LineInv => Log!InBuffer
  <2> SUFFICES ASSUME LineInv PROVE Log!InBuffer
    OBVIOUS
  <2>1. Log!Written => zPos < BufferSize
    BY LineFacts DEF LineInv, PlaceInv, Log!Written
  <2>2. Log!Written => ~cut
    BY <2>1 DEF LineInv, LineTypeOK, PlaceInv, Log!Null, Log!Written
  <2>3. QED
    BY <2>1, <2>2 DEF LineInv, PlaceInv, Log!InBuffer
<1>4. QED
  BY <1>1, <1>2, <1>3, PTL DEF Log!Spec

=============================================================================
