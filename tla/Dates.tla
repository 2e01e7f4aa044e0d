------------------------------- MODULE Dates --------------------------------
(***************************************************************************)
(* The two conversions of dates that althttpd has written itself:          *)
(* unixToDateTime(), for the log, and ParseRfc822Date(), for the field     *)
(* If-Modified-Since.  They are compared with a calendar that is wound on  *)
(* day by day from 1 January 1970, as gmtime() counts.                     *)
(*                                                                         *)
(* Times are days: the rest of both conversions is a division of the       *)
(* seconds of a day.  Floating point terms are written as the fractions    *)
(* they stand for; none of them is near an integer where it is truncated.  *)
(***************************************************************************)
EXTENDS Integers

CONSTANT MaxDay   \* bound of the walk

ASSUME DatesAssumption == MaxDay \in Nat

VARIABLES
  day,      \* days since 1 January 1970
  y, m, d   \* the date, of which Rfc822Date() makes the text that is parsed

datesVars == <<day, y, m, d>>

-----------------------------------------------------------------------------
(* The calendar. *)

Leap(year) == year % 4 = 0 /\ (year % 100 # 0 \/ year % 400 = 0)
Length(month, year) ==
  IF month = 2 THEN IF Leap(year) THEN 29 ELSE 28
  ELSE IF month \in {4, 6, 9, 11} THEN 30 ELSE 31

DatesInit == day = 0 /\ y = 1970 /\ m = 1 /\ d = 1

NextDay ==
  /\ d < Length(m, y)
  /\ d' = d + 1 /\ UNCHANGED <<y, m>>

NextMonth ==
  /\ d = Length(m, y) /\ m < 12
  /\ d' = 1 /\ m' = m + 1 /\ UNCHANGED y

NextYear ==
  /\ d = Length(m, y) /\ m = 12
  /\ d' = 1 /\ m' = 1 /\ y' = y + 1

Midnight ==
  /\ day < MaxDay /\ day' = day + 1
  /\ NextDay \/ NextMonth \/ NextYear

LastDay == day = MaxDay /\ UNCHANGED datesVars

DatesNext == Midnight \/ LastDay

DatesSpec == DatesInit /\ [][DatesNext]_datesVars

-----------------------------------------------------------------------------
(* Faulty variants of definitions below; each breaks a property.            *)

\* The leap day is counted from February on.
isLeapDayEarly(year, mon) ==
  year % 4 = 0 /\ (year % 100 # 0 \/ (year + 300) % 400 = 0) /\ mon > 0

\* March is taken for a month of the year before.
yearOfEarly(C, M) == IF M > 3 THEN C - 4716 ELSE C - 4715

-----------------------------------------------------------------------------
(* unixToDateTime(): Z is the Julian day number.  C has 15 bits.             *)

yearOf(C, M) == IF M > 2 THEN C - 4716 ELSE C - 4715

unixToDateTime(t) ==
  LET Z == t + 2440588
      A0 == (4 * Z - 7468865) \div 146097
      A == Z + 1 + A0 - A0 \div 4
      B == A + 1524
      C == (20 * B - 2442) \div 7305
      D == (36525 * (C % 32768)) \div 100
      E == ((B - D) * 10000) \div 306001
      X1 == (306001 * E) \div 10000
      M == IF E < 14 THEN E - 1 ELSE E - 13
  IN  [Y |-> yearOf(C, M), M |-> M, D |-> B - D - X1]

-----------------------------------------------------------------------------
(* ParseRfc822Date(): the month counts from 0, the year from 1900.          *)

priorDays == <<0, 31, 59, 90, 120, 151, 181, 212, 243, 273, 304, 334>>

isLeapDay(year, mon) ==
  year % 4 = 0 /\ (year % 100 # 0 \/ (year + 300) % 400 = 0) /\ mon > 1

ParseRfc822Date(Y, M, D) ==
  LET year == IF Y > 1900 THEN Y - 1900 ELSE Y
      mon == M - 1
      yday == priorDays[mon + 1] + D - 1 + (IF isLeapDay(year, mon) THEN 1 ELSE 0)
  IN  (year - 70) * 365 + (year - 69) \div 4 - year \div 100
        + (year + 300) \div 400 + yday

-----------------------------------------------------------------------------
(* Properties. *)

\* The date in the log is the date.
LogDateIsRight == unixToDateTime(day) = [Y |-> y, M |-> m, D |-> d]

\* A date parsed is the day it names, leap days and the turn of the year included,
\* but for one kind of year: in a century year that is not a leap year every date
\* is taken for the day before, since year/100 already counts the leap day that
\* such a year does not have.
ParseIsExact ==
  ParseRfc822Date(y, m, d) =
    IF y % 100 = 0 /\ y % 400 # 0 THEN day - 1 ELSE day

=============================================================================
