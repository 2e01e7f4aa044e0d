------------------------------ MODULE LogLine -------------------------------
(***************************************************************************)
(* How MakeLogEntry() puts a line of the log together.  It cannot use      *)
(* fprintf(), as it may run in a signal handler: log_str(), log_escstr(),  *)
(* log_int() and log_DateTime() append to a buffer of fixed size, each at  *)
(* the place where the one before left off, or not at all once there was   *)
(* no room.  Text is known by its length, a place by its distance from the *)
(* start of the buffer.                                                    *)
(***************************************************************************)
EXTENDS Naturals, Sequences

CONSTANTS
  Size,    \* sizeof(msgbuf): 5000
  Texts,   \* lengths of texts, with the quotes that are doubled in them
  Digits   \* lengths of numbers

VARIABLES
  next,    \* the item of the line that is appended next
  zPos,    \* where: a place from 0 to Size, or Null
  top,     \* history: end of the part of the buffer that was written to
  cut,     \* history: whether the end of a text was left out
  lost,    \* history: the items that were left out without a trace in zPos
  toSend   \* bytes of the line that are not yet in the file

vars == <<next, zPos, top, cut, lost, toSend>>

Null == Size + 1

\* The items of a line: the date, texts of fixed length, texts that come from
\* elsewhere, the same with quotes doubled, numbers.
Date == [kind |-> "date", len |-> 19]
Lit(n) == [kind |-> "lit", len |-> n]
Str == [kind |-> "str", len |-> 0]
Esc == [kind |-> "esc", len |-> 0]
Int == [kind |-> "int", len |-> 0]

Quote == Lit(1)
Comma == Lit(1)

\* Date; address; URL; referer; status; bytes in and out, five times, request
\* number; agent; user; length of the script name and line number.
Line ==
  << Date, Comma, Str, Comma,
     Quote, Str, Lit(3), Esc, Esc, Esc, Quote, Comma,
     Quote, Esc, Quote, Comma, Str, Comma,
     Int, Comma, Int, Comma, Int, Comma, Int, Comma, Int, Comma, Int, Comma,
     Int, Comma, Int, Comma,
     Quote, Esc, Quote, Comma, Quote, Esc, Quote, Comma,
     Int, Comma, Int, Lit(1) >>

Items == DOMAIN Line

Init ==
  /\ next = 1 /\ zPos = 0 /\ top = 0
  /\ cut = FALSE /\ lost = {}
  /\ toSend = 0

\* n bytes are copied to zPos.
Put(n) ==
  /\ zPos' = zPos + n
  /\ top' = IF zPos + n > top THEN zPos + n ELSE top

Appended(kind) ==
  /\ next <= Len(Line) /\ Line[next].kind = kind
  /\ next' = next + 1
  /\ UNCHANGED toSend

\* Once there was no room, nothing is appended.
Skip(kind) ==
  /\ Appended(kind) /\ zPos = Null
  /\ UNCHANGED <<zPos, top, cut, lost>>

\* log_str(): all of the text, with room for its end, or nothing.
log_str(kind, n) ==
  /\ Appended(kind) /\ zPos # Null
  /\ IF Size <= zPos + n THEN zPos' = Null /\ UNCHANGED top ELSE Put(n)
  /\ UNCHANGED <<cut, lost>>

\* log_escstr(): there must be a byte.  The loop stops at the end of the buffer,
\* or in front of a quote that does not fit when it is doubled.
log_escstr(n) ==
  /\ Appended("esc") /\ zPos # Null
  /\ \/ zPos >= Size /\ zPos' = Null /\ UNCHANGED <<top, cut>>
     \/ zPos < Size /\ zPos + n <= Size /\ Put(n) /\ UNCHANGED cut
     \/ zPos < Size /\ zPos + n > Size /\ Put(Size - zPos) /\ cut' = TRUE
     \/ /\ zPos < Size /\ zPos + n > Size
        /\ zPos' = Null /\ top' = Size /\ UNCHANGED cut
  /\ UNCHANGED lost

\* log_int(): without room the number is left out and zPos is not touched.
log_int(n) ==
  /\ Appended("int") /\ zPos # Null
  /\ IF Size <= zPos + n
     THEN lost' = lost \cup {next} /\ UNCHANGED <<zPos, top>>
     ELSE Put(n) /\ UNCHANGED lost
  /\ UNCHANGED cut

\* log_DateTime(): room is looked for once, then the parts are appended.
log_DateTime ==
  /\ Appended("date") /\ zPos # Null
  /\ IF Size <= zPos + 19 THEN zPos' = Null /\ UNCHANGED top ELSE Put(19)
  /\ UNCHANGED <<cut, lost>>

\* The end of the line is marked and write() called, again if it takes a part.
Close ==
  /\ next = Len(Line) + 1 /\ zPos # Null
  /\ next' = next + 1 /\ toSend' = zPos
  /\ UNCHANGED <<zPos, top, cut, lost>>

Send ==
  /\ next = Len(Line) + 2 /\ toSend > 0
  /\ \/ toSend' = 0
     \/ \E nSent \in 1..toSend : toSend' = toSend - nSent
  /\ UNCHANGED <<next, zPos, top, cut, lost>>

Done ==
  /\ \/ next = Len(Line) + 1 /\ zPos = Null
     \/ next = Len(Line) + 2 /\ toSend = 0
  /\ UNCHANGED vars

Next ==
  \/ \E kind \in {"date", "lit", "str", "esc", "int"} : Skip(kind)
  \/ next <= Len(Line) /\ log_str("lit", Line[next].len)
  \/ \E n \in Texts : log_str("str", n) \/ log_escstr(n)
  \/ \E n \in Digits : log_int(n)
  \/ log_DateTime \/ Close \/ Send \/ Done

Spec == Init /\ [][Next]_vars

-----------------------------------------------------------------------------
(* Properties. *)

Written == next = Len(Line) + 2

\* However long the texts are, nothing is written behind the buffer, and a line
\* that goes to the file has its end inside it and each of its texts whole: a text
\* that was cut leaves no room for the quote behind it, so that line is given up.
InBuffer ==
  /\ top <= Size
  /\ Written => zPos < Size /\ ~cut

\* A line that goes to the file has all its numbers.
NumbersKept == Written => lost = {}

\* assert( zPos<zEnd-1 )
EndsEarlier == Written => zPos < Size - 1

=============================================================================
