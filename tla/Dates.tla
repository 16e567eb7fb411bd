------------------------------- MODULE Dates --------------------------------
(***************************************************************************)
(* Dates on their way between C++ and the server, as text.  C++ has a year *)
(* zero and 16 bits for a year; the server has neither.  A text is a       *)
(* sequence of characters, because where its parts begin depends on how    *)
(* many digits a year takes.                                               *)
(***************************************************************************)
EXTENDS Integers, Sequences, SequencesExt

CONSTANTS
    CppDate,        \* the dates that the program may start from
    ServerDate,     \* the dates that the table may hold at first
    Misprint        \* what one character of a text may become; "" for nothing

DatesAssumption ==
    \A d \in CppDate \cup ServerDate : d.year \in Int /\ d.month \in Nat /\ d.day \in Nat

VARIABLES
    at,             \* "client", "sent", "server", "read", "refused"
    date,           \* as C++ or the server has it, by where it is
    text,
    meant,          \* the date all of this is about, in years with a zero
    reach           \* how many bytes of the buffer were written

vars == <<at, date, text, meant, reach>>

-----------------------------------------------------------------------------
(* The calendar.                                                           *)

IsLeap(y) == y % 4 = 0 /\ (y % 100 # 0 \/ y % 400 = 0)
MonthDays(y, m) == CASE m = 2 -> IF IsLeap(y) THEN 29 ELSE 28
                     [] m \in {4, 6, 9, 11} -> 30
                     [] OTHER -> 31
InCalendar(d) == d.month \in 1 .. 12 /\ d.day \in 1 .. MonthDays(d.year, d.month)

YearMin == -32767
YearMax == 32767

\* std::chrono::year keeps 16 bits of the number.
AsShort(n) == ((n + 32768) % 65536) - 32768

\* year_month_day::ok()
ok(d) == d.year # -32768 /\ InCalendar(d)

-----------------------------------------------------------------------------
(* Numbers as text.                                                        *)

Digit == <<"0", "1", "2", "3", "4", "5", "6", "7", "8", "9">>
is_digit(c) == c \in Range(Digit)
digit_to_number(c) == (CHOOSE i \in DOMAIN Digit : Digit[i] = c) - 1
number_to_digit(n) == Digit[n + 1]

Decimal(n) ==
    LET width == CHOOSE w \in 1 .. 6 : n < 10 ^ w /\ (w = 1 \/ n >= 10 ^ (w - 1))
    IN  [i \in 1 .. width |-> number_to_digit((n \div 10 ^ (width - i)) % 10)]

NumberOf(s) == FoldLeft(LAMBDA n, c : 10 * n + digit_to_number(c), 0, s)

Unblanked(s) == LET first == SelectInSeq(s, LAMBDA c : c # " ")
                IN  IF first = 0 THEN <<>> ELSE SubSeq(s, first, Len(s))

-----------------------------------------------------------------------------
(* To text.                                                                *)

\* Year zero is 1 BC, and so on.
BareYear_NoZero(y) == IF y < 0 THEN -y ELSE y

BareYear(y) == IF y <= 0 THEN 1 - y ELSE y

Zeros(n) == [i \in 1 .. n |-> "0"]
Padding(n) == IF n < 10 THEN 3 ELSE IF n < 100 THEN 2 ELSE IF n < 1000 THEN 1 ELSE 0

year_into_buf(y) == Zeros(Padding(BareYear(y))) \o Decimal(BareYear(y))

\* The size_buffer() of an int: a sign and ten digits.
IntSize == 11

\* A number is written at the end of its part of the buffer, and then moved.
\* The oldest year is copied from a constant.
YearReach(y) == IF y = YearMin THEN 5 ELSE Padding(BareYear(y)) + IntSize

month_into_buf(m) == <<IF m >= 10 THEN "1" ELSE "0", number_to_digit(m % 10)>>
day_into_buf(d) == <<number_to_digit(d \div 10), number_to_digit(d % 10)>>

s_bc == <<" ", "B", "C">>

\* The room for a year of four digits.
size_buffer_FourDigits == 4 + 1 + 2 + 1 + 2 + Len(s_bc)

size_buffer == 5 + 1 + 2 + 1 + 2 + Len(s_bc) + 1

to_buf(d) ==
    year_into_buf(d.year) \o <<"-">> \o month_into_buf(d.month) \o <<"-">>
        \o day_into_buf(d.day) \o (IF d.year <= 0 THEN s_bc ELSE <<>>)

-----------------------------------------------------------------------------
(* From text.                                                              *)

IsBC(t) == IsSuffix(s_bc, t)
Undated(t) == IF IsBC(t) THEN SubSeq(t, 1, Len(t) - Len(s_bc)) ELSE t

\* The place of the dash after a year of four digits.
find_year_month_separator_Fixed(t) == 5

\* The dash after the year; a position past the end when there is none.
find_year_month_separator(t) == IF Contains(t, "-") THEN SelectInSeq(t, LAMBDA c : c = "-")
                                ELSE Len(t) + 1

\* Leading blanks are skipped.  A sign does not occur: the dash is what follows.
IsYear(s) == /\ Len(s) >= 4
             /\ LET number == Unblanked(s)
                IN  number # <<>> /\ (\A i \in DOMAIN number : is_digit(number[i])) /\ NumberOf(number) > 0

TwoDigits(t, pos) == is_digit(t[pos]) /\ is_digit(t[pos + 1])

\* Whether from_string() gets as far as a date.
HasDate_AnySize(t) ==
    LET rest == Undated(t)
        sep  == find_year_month_separator(rest)
    IN  /\ Len(t) >= 9 /\ Len(rest) - (sep - 1) >= 6
        /\ IsYear(SubSeq(rest, 1, sep - 1))
        /\ TwoDigits(rest, sep + 1) /\ rest[sep + 3] = "-" /\ TwoDigits(rest, sep + 4)

HasDate(t) ==
    LET rest == Undated(t)
        sep  == find_year_month_separator(rest)
    IN  /\ Len(t) >= 9 /\ Len(rest) - (sep - 1) = 6
        /\ IsYear(SubSeq(rest, 1, sep - 1))
        /\ TwoDigits(rest, sep + 1) /\ rest[sep + 3] = "-" /\ TwoDigits(rest, sep + 4)

ParsedDate(t) ==
    LET rest == Undated(t)
        sep  == find_year_month_separator(rest)
        base == NumberOf(Unblanked(SubSeq(rest, 1, sep - 1)))
    IN  [year  |-> AsShort(IF IsBC(t) THEN -base + 1 ELSE base),
         month |-> NumberOf(SubSeq(rest, sep + 1, sep + 2)),
         day   |-> NumberOf(SubSeq(rest, sep + 4, sep + 5))]

\* (day_from_string() refuses days beyond 31, which ok() would as well.)
Accepts(t) == HasDate(t) /\ ok(ParsedDate(t))

-----------------------------------------------------------------------------
(* The server.  Its years have no zero; a date has an era.                 *)

ServerMin == -4712
ServerMax == 294276

Server(d) == [era |-> IF d.year <= 0 THEN "BC" ELSE "AD",
              year |-> IF d.year <= 0 THEN 1 - d.year ELSE d.year,
              month |-> d.month, day |-> d.day]
Astronomical(s) == [year |-> IF s.era = "BC" THEN 1 - s.year ELSE s.year,
                    month |-> s.month, day |-> s.day]

ServerText(s) ==
    Zeros(Padding(s.year)) \o Decimal(s.year) \o <<"-">>
        \o Zeros(IF s.month < 10 THEN 1 ELSE 0) \o Decimal(s.month) \o <<"-">>
        \o Zeros(IF s.day < 10 THEN 1 ELSE 0) \o Decimal(s.day)
        \o (IF s.era = "BC" THEN <<" ", "B", "C">> ELSE <<>>)

\* What the server understands: at least three digits, a month and a day.
ServerReads(t) ==
    LET bc   == IsSuffix(<<" ", "B", "C">>, t)
        size == Len(t) - (IF bc THEN 3 ELSE 0)
    IN  [era |-> IF bc THEN "BC" ELSE "AD",
         year |-> NumberOf(SubSeq(t, 1, size - 6)),
         month |-> NumberOf(SubSeq(t, size - 4, size - 3)),
         day |-> NumberOf(SubSeq(t, size - 1, size))]

ServerHas(s) == s.year > 0 /\ Astronomical(s).year \in ServerMin .. ServerMax
                /\ InCalendar(Astronomical(s))

-----------------------------------------------------------------------------
Init ==
    \/ \E d \in CppDate :
           at = "client" /\ date = d /\ meant = d /\ text = <<>> /\ reach = 0
    \/ \E d \in ServerDate :
           at = "server" /\ date = Server(d) /\ meant = d /\ text = <<>> /\ reach = 0

Send ==
    /\ at = "client"
    /\ text' = to_buf(date)
    /\ reach' = LET year == YearReach(date.year)
                IN  IF year > Len(text') THEN year ELSE Len(text')
    /\ at' = "sent"
    /\ UNCHANGED <<date, meant>>

Store ==
    /\ at = "sent"
    /\ IF ServerHas(ServerReads(text)) THEN at' = "server" /\ date' = ServerReads(text)
       ELSE at' = "refused" /\ UNCHANGED date
    /\ UNCHANGED <<text, meant, reach>>

Fetch ==
    /\ at = "server"
    /\ text' = ServerText(date)
    /\ at' = "read"
    /\ UNCHANGED <<date, meant, reach>>

\* A text that is not quite what the server sent.  (It happens once.)
Edit(i, c) ==
    /\ at = "read" /\ text = ServerText(Server(meant))
    /\ text' = IF c = "" THEN RemoveAt(text, i) ELSE ReplaceAt(text, i, c)
    /\ UNCHANGED <<at, date, meant, reach>>

Parse ==
    /\ at = "read"
    /\ IF Accepts(text) THEN at' = "client" /\ date' = ParsedDate(text)
       ELSE at' = "refused" /\ UNCHANGED date
    /\ UNCHANGED <<text, meant, reach>>

Done == at = "refused" /\ UNCHANGED vars

Next ==
    \/ Send \/ Store \/ Fetch \/ Parse \/ Done
    \/ \E i \in DOMAIN text, c \in Misprint : Edit(i, c)

Spec == Init /\ [][Next]_vars

-----------------------------------------------------------------------------
(* Properties.                                                             *)

\* A date that makes the round trip, in either direction, stays the same day:
\* across year zero and its leap day, and for years of three to five digits.
SameDay ==
    /\ at = "client" => date = meant
    /\ at = "server" => Astronomical(date) = meant

\* A date that both sides have is refused by neither.
NeitherRefuses ==
    at = "refused" => ~(meant.year \in ServerMin .. YearMax /\ ok(meant))

\* to_buf() checks only size_buffer(): the text, and the place to which the
\* digits of a year are first written, are within it.
StaysInBuffer == reach <= size_buffer

\* What from_string() takes for a date has the form that the server writes,
\* digit for digit, and is the day it says, whatever one character became.
OnlyDatesAccepted ==
    at = "read" /\ Accepts(text) =>
        LET body == Undated(text)
            size == Len(body)
        IN  /\ \A i \in 1 .. size : IF i \in {size - 5, size - 2} THEN body[i] = "-" ELSE is_digit(body[i])
            /\ size >= 10
            /\ ParsedDate(text) = Astronomical(ServerReads(text)) /\ InCalendar(ParsedDate(text))
=============================================================================
