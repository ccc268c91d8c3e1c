------------------------------- MODULE Texts -------------------------------
(***************************************************************************)
(* The two texts by which the database finds a reading again: recorded_at, *)
(* an instant as to_rfc3339 writes it (src/storage.rs), and sensor_name,   *)
(* as the sources put it together (src/collector.rs).                      *)
(*                                                                         *)
(* SQLite compares texts byte by byte.  A text is a sequence of signs; a   *)
(* sign is a separator or a field of digits.  Fields that meet at one      *)
(* place of two texts have the same width, so they compare like numbers.   *)
(*                                                                         *)
(* Operators introduced as a "faulty form" are not used by others.         *)
(***************************************************************************)
EXTENDS Integers, Sequences

CONSTANTS
    YearLength,  \* seconds in a year; that leap years are longer is left out
    Day          \* seconds in 24 hours

ASSUME CalendarAssumption == YearLength \in Nat /\ Day \in 1..YearLength

\* An instant: the second within its year, and the nanosecond by thousands.
Instant == [year: Int, second: 0..(YearLength - 1),
            milli: 0..999, micro: 0..999, nano: 0..999]

Nanosecond(t) == (t.milli * 1000 + t.micro) * 1000 + t.nano

\* a <= b, as DateTime<Utc> compares.
NotAfter(a, b) ==
    \/ a.year < b.year
    \/ a.year = b.year /\ a.second < b.second
    \/ a.year = b.year /\ a.second = b.second /\ Nanosecond(a) <= Nanosecond(b)

\* Faulty form of DayBefore: nothing is borrowed from the year.
DayBeforeSameYear(t) == [t EXCEPT !.second = @ - Day]

\* to - Duration::hours(24)
DayBefore(t) ==
    IF t.second >= Day
    THEN [t EXCEPT !.second = @ - Day]
    ELSE [t EXCEPT !.year = @ - 1, !.second = @ + YearLength - Day]

-----------------------------------------------------------------------------
\* Separators in the order of their bytes; digits come after them, letters last.
Plus  == -3
Minus == -2
Dot   == -1

FourDigits == 0..9999

\* Four digits, and a sign where they do not suffice.
YearSigns(y) ==
    IF y \in FourDigits THEN <<y>> ELSE IF y < 0 THEN <<Minus, -y>> ELSE <<Plus, y>>

\* SecondsFormat::AutoSi: no fraction, or three, six or nine digits.
FractionSigns(t) ==
    CASE t.nano # 0                                -> <<Dot, t.milli, t.micro, t.nano>>
      [] t.nano = 0 /\ t.micro # 0                 -> <<Dot, t.milli, t.micro>>
      [] t.nano = 0 /\ t.micro = 0 /\ t.milli # 0  -> <<Dot, t.milli>>
      [] t.nano = 0 /\ t.micro = 0 /\ t.milli = 0  -> <<>>

\* Faulty form of Offset: "Z", as to_rfc3339_opts writes it on request.
OffsetZulu == <<10000>>

\* The offset +00:00 ends the text.
Offset == <<Plus>>

Text(t) == YearSigns(t.year) \o <<t.second>> \o FractionSigns(t) \o Offset

\* s <= t in SQL: s is a prefix of t, or smaller where they first differ.
TextLE(s, t) ==
    \/ Len(s) <= Len(t) /\ \A i \in 1..Len(s) : s[i] = t[i]
    \/ \E k \in (1..Len(s)) \intersect (1..Len(t)) :
         s[k] < t[k] /\ \A i \in 1..(k - 1) : s[i] = t[i]

-----------------------------------------------------------------------------
\* A sensor is where it is found: a thermal zone, the input number `id` of a
\* hwmon device, a GPU.  chip and label are the contents of the files `name`
\* and temp<id>_label, <<>> when there is no such file or it is empty.
Colon == <<":">>

Chip(s)  == IF s.chip = <<>> THEN <<s.dir>> ELSE s.chip

\* Faulty form of Label: the input's own number is left out.
LabelUnnumbered(s) == IF s.label = <<>> THEN <<"temp">> ELSE s.label

Label(s) == IF s.label = <<>> THEN <<"temp", s.id>> ELSE s.label

SensorName(s) ==
    CASE s.kind = "zone"  -> <<s.dir>> \o Colon \o s.type
      [] s.kind = "hwmon" -> <<"hwmon">> \o Colon \o Chip(s) \o Colon \o Label(s)
      [] s.kind = "gpu"   -> <<"nvidia">> \o Colon \o <<s.id>> \o Colon \o s.type
=============================================================================
