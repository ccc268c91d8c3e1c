--------------------------- MODULE RecordedProof ---------------------------
(***************************************************************************)
(* SQLite finds the rows of a window by comparing texts; the tool checks   *)
(* the window as instants.  In the years of four digits the two orders are *)
(* one: the theorem TextOrder, for every calendar and every instant.  An   *)
(* analysis covers the readings of its window: the theorem WindowCovered,  *)
(* for every machine and number of rows; outside the years of four digits  *)
(* the sign that a text begins with decides.                               *)
(*                                                                         *)
(* TextOrder spells both texts sign by sign (TextSigns), finds the first   *)
(* sign in which an earlier instant's text is smaller (SoonerTextDiffers)  *)
(* and concludes with the order of texts (DiffersTextLE).  The two places  *)
(* where texts of different lengths meet are those where one fraction has  *)
(* ended: its sign there is Plus, which is below Dot and below all digits. *)
(*                                                                         *)
(* Facts about the fields of instants are stated of plain variables and    *)
(* named, so that they can be cited for the fields of any two records.     *)
(***************************************************************************)
EXTENDS Recorded, SequenceTheorems, TLAPS


-----------------------------------------------------------------------------
\* The signs of two texts written one after the other.
LEMMA Joined ==
    ASSUME NEW s \in Seq(Int), NEW t \in Seq(Int)
    PROVE  /\ s \o t \in Seq(Int)
           /\ Len(s \o t) = Len(s) + Len(t)
           /\ \A i \in 1..Len(s) : (s \o t)[i] = s[i]
           /\ \A i \in 1..Len(t) : (s \o t)[Len(s) + i] = t[i]
  OBVIOUS

\* The text of one sign of the year, the second, and the fraction f.
Assembled(text, y, s, f) == text = <<y>> \o <<s>> \o f \o Offset

\* The same text sign by sign.
Spelled(text, y, s, f) ==
    /\ text \in Seq(Int) /\ Len(text) = Len(f) + 3
    /\ text[1] = y /\ text[2] = s
    /\ \A i \in 1..Len(f) : text[i + 2] = f[i]
    /\ text[Len(f) + 3] = Plus

\* A text assembled from its parts has the signs of the parts.
LEMMA Signs ==
    ASSUME NEW y \in Int, NEW s \in Int, NEW f \in Seq(Int), NEW text,
           Assembled(text, y, s, f)
    PROVE  Spelled(text, y, s, f)
<1> DEFINE a == <<y>>
           b == <<s>>
           ab == a \o b
           abf == ab \o f
<1>0. text = abf \o Offset
  BY DEF Assembled
<1>1. a \in Seq(Int) /\ Len(a) = 1 /\ a[1] = y
  OBVIOUS
<1>2. b \in Seq(Int) /\ Len(b) = 1 /\ b[1] = s
  OBVIOUS
<1>3. Offset \in Seq(Int) /\ Len(Offset) = 1 /\ Offset[1] = Plus
  BY DEF Offset, Plus
<1> HIDE DEF a, b
<1>4. ab \in Seq(Int) /\ Len(ab) = 2 /\ ab[1] = y /\ ab[2] = s
  <2>1. ab \in Seq(Int) /\ Len(ab) = Len(a) + Len(b)
    BY <1>1, <1>2, Joined
  <2>2. \A i \in 1..Len(a) : ab[i] = a[i]
    BY <1>1, <1>2, Joined
  <2>3. \A i \in 1..Len(b) : ab[Len(a) + i] = b[i]
    BY <1>1, <1>2, Joined
  <2> HIDE DEF ab
  <2> QED
    BY <1>1, <1>2, <2>1, <2>2, <2>3
<1> HIDE DEF ab
<1>5. /\ abf \in Seq(Int) /\ Len(abf) = Len(f) + 2
      /\ abf[1] = y /\ abf[2] = s
      /\ \A i \in 1..Len(f) : abf[i + 2] = f[i]
  <2>1. abf \in Seq(Int) /\ Len(abf) = Len(ab) + Len(f)
    BY <1>4, Joined
  <2>2. \A i \in 1..Len(ab) : abf[i] = ab[i]
    BY <1>4, Joined
  <2>3. \A i \in 1..Len(f) : abf[Len(ab) + i] = f[i]
    BY <1>4, Joined
  <2> HIDE DEF abf
  <2>4. \A i \in 1..Len(f) : abf[i + 2] = f[i]
    BY <1>4, <2>3
  <2> QED
    BY <1>4, <2>1, <2>2, <2>4
<1> HIDE DEF abf
<1> DEFINE w == abf \o Offset
<1>6. /\ w \in Seq(Int) /\ Len(w) = Len(f) + 3
      /\ \A i \in 1..(Len(f) + 2) : w[i] = abf[i]
      /\ w[Len(f) + 3] = Plus
  <2>1. w \in Seq(Int) /\ Len(w) = Len(abf) + Len(Offset)
    BY <1>3, <1>5, Joined
  <2>2. \A i \in 1..Len(abf) : w[i] = abf[i]
    BY <1>3, <1>5, Joined
  <2>3. \A i \in 1..Len(Offset) : w[Len(abf) + i] = Offset[i]
    BY <1>3, <1>5, Joined
  <2> HIDE DEF w
  <2> QED
    BY <1>3, <1>5, <2>1, <2>2, <2>3
<1>w. text = w
  BY <1>0
<1> HIDE DEF w
<1>7. /\ w[1] = y /\ w[2] = s
      /\ \A i \in 1..Len(f) : w[i + 2] = f[i]
  <2>1. Len(f) \in Nat
    OBVIOUS
  <2>2. \A i \in 1..Len(f) : i + 2 \in 1..(Len(f) + 2)
    BY <2>1
  <2>3. 1 \in 1..(Len(f) + 2) /\ 2 \in 1..(Len(f) + 2)
    BY <2>1
  <2>4. w[1] = y /\ w[2] = s
    BY <1>5, <1>6, <2>3
  <2>5. ASSUME NEW i \in 1..Len(f) PROVE w[i + 2] = f[i]
    BY <1>5, <1>6, <2>2
  <2> QED
    BY <2>4, <2>5
<1> QED
  BY <1>w, <1>6, <1>7 DEF Spelled

Thousand == 0..999

\* The fields of an instant and their ranges.
Fields(t) ==
    /\ t.year \in Int /\ t.second \in Int
    /\ t.milli \in Thousand /\ t.micro \in Thousand /\ t.nano \in Thousand

\* Numbers of three digits.
LEMMA Thousands == Thousand \subseteq Nat /\ Thousand \subseteq Int
  BY DEF Thousand

\* An instant has those fields, in a calendar as CalendarAssumption says.
LEMMA InstantFields ==
    ASSUME NEW t \in Instant
    PROVE  Fields(t)
<1>1. /\ t.year \in Int
      /\ t.second \in 0..(YearLength - 1)
      /\ t.milli \in Thousand /\ t.micro \in Thousand /\ t.nano \in Thousand
  BY DEF Instant, Thousand
<1>2. YearLength \in Int
  BY CalendarAssumption
<1>3. t.second \in Int
  BY <1>1, <1>2
<1> QED
  BY <1>1, <1>3 DEF Fields

\* The c signs of the fraction of a second of the fields m, u, v.
FractionOf(f, c, m, u, v) ==
    /\ f \in Seq(Int)
    /\ c = Len(f)
    /\ \/ c = 0 /\ m = 0 /\ u = 0 /\ v = 0
       \/ c = 2 /\ m # 0 /\ u = 0 /\ v = 0
       \/ c = 3 /\ u # 0 /\ v = 0
       \/ c = 4 /\ v # 0
    /\ c >= 2 => (f[1] = Dot /\ f[2] = m)
    /\ c >= 3 => f[3] = u
    /\ c = 4 => f[4] = v

\* AutoSi writes no, two, three or four signs: a dot and one to three fields.
LEMMA Fractions ==
    ASSUME NEW t \in Instant
    PROVE  \E c \in Nat : FractionOf(FractionSigns(t), c, t.milli, t.micro, t.nano)
<1> DEFINE f == FractionSigns(t)
<1>1. t.milli \in Int /\ t.micro \in Int /\ t.nano \in Int /\ Dot \in Int
  <2>1. \A n \in Thousand : n \in Int
    BY Thousands
  <2>2. Dot \in Int
    BY DEF Dot
  <2>3. t.milli \in Thousand /\ t.micro \in Thousand /\ t.nano \in Thousand
    BY InstantFields DEF Fields
  <2> QED
    BY <2>1, <2>2, <2>3, Zenon
<1>2. CASE t.nano # 0
  <2>1. f = <<Dot, t.milli, t.micro, t.nano>>
    BY <1>2 DEF FractionSigns
  <2>2. FractionOf(f, 4, t.milli, t.micro, t.nano)
    BY <1>1, <1>2, <2>1 DEF FractionOf
  <2> QED
    BY <2>2
<1>3. CASE t.nano = 0 /\ t.micro # 0
  <2>1. f = <<Dot, t.milli, t.micro>>
    BY <1>3 DEF FractionSigns
  <2>2. FractionOf(f, 3, t.milli, t.micro, t.nano)
    BY <1>1, <1>3, <2>1 DEF FractionOf
  <2> QED
    BY <2>2
<1>4. CASE t.nano = 0 /\ t.micro = 0 /\ t.milli # 0
  <2>1. f = <<Dot, t.milli>>
    BY <1>4 DEF FractionSigns
  <2>2. FractionOf(f, 2, t.milli, t.micro, t.nano)
    BY <1>1, <1>4, <2>1 DEF FractionOf
  <2> QED
    BY <2>2
<1>5. CASE t.nano = 0 /\ t.micro = 0 /\ t.milli = 0
  <2>1. f = <<>>
    BY <1>5 DEF FractionSigns
  <2>2. FractionOf(f, 0, t.milli, t.micro, t.nano)
    BY <1>1, <1>5, <2>1 DEF FractionOf
  <2> QED
    BY <2>2
<1> QED
  BY <1>2, <1>3, <1>4, <1>5

\* An instant whose text needs no sign before the year.
FourDigitYear(t) == t \in Instant /\ t.year \in FourDigits

\* The number of signs of a text with the fraction m, u, v.
CountOf(n, m, u, v) ==
    \/ n = 3 /\ m = 0 /\ u = 0 /\ v = 0
    \/ n = 5 /\ m # 0 /\ u = 0 /\ v = 0
    \/ n = 6 /\ u # 0 /\ v = 0
    \/ n = 7 /\ v # 0

\* The n signs of a text s of the fields y, sec, m, u, v.
SignsOf(s, n, y, sec, m, u, v) ==
    /\ s \in Seq(Int)
    /\ n = Len(s)
    /\ CountOf(n, m, u, v)
    /\ s[1] = y /\ s[2] = sec
    /\ s[n] = Plus
    /\ n >= 5 => (s[3] = Dot /\ s[4] = m)
    /\ n >= 6 => s[5] = u
    /\ n = 7 => s[6] = v

\* A text has three signs more than its fraction.
LEMMA FractionCount ==
    ASSUME NEW f, NEW c \in Nat,
           NEW m, NEW u, NEW v, FractionOf(f, c, m, u, v)
    PROVE  CountOf(c + 3, m, u, v)
<1>1. CASE c = 0 /\ m = 0 /\ u = 0 /\ v = 0
  BY <1>1 DEF CountOf
<1>2. CASE c = 2 /\ m # 0 /\ u = 0 /\ v = 0
  BY <1>2 DEF CountOf
<1>3. CASE c = 3 /\ u # 0 /\ v = 0
  BY <1>3 DEF CountOf
<1>4. CASE c = 4 /\ v # 0
  BY <1>4 DEF CountOf
<1> QED
  BY <1>1, <1>2, <1>3, <1>4 DEF FractionOf

\* The signs of the text of an instant in a year of four digits.
LEMMA TextSigns ==
    ASSUME NEW t, FourDigitYear(t)
    PROVE  \E n \in Nat :
             SignsOf(Text(t), n, t.year, t.second, t.milli, t.micro, t.nano)
<1> DEFINE f == FractionSigns(t)
           text == Text(t)
<1>1. t.year \in Int /\ t.second \in Int
  BY InstantFields DEF FourDigitYear, Fields
<1>2. YearSigns(t.year) = <<t.year>>
  BY Zenon DEF YearSigns, FourDigitYear
<1>3. text = <<t.year>> \o <<t.second>> \o f \o Offset
  BY <1>2 DEF Text
<1>4. PICK c \in Nat : FractionOf(f, c, t.milli, t.micro, t.nano)
  BY Fractions DEF FourDigitYear
<1>5. f \in Seq(Int) /\ c = Len(f)
  BY <1>4 DEF FractionOf
<1> HIDE DEF f, text
<1>6. /\ text \in Seq(Int) /\ Len(text) = Len(f) + 3
      /\ text[1] = t.year /\ text[2] = t.second
      /\ \A i \in 1..Len(f) : text[i + 2] = f[i]
      /\ text[Len(f) + 3] = Plus
  <2> DEFINE y == t.year
             sec == t.second
  <2>1. y \in Int /\ sec \in Int /\ Assembled(text, y, sec, f)
    BY <1>1, <1>3 DEF Assembled
  <2> HIDE DEF y, sec
  <2>2. f \in Seq(Int)
    BY <1>5
  <2>3. Spelled(text, y, sec, f)
    BY <2>1, <2>2, Signs
  <2> QED
    BY <2>3 DEF y, sec, Spelled
<1>7. /\ c >= 2 => text[3] = f[1] /\ text[4] = f[2]
      /\ c >= 3 => text[5] = f[3]
      /\ c = 4 => text[6] = f[4]
  <2>1. ASSUME c >= 2 PROVE text[1 + 2] = f[1] /\ text[2 + 2] = f[2]
    BY <1>5, <1>6, <2>1
  <2>2. ASSUME c >= 3 PROVE text[3 + 2] = f[3]
    BY <1>5, <1>6, <2>2
  <2>3. ASSUME c = 4 PROVE text[4 + 2] = f[4]
    BY <1>5, <1>6, <2>3
  <2> QED
    BY <2>1, <2>2, <2>3
<1> DEFINE n == c + 3
<1>8. CountOf(n, t.milli, t.micro, t.nano)
  BY <1>4, FractionCount, InstantFields, Zenon DEF FourDigitYear, Fields
<1>9. /\ n \in Nat
      /\ n >= 5 => c >= 2
      /\ n >= 6 => c >= 3
      /\ n = 7 => c = 4
  OBVIOUS
<1>10. /\ n = Len(text) /\ text[n] = Plus
  BY <1>5, <1>6
<1>11. /\ c >= 2 => (f[1] = Dot /\ f[2] = t.milli)
       /\ c >= 3 => f[3] = t.micro
       /\ c = 4 => f[4] = t.nano
  BY <1>4 DEF FractionOf
<1> HIDE DEF n
<1>12. SignsOf(text, n, t.year, t.second, t.milli, t.micro, t.nano)
  BY <1>6, <1>7, <1>8, <1>9, <1>10, <1>11, Zenon DEF SignsOf
<1> QED
  BY <1>9, <1>12 DEF text

\* s and t differ first at sign k, where s is smaller.
DiffersAt(s, t, k) ==
    /\ k \in 1..Len(s) /\ k \in 1..Len(t)
    /\ s[k] < t[k]
    /\ \A i \in 1..(k - 1) : s[i] = t[i]

\* The first difference decides the order of two texts, in both directions.
LEMMA DiffersTextLE ==
    ASSUME NEW s \in Seq(Int), NEW t \in Seq(Int), NEW k \in Nat, DiffersAt(s, t, k)
    PROVE  TextLE(s, t) /\ ~TextLE(t, s)
<1>1. TextLE(s, t)
  BY DEF TextLE, DiffersAt
<1>2. ~(\A i \in 1..Len(t) : t[i] = s[i])
  <2>1. t[k] \in Int /\ s[k] \in Int /\ k \in 1..Len(t) /\ s[k] < t[k]
    BY SMTT(30) DEF DiffersAt
  <2> QED BY <2>1
<1>3. ASSUME NEW j \in 1..Len(t), j \in 1..Len(s), t[j] < s[j],
             \A i \in 1..(j - 1) : t[i] = s[i]
      PROVE  FALSE
  <2>1. s[j] \in Int /\ t[j] \in Int /\ s[k] \in Int /\ t[k] \in Int
    BY <1>3, SMTT(30) DEF DiffersAt
  <2>2. CASE j < k
    BY <1>3, <2>1, <2>2, SMTT(30) DEF DiffersAt
  <2>3. CASE j = k
    BY <1>3, <2>1, <2>3, SMTT(30) DEF DiffersAt
  <2>4. CASE k < j
    BY <1>3, <2>1, <2>4, SMTT(30) DEF DiffersAt
  <2> QED BY <2>2, <2>3, <2>4
<1> QED
  BY <1>1, <1>2, <1>3 DEF TextLE

\* The fraction mm, uu, vv is larger than m, u, v.
Later(m, u, v, mm, uu, vv) ==
    \/ m < mm
    \/ m = mm /\ u < uu
    \/ m = mm /\ u = uu /\ v < vv

\* Of two instants of one second, the text of the one with the smaller
\* fraction is smaller where they first differ.  That may be where its fraction
\* has ended: at its third, fifth or sixth sign.
LEMMA LaterFraction ==
    ASSUME NEW y \in Int, NEW sec \in Int,
           NEW m \in Nat, NEW u \in Nat, NEW v \in Nat,
           NEW mm \in Nat, NEW uu \in Nat, NEW vv \in Nat,
           NEW s, NEW t, NEW n \in Nat, NEW nn \in Nat,
           SignsOf(s, n, y, sec, m, u, v), SignsOf(t, nn, y, sec, mm, uu, vv),
           Later(m, u, v, mm, uu, vv)
    PROVE  \E k \in Nat : DiffersAt(s, t, k)
<1>1. CountOf(n, m, u, v) /\ CountOf(nn, mm, uu, vv)
  BY DEF SignsOf
<1>2. nn >= 5
  BY <1>1 DEF CountOf, Later
<1>3. n = 3 \/ n >= 5
  BY <1>1 DEF CountOf
<1>4. /\ n = Len(s) /\ nn = Len(t)
      /\ s[1] = t[1] /\ s[2] = t[2] /\ s[n] = Plus
      /\ t[3] = Dot /\ t[4] = mm
      /\ n >= 5 => s[3] = Dot /\ s[4] = m
      /\ n >= 6 => s[5] = u
      /\ n = 7 => s[6] = v
      /\ nn >= 6 => t[5] = uu
      /\ nn = 7 => t[6] = vv
  BY <1>2, Zenon DEF SignsOf
<1>5. CASE n = 3
  <2>1. DiffersAt(s, t, 3)
    BY <1>2, <1>4, <1>5, SMTT(30) DEF DiffersAt, Plus, Dot
  <2> QED
    BY <2>1
<1>6. CASE n # 3 /\ m < mm
  <2>1. n >= 5 /\ s[3] = t[3] /\ s[4] = m
    BY <1>3, <1>4, <1>6
  <2>2. 4 \in 1..Len(s) /\ 4 \in 1..Len(t)
    BY <1>2, <1>4, <2>1, SMTT(30)
  <2>3. s[4] < t[4]
    BY <1>4, <1>6, <2>1
  <2>4. \A i \in 1..(4 - 1) : s[i] = t[i]
    BY <1>4, <2>1
  <2>5. DiffersAt(s, t, 4)
    BY <2>2, <2>3, <2>4 DEF DiffersAt
  <2> QED
    BY <2>5
<1>7. CASE n # 3 /\ m = mm /\ u < uu
  <2>1. nn >= 6 /\ uu > 0
    BY <1>1, <1>7 DEF CountOf
  <2>2. n = 5 \/ n >= 6
    BY <1>1, <1>7 DEF CountOf
  <2>3. t[5] = uu /\ ((n = 5 /\ s[5] = Plus) \/ (n >= 6 /\ s[5] = u))
    BY <1>4, <2>1, <2>2
  <2>4. DiffersAt(s, t, 5)
    BY <1>3, <1>4, <1>7, <2>1, <2>3, SMTT(30) DEF DiffersAt, Plus
  <2> QED
    BY <2>4
<1>8. CASE n # 3 /\ m = mm /\ u = uu /\ v < vv
  <2>1. nn = 7 /\ vv > 0
    BY <1>1, <1>8 DEF CountOf
  <2>2. t[5] = uu /\ t[6] = vv
    BY <1>4, <2>1
  <2>3. CASE n = 5
    <3>1. s[5] = Plus
      BY <1>4, <2>3
    <3>2. DiffersAt(s, t, 5)
      BY <1>4, <1>8, <2>1, <2>2, <2>3, <3>1 DEF DiffersAt, Plus
    <3> QED
      BY <3>2
  <2>4. CASE n # 5
    <3>1. (n = 6 /\ s[6] = Plus) \/ (n = 7 /\ s[6] = v)
      BY <1>1, <1>4, <1>8, <2>4 DEF CountOf
    <3>2. n >= 6 /\ s[5] = u
      BY <1>4, <3>1, SMTT(30)
    <3>3. s[3] = t[3] /\ s[4] = t[4] /\ s[5] = t[5]
      BY <1>4, <1>8, <2>2, <3>2
    <3>4. s[6] < t[6]
      BY <1>8, <2>1, <2>2, <3>1 DEF Plus
    <3>5. DiffersAt(s, t, 6)
      BY <1>4, <2>1, <3>2, <3>3, <3>4 DEF DiffersAt
    <3> QED
      BY <3>5
  <2> QED
    BY <2>3, <2>4
<1> QED
  BY <1>3, <1>5, <1>6, <1>7, <1>8 DEF Later

NanosecondsLE(m, u, v, mm, uu, vv) ==
    (m * 1000 + u) * 1000 + v <= (mm * 1000 + uu) * 1000 + vv

SameFraction(m, u, v, mm, uu, vv) == m = mm /\ u = uu /\ v = vv

\* Nanoseconds compare as their three fields do.
LEMMA Nanoseconds ==
    ASSUME NEW m \in Thousand, NEW u \in Thousand, NEW v \in Thousand,
           NEW mm \in Thousand, NEW uu \in Thousand, NEW vv \in Thousand
    PROVE  NanosecondsLE(m, u, v, mm, uu, vv)
             <=> Later(m, u, v, mm, uu, vv) \/ SameFraction(m, u, v, mm, uu, vv)
  BY DEF NanosecondsLE, Later, SameFraction, Thousand

SoonerFields(y, s, m, u, v, yy, ss, mm, uu, vv) ==
    \/ y < yy
    \/ y = yy /\ s < ss
    \/ y = yy /\ s = ss /\ Later(m, u, v, mm, uu, vv)

AlikeFields(y, s, m, u, v, yy, ss, mm, uu, vv) ==
    y = yy /\ s = ss /\ SameFraction(m, u, v, mm, uu, vv)

\* What NotAfter says, field by field.
Sooner(a, b) ==
    SoonerFields(a.year, a.second, a.milli, a.micro, a.nano,
                 b.year, b.second, b.milli, b.micro, b.nano)

Alike(a, b) ==
    AlikeFields(a.year, a.second, a.milli, a.micro, a.nano,
                b.year, b.second, b.milli, b.micro, b.nano)

\* NotAfter is Sooner or Alike.
LEMMA NotAfterFields ==
    ASSUME NEW a \in Instant, NEW b \in Instant
    PROVE  NotAfter(a, b) <=> Sooner(a, b) \/ Alike(a, b)
<1>1. Fields(a) /\ Fields(b)
  BY InstantFields
<1>2. NanosecondsLE(a.milli, a.micro, a.nano, b.milli, b.micro, b.nano)
        <=> \/ Later(a.milli, a.micro, a.nano, b.milli, b.micro, b.nano)
            \/ SameFraction(a.milli, a.micro, a.nano, b.milli, b.micro, b.nano)
  <2>1. /\ a.milli \in Thousand /\ a.micro \in Thousand /\ a.nano \in Thousand
        /\ b.milli \in Thousand /\ b.micro \in Thousand /\ b.nano \in Thousand
    BY <1>1 DEF Fields
  <2> QED
    BY <2>1, Nanoseconds, Zenon
<1>3. Nanosecond(a) <= Nanosecond(b)
        <=> NanosecondsLE(a.milli, a.micro, a.nano, b.milli, b.micro, b.nano)
  BY DEF Nanosecond, NanosecondsLE
<1> QED
  BY <1>2, <1>3, Zenon DEF NotAfter, Sooner, SoonerFields, Alike, AlikeFields

\* Of any two lists of fields one is sooner, or they are alike ...
LEMMA FieldsDecide ==
    ASSUME NEW y \in Int, NEW s \in Int, NEW yy \in Int, NEW ss \in Int,
           NEW m \in Int, NEW u \in Int, NEW v \in Int,
           NEW mm \in Int, NEW uu \in Int, NEW vv \in Int
    PROVE  \/ SoonerFields(y, s, m, u, v, yy, ss, mm, uu, vv)
           \/ SoonerFields(yy, ss, mm, uu, vv, y, s, m, u, v)
           \/ AlikeFields(y, s, m, u, v, yy, ss, mm, uu, vv)
  BY DEF SoonerFields, AlikeFields, SameFraction, Later

\* ... and not more than one of these.
LEMMA FieldsDecideOnce ==
    ASSUME NEW y \in Int, NEW s \in Int, NEW yy \in Int, NEW ss \in Int,
           NEW m \in Int, NEW u \in Int, NEW v \in Int,
           NEW mm \in Int, NEW uu \in Int, NEW vv \in Int,
           SoonerFields(y, s, m, u, v, yy, ss, mm, uu, vv)
    PROVE  /\ ~SoonerFields(yy, ss, mm, uu, vv, y, s, m, u, v)
           /\ ~AlikeFields(yy, ss, mm, uu, vv, y, s, m, u, v)
  BY DEF SoonerFields, AlikeFields, SameFraction, Later

\* The fields as integers.
Integral(t) ==
    /\ t.year \in Int /\ t.second \in Int
    /\ t.milli \in Int /\ t.micro \in Int /\ t.nano \in Int

\* The fields of an instant are integers.
LEMMA InstantIntegral ==
    ASSUME NEW t \in Instant
    PROVE  Integral(t)
<1>1. \A n \in Thousand : n \in Int
  BY Thousands
<1>2. /\ t.year \in Int /\ t.second \in Int
      /\ t.milli \in Thousand /\ t.micro \in Thousand /\ t.nano \in Thousand
  BY InstantFields DEF Fields
<1> QED
  BY <1>1, <1>2, Zenon DEF Integral

\* Of two instants one is sooner, or they are alike ...
LEMMA Linear ==
    ASSUME NEW a \in Instant, NEW b \in Instant
    PROVE  Sooner(a, b) \/ Sooner(b, a) \/ Alike(a, b)
<1>1. /\ a.year \in Int /\ a.second \in Int
      /\ a.milli \in Int /\ a.micro \in Int /\ a.nano \in Int
  BY InstantIntegral DEF Integral
<1>2. /\ b.year \in Int /\ b.second \in Int
      /\ b.milli \in Int /\ b.micro \in Int /\ b.nano \in Int
  BY InstantIntegral DEF Integral
<1> QED
  BY <1>1, <1>2, FieldsDecide DEF Sooner, Alike

\* ... and of two instants only one is the sooner.
LEMMA Antisymmetric ==
    ASSUME NEW a \in Instant, NEW b \in Instant, Sooner(a, b)
    PROVE  ~Sooner(b, a) /\ ~Alike(b, a)
<1>1. /\ a.year \in Int /\ a.second \in Int
      /\ a.milli \in Int /\ a.micro \in Int /\ a.nano \in Int
  BY InstantIntegral DEF Integral
<1>2. /\ b.year \in Int /\ b.second \in Int
      /\ b.milli \in Int /\ b.micro \in Int /\ b.nano \in Int
  BY InstantIntegral DEF Integral
<1> QED
  BY <1>1, <1>2, FieldsDecideOnce DEF Sooner, Alike

\* The text of the sooner fields is smaller where the two first differ.
LEMMA SignsDiffer ==
    ASSUME NEW y \in Int, NEW sec \in Int, NEW yy \in Int, NEW ssec \in Int,
           NEW m \in Nat, NEW u \in Nat, NEW v \in Nat,
           NEW mm \in Nat, NEW uu \in Nat, NEW vv \in Nat,
           NEW s, NEW t, NEW n \in Nat, NEW nn \in Nat,
           SignsOf(s, n, y, sec, m, u, v), SignsOf(t, nn, yy, ssec, mm, uu, vv),
           SoonerFields(y, sec, m, u, v, yy, ssec, mm, uu, vv)
    PROVE  \E k \in Nat : DiffersAt(s, t, k)
<1>1. n >= 3 /\ nn >= 3
  <2>1. CountOf(n, m, u, v) /\ CountOf(nn, mm, uu, vv)
    BY Zenon DEF SignsOf
  <2> QED
    BY <2>1 DEF CountOf
<1>2. /\ n = Len(s) /\ s[1] = y /\ s[2] = sec
      /\ nn = Len(t) /\ t[1] = yy /\ t[2] = ssec
  BY DEF SignsOf
<1>3. CASE y < yy
  <2>1. DiffersAt(s, t, 1)
    BY <1>1, <1>2, <1>3 DEF DiffersAt
  <2> QED
    BY <2>1
<1>4. CASE y = yy /\ sec < ssec
  <2>1. DiffersAt(s, t, 2)
    BY <1>1, <1>2, <1>4 DEF DiffersAt
  <2> QED
    BY <2>1
<1>5. CASE y = yy /\ sec = ssec /\ Later(m, u, v, mm, uu, vv)
  BY <1>5, LaterFraction
<1> QED
  BY <1>3, <1>4, <1>5 DEF SoonerFields

\* The same of instants and their texts.
LEMMA SoonerTextDiffers ==
    ASSUME NEW a, NEW b, FourDigitYear(a), FourDigitYear(b), Sooner(a, b)
    PROVE  \E k \in Nat : DiffersAt(Text(a), Text(b), k)
<1> DEFINE s == Text(a)
           t == Text(b)
<1>1. Fields(a) /\ Fields(b)
  BY InstantFields DEF FourDigitYear
<1>2. \A n \in Thousand : n \in Nat
  BY Thousands
<1>3. /\ a.year \in Int /\ a.second \in Int /\ b.year \in Int /\ b.second \in Int
      /\ a.milli \in Nat /\ a.micro \in Nat /\ a.nano \in Nat
      /\ b.milli \in Nat /\ b.micro \in Nat /\ b.nano \in Nat
  BY <1>1, <1>2, Zenon DEF Fields
<1>4. PICK n \in Nat : SignsOf(s, n, a.year, a.second, a.milli, a.micro, a.nano)
  BY TextSigns
<1>5. PICK nn \in Nat : SignsOf(t, nn, b.year, b.second, b.milli, b.micro, b.nano)
  BY TextSigns
<1>6. SoonerFields(a.year, a.second, a.milli, a.micro, a.nano,
                   b.year, b.second, b.milli, b.micro, b.nano)
  BY DEF Sooner
<1> HIDE DEF s, t
<1>7. \E k \in Nat : DiffersAt(s, t, k)
  BY <1>3, <1>4, <1>5, <1>6, SignsDiffer
<1> QED
  BY <1>7 DEF s, t

\* Instants with the same fields are one instant.
LEMMA AlikeSame ==
    ASSUME NEW a \in Instant, NEW b \in Instant, Alike(a, b)
    PROVE  a = b
  BY DEF Alike, AlikeFields, SameFraction, Instant

-----------------------------------------------------------------------------
\* Two instants compare as their recorded_at texts do, whatever fraction each
\* text shows: the window of analyze and the newest row of recent are found by
\* comparing texts (src/storage.rs).
THEOREM TextOrder ==
    ASSUME NEW a, NEW b, FourDigitYear(a), FourDigitYear(b)
    PROVE  TextLE(Text(a), Text(b)) <=> NotAfter(a, b)
<1>1. a \in Instant /\ b \in Instant
  BY DEF FourDigitYear
<1>2. Text(a) \in Seq(Int) /\ Text(b) \in Seq(Int)
  BY TextSigns DEF SignsOf
<1>3. CASE Sooner(a, b)
  <2>1. TextLE(Text(a), Text(b))
    BY <1>2, <1>3, SoonerTextDiffers, DiffersTextLE
  <2> QED
    BY <1>1, <1>3, <2>1, NotAfterFields
<1>4. CASE Sooner(b, a)
  <2>1. ~TextLE(Text(a), Text(b))
    BY <1>2, <1>4, SoonerTextDiffers, DiffersTextLE
  <2>2. ~Sooner(a, b) /\ ~Alike(a, b)
    BY <1>1, <1>4, Antisymmetric
  <2> QED
    BY <1>1, <2>1, <2>2, NotAfterFields
<1>5. CASE Alike(a, b)
  <2>1. a = b
    BY <1>1, <1>5, AlikeSame
  <2>2. TextLE(Text(a), Text(a))
    BY <1>2 DEF TextLE
  <2> QED
    BY <1>1, <1>5, <2>1, <2>2, NotAfterFields
<1> QED
  BY <1>1, <1>3, <1>4, <1>5, Linear

-----------------------------------------------------------------------------
Begins(text, ys, s, f) == text = ys \o <<s>> \o f \o Offset

\* A text begins as the text of its year does.
LEMMA FirstSign ==
    ASSUME NEW ys \in Seq(Int), Len(ys) >= 1, NEW s \in Int, NEW f \in Seq(Int),
           NEW text, Begins(text, ys, s, f)
    PROVE  text \in Seq(Int) /\ Len(text) >= 1 /\ text[1] = ys[1]
<1> DEFINE b == <<s>>
           yb == ys \o b
           ybf == yb \o f
           w == ybf \o Offset
<1>1. b \in Seq(Int)
  OBVIOUS
<1>2. Offset \in Seq(Int)
  BY DEF Offset, Plus
<1>3. text = w
  BY DEF Begins
<1> HIDE DEF b
<1>4. yb \in Seq(Int) /\ Len(yb) >= 1 /\ yb[1] = ys[1]
  <2>1. /\ yb \in Seq(Int)
        /\ Len(yb) = Len(ys) + Len(b)
        /\ \A i \in 1..Len(ys) : yb[i] = ys[i]
    BY <1>1, Joined
  <2>2. Len(ys) \in Nat /\ Len(b) \in Nat
    BY <1>1
  <2> HIDE DEF yb
  <2> QED
    BY <2>1, <2>2
<1> HIDE DEF yb
<1>5. ybf \in Seq(Int) /\ Len(ybf) >= 1 /\ ybf[1] = ys[1]
  <2>1. /\ ybf \in Seq(Int)
        /\ Len(ybf) = Len(yb) + Len(f)
        /\ \A i \in 1..Len(yb) : ybf[i] = yb[i]
    BY <1>4, Joined
  <2>2. Len(yb) \in Nat /\ Len(f) \in Nat
    BY <1>4
  <2> HIDE DEF ybf
  <2> QED
    BY <1>4, <2>1, <2>2
<1> HIDE DEF ybf
<1>6. w \in Seq(Int) /\ Len(w) >= 1 /\ w[1] = ys[1]
  <2>1. /\ w \in Seq(Int)
        /\ Len(w) = Len(ybf) + Len(Offset)
        /\ \A i \in 1..Len(ybf) : w[i] = ybf[i]
    BY <1>2, <1>5, Joined
  <2>2. Len(ybf) \in Nat /\ Len(Offset) \in Nat
    BY <1>2, <1>5
  <2> HIDE DEF w
  <2> QED
    BY <1>5, <2>1, <2>2
<1> QED
  BY <1>3, <1>6

\* The years on either side of those of four digits.
Early(y) == y < 0
Late(y)  == y > 9999

\* A year of four digits lies after the early and before the late ones.
LEMMA Years ==
    ASSUME NEW y \in Int
    PROVE  /\ y \in FourDigits <=> ~Early(y) /\ ~Late(y)
           /\ Early(y) => \A z \in FourDigits : y < z
           /\ Late(y) => \A z \in FourDigits : z < y
<1>1. y \in FourDigits <=> ~Early(y) /\ ~Late(y)
  BY DEF FourDigits, Early, Late
<1>2. ASSUME Early(y), NEW z \in FourDigits PROVE y < z
  BY <1>2 DEF FourDigits, Early
<1>3. ASSUME Late(y), NEW z \in FourDigits PROVE z < y
  BY <1>3 DEF FourDigits, Late
<1> QED
  BY <1>1, <1>2, <1>3

\* Of two years only one is the earlier.
LEMMA YearsOnce ==
    ASSUME NEW y \in Int, NEW z \in Int, y < z
    PROVE  ~(z < y) /\ y # z
  OBVIOUS

\* The year of an instant is an integer.
LEMMA InstantYear ==
    ASSUME NEW t \in Instant
    PROVE  t.year \in Int
  BY DEF Instant

\* Where the years differ they decide.
LEMMA YearDecides ==
    ASSUME NEW a \in Instant, NEW b \in Instant, a.year < b.year
    PROVE  NotAfter(a, b) /\ ~NotAfter(b, a)
<1>1. a.year \in Int /\ b.year \in Int
  BY InstantYear
<1>2. ~(b.year < a.year) /\ a.year # b.year
  BY <1>1, YearsOnce, Zenon
<1> QED
  BY <1>2, Zenon DEF NotAfter

\* The text of a year that needs a sign comes before all that need none.
LEMMA SignedFirst ==
    ASSUME NEW a \in Instant, a.year \notin FourDigits, NEW b, FourDigitYear(b)
    PROVE  TextLE(Text(a), Text(b)) /\ ~TextLE(Text(b), Text(a))
<1> DEFINE ys == YearSigns(a.year)
           f == FractionSigns(a)
           s == Text(a)
           t == Text(b)
<1>1. a.year \in Int /\ a.second \in Int
  BY InstantFields DEF Fields
<1>2. ys \in Seq(Int) /\ Len(ys) >= 1 /\ ys[1] < 0
  <2>1. CASE a.year < 0
    <3>1. ys = <<Minus, -a.year>>
      BY <2>1 DEF YearSigns
    <3> QED
      BY <1>1, <3>1 DEF Minus
  <2>2. CASE ~(a.year < 0)
    <3>1. ys = <<Plus, a.year>>
      BY <2>2 DEF YearSigns
    <3> QED
      BY <1>1, <3>1 DEF Plus
  <2> QED
    BY <2>1, <2>2
<1>3. f \in Seq(Int)
  BY Fractions DEF FractionOf
<1>4. s = ys \o <<a.second>> \o f \o Offset
  BY DEF Text
<1> HIDE DEF ys, f, s
<1>5. s \in Seq(Int) /\ Len(s) >= 1 /\ s[1] = ys[1]
  <2> DEFINE sec == a.second
  <2>1. sec \in Int /\ Begins(s, ys, sec, f)
    BY <1>1, <1>4 DEF Begins
  <2> HIDE DEF sec
  <2> QED
    BY <1>2, <1>3, <2>1, FirstSign
<1>6. PICK n \in Nat :
        SignsOf(t, n, b.year, b.second, b.milli, b.micro, b.nano)
  BY TextSigns
<1>7. t \in Seq(Int) /\ n = Len(t) /\ t[1] = b.year
  BY <1>6 DEF SignsOf
<1>8. n >= 3
  <2>1. CountOf(n, b.milli, b.micro, b.nano)
    BY <1>6, Zenon DEF SignsOf
  <2> QED
    BY <2>1 DEF CountOf
<1> DEFINE sign == ys[1]
<1>9. \A z \in FourDigits : sign < z
  <2>1. sign \in Int /\ sign < 0
    BY <1>2
  <2> HIDE DEF sign
  <2> QED
    BY <2>1, Years DEF Early
<1> HIDE DEF t
<1>10. DiffersAt(s, t, 1)
  <2>1. Len(s) \in Nat /\ Len(t) \in Nat /\ Len(t) >= 1
    BY <1>5, <1>7, <1>8
  <2>2. 1 \in 1..Len(s) /\ 1 \in 1..Len(t)
    BY <1>5, <2>1
  <2>3. s[1] < t[1]
    BY <1>5, <1>7, <1>9, Zenon DEF FourDigitYear
  <2>4. \A i \in 1..(1 - 1) : s[i] = t[i]
    OBVIOUS
  <2> QED
    BY <2>2, <2>3, <2>4, Zenon DEF DiffersAt
<1>11. TextLE(s, t) /\ ~TextLE(t, s)
  BY <1>5, <1>7, <1>10, DiffersTextLE
<1> QED
  BY <1>11 DEF s, t

\* What the query finds, against what the window says.
LEMMA RowFound ==
    ASSUME NEW from \in Instant, NEW to \in Instant, ~NotAfter(to, from),
           NEW t, FourDigitYear(t)
    PROVE  TextLE(Text(from), Text(t)) /\ TextLE(Text(t), Text(to))
             <=> /\ NotAfter(from, t)
                 /\ NotAfter(t, to)
                 /\ to.year \in FourDigits \/ Late(from.year)
<1>1. t \in Instant /\ t.year \in FourDigits
  BY DEF FourDigitYear
<1>2. from.year \in Int /\ to.year \in Int
  BY InstantYear
<1>3. ASSUME Late(from.year) PROVE ~NotAfter(from, t)
  BY <1>1, <1>2, <1>3, Years, YearDecides, Zenon
<1>4. CASE to.year \notin FourDigits
  <2>1. ~TextLE(Text(t), Text(to))
    BY <1>4, SignedFirst
  <2>2. ASSUME Early(to.year) PROVE ~NotAfter(t, to)
    BY <1>1, <1>2, <2>2, Years, YearDecides, Zenon
  <2>3. Early(to.year) \/ Late(to.year)
    BY <1>2, <1>4, Years, Zenon
  <2> QED
    BY <1>3, <1>4, <2>1, <2>2, <2>3, Zenon
<1>5. CASE to.year \in FourDigits
  <2>1. TextLE(Text(t), Text(to)) <=> NotAfter(t, to)
    BY <1>5, TextOrder DEF FourDigitYear
  <2>2. ~(Late(from.year))
    BY <1>2, <1>5, Years, YearDecides, Zenon
  <2>3. CASE Early(from.year)
    <3>1. from.year \notin FourDigits
      BY <1>2, <2>3, Years, Zenon
    <3>2. TextLE(Text(from), Text(t))
      BY <3>1, SignedFirst
    <3>3. NotAfter(from, t)
      BY <1>1, <1>2, <2>3, Years, YearDecides, Zenon
    <3> QED
      BY <1>5, <2>1, <3>2, <3>3
  <2>4. CASE ~(Early(from.year))
    <3>1. from.year \in FourDigits
      BY <1>2, <2>2, <2>4, Years, Zenon
    <3>2. TextLE(Text(from), Text(t)) <=> NotAfter(from, t)
      BY <3>1, TextOrder DEF FourDigitYear
    <3> QED
      BY <1>5, <2>1, <3>2
  <2> QED
    BY <2>3, <2>4
<1> QED
  BY <1>4, <1>5

-----------------------------------------------------------------------------
\* A stored text is that of the reading's own instant, which the clock showed,
\* and an answer is what the query found in a window that is not empty.
Inv ==
    /\ TypeOK
    /\ \A r \in rows : r.at = Text(r.taken)
    /\ window # NoWindow => /\ ~NotAfter(window.to, window.from)
                            /\ covered = Matching(window.from, window.to)

Seconds == 0..(YearLength - 1)

LEMMA InstantRecord ==
    Instant = [year: Int, second: Seconds,
               milli: Thousand, micro: Thousand, nano: Thousand]
  BY DEF Instant, Seconds, Thousand

\* An instant in another year, or at another second, is an instant.
LEMMA YearMoved ==
    ASSUME NEW t \in Instant, NEW y \in Int
    PROVE  [t EXCEPT !.year = y] \in Instant
  BY InstantRecord

LEMMA SecondMoved ==
    ASSUME NEW t \in Instant, NEW n \in Seconds
    PROVE  [t EXCEPT !.second = n] \in Instant
  BY InstantRecord

\* A day earlier is an instant too, in this year or in the one before.
LEMMA DayBeforeInstant ==
    ASSUME NEW t \in Instant
    PROVE  DayBefore(t) \in Instant
<1>1. t.year \in Int /\ t.second \in 0..(YearLength - 1)
  BY InstantRecord DEF Seconds
<1>2. YearLength \in Nat /\ Day \in 1..YearLength
  BY CalendarAssumption
<1>3. CASE t.second >= Day
  <2>1. PICK n : n = t.second - Day
    OBVIOUS
  <2>2. n \in Seconds
    BY <1>1, <1>2, <1>3, <2>1 DEF Seconds
  <2>3. DayBefore(t) = [t EXCEPT !.second = n]
    BY <1>3, <2>1 DEF DayBefore
  <2> QED
    BY <2>2, <2>3, SecondMoved
<1>4. CASE ~(t.second >= Day)
  <2>1. PICK y, n : y = t.year - 1 /\ n = t.second + YearLength - Day
    OBVIOUS
  <2>2. y \in Int /\ n \in Seconds
    BY <1>1, <1>2, <1>4, <2>1 DEF Seconds
  <2>3. PICK u : u = [t EXCEPT !.year = y]
    OBVIOUS
  <2>4. u \in Instant
    BY <2>2, <2>3, YearMoved
  <2>5. DayBefore(t) = [u EXCEPT !.second = n]
    <3>1. DayBefore(t) = [t EXCEPT !.year = y, !.second = n]
      BY <1>4, <2>1 DEF DayBefore
    <3> QED
      BY <2>3, <3>1, InstantRecord
  <2> QED
    BY <2>2, <2>4, <2>5, SecondMoved
<1> QED
  BY <1>3, <1>4

\* A window runs between instants, whoever gave them.
LEMMA WindowInstants ==
    ASSUME NEW p \in Params, NEW now \in ClockTimes
    PROVE  Window(p, now).from \in Instant /\ Window(p, now).to \in Instant
<1>1. \A t \in Times : t \in Instant
  BY TimesAssumption
<1>2. now \in Instant
  BY <1>1 DEF ClockTimes
<1>3. /\ p.from = Absent \/ p.from \in Times
      /\ p.to = Absent \/ p.to \in Times
  BY DEF Params
<1> DEFINE to == IF p.to = Absent THEN now ELSE p.to
           from == IF p.from = Absent THEN DayBefore(to) ELSE p.from
<1>4. to \in Instant
  BY <1>1, <1>2, <1>3
<1>5. DayBefore(to) \in Instant
  BY <1>4, DayBeforeInstant
<1>6. from \in Instant
  BY <1>1, <1>3, <1>5
<1>7. Window(p, now) = [from |-> from, to |-> to]
  BY DEF Window
<1> HIDE DEF from, to
<1> QED
  BY <1>4, <1>6, <1>7

\* Inv holds of the empty table.
LEMMA InitInv == Init => Inv
  BY DEF Init, Inv, TypeOK

\* Every step keeps Inv.
LEMMA NextInv == Inv /\ [Next]_vars => Inv'
<1> SUFFICES ASSUME Inv, [Next]_vars PROVE Inv'
  OBVIOUS
<1>1. ASSUME NEW s \in Found, NEW t \in ClockTimes, Insert(s, t) PROVE Inv'
  <2> DEFINE new == [name |-> SensorName(s), at |-> Text(t), of |-> s, taken |-> t]
  <2>1. new.of = s /\ new.taken = t /\ new.at = Text(t)
    OBVIOUS
  <2> HIDE DEF new
  <2>2. /\ rows' = rows \union {new}
        /\ window' = window /\ covered' = covered /\ window = NoWindow
    BY <1>1 DEF Insert, new
  <2> QED
    BY <2>1, <2>2 DEF Inv, TypeOK
<1>2. ASSUME NEW p \in Params, NEW now \in ClockTimes, Analyze(p, now) PROVE Inv'
  <2> DEFINE w == Window(p, now)
  <2>1. w.from \in Instant /\ w.to \in Instant
    BY WindowInstants
  <2> HIDE DEF w
  <2>2. /\ ~NotAfter(w.to, w.from)
        /\ window' = w /\ covered' = Matching(w.from, w.to) /\ rows' = rows
    BY <1>2 DEF Analyze, w
  <2>3. Matching(w.from, w.to) \subseteq rows
    BY DEF Matching
  <2>4. Matching(w.from, w.to)' = Matching(w.from, w.to)
    BY <2>2 DEF Matching
  <2> QED
    BY <2>1, <2>2, <2>3 DEF Inv, TypeOK, Matching
<1>3. CASE Answered
  BY <1>3 DEF Answered, Inv, TypeOK
<1>4. CASE UNCHANGED vars
  BY <1>4 DEF vars, Inv, TypeOK, Matching
<1> QED
  BY <1>1, <1>2, <1>3, <1>4 DEF Next

\* Inv is more than WindowByInstant.
LEMMA InvCovers == Inv => WindowByInstant
<1> SUFFICES ASSUME Inv, window # NoWindow PROVE WindowByInstant
  BY DEF WindowByInstant
<1> DEFINE Inside(r) == /\ NotAfter(window.from, r.taken)
                        /\ NotAfter(r.taken, window.to)
                        /\ window.to.year \in FourDigits \/ Late(window.from.year)
<1>1. /\ window.from \in Instant /\ window.to \in Instant
      /\ ~NotAfter(window.to, window.from)
  BY DEF Inv, TypeOK
<1>2. ASSUME NEW r \in rows
      PROVE  TextLE(Text(window.from), r.at) /\ TextLE(r.at, Text(window.to))
               <=> Inside(r)
  <2>1. r.at = Text(r.taken)
    BY DEF Inv
  <2>2. FourDigitYear(r.taken)
    BY TimesAssumption DEF Inv, TypeOK, ClockTimes, FourDigitYear
  <2> QED
    BY <1>1, <2>1, <2>2, RowFound, Zenon
<1>3. Matching(window.from, window.to) = { r \in rows : Inside(r) }
  BY <1>2, Zenon DEF Matching
<1>4. covered = { r \in rows : Inside(r) }
  BY <1>3 DEF Inv
<1> QED
  BY <1>4 DEF WindowByInstant, Late

\* Rows are of sensors that were found, and a window that runs from a day before
\* its end still begins at an instant (analyze_temperature, src/mcp/server.rs).
THEOREM RecordedTypeOK == Spec => []TypeOK
<1>1. Inv => TypeOK
  BY DEF Inv
<1> QED
  BY InitInv, NextInv, <1>1, PTL DEF Spec

\* An analysis covers exactly the readings taken inside its window, although
\* analyze compares texts (src/storage.rs): for every set of instants, every
\* machine and every number of rows.
THEOREM WindowCovered == Spec => []WindowByInstant
  BY InitInv, NextInv, InvCovers, PTL DEF Spec

-----------------------------------------------------------------------------
\* Names: what their signs say of the parts they were put together from.

Alphabet == Words \union {":", "hwmon", "nvidia", "temp"}

Named(text) == text \in Seq(Alphabet)

Joins(text, s, t) ==
    /\ Named(text)
    /\ Len(s) \in Nat /\ Len(t) \in Nat
    /\ Len(text) = Len(s) + Len(t)
    /\ \A i \in 1..Len(s) : text[i] = s[i]
    /\ \A i \in 1..Len(t) : text[Len(s) + i] = t[i]

LEMMA JoinedName ==
    ASSUME NEW s, Named(s), NEW t, Named(t), NEW text, text = s \o t
    PROVE  Joins(text, s, t)
  BY DEF Named, Joins

LEMMA SameName ==
    ASSUME NEW s, Named(s), NEW t, Named(t), Len(s) = Len(t),
           \A i \in 1..Len(s) : s[i] = t[i]
    PROVE  s = t
  BY DEF Named

PutTogether(text, a, b) == text = a \o b

Same(a, c, b, d) == a = c /\ b = d

\* Two names whose first parts are of one length have both parts in common.
LEMMA SameParts ==
    ASSUME NEW a, Named(a), NEW b, Named(b), NEW c, Named(c), NEW d, Named(d),
           Len(a) = Len(c), NEW text, PutTogether(text, a, b), PutTogether(text, c, d)
    PROVE  Same(a, c, b, d)
<1>1. Joins(text, a, b) /\ Joins(text, c, d)
  BY JoinedName DEF PutTogether
<1>2. Len(b) = Len(d)
  BY <1>1 DEF Joins
<1>3. \A i \in 1..Len(a) : a[i] = c[i]
  BY <1>1 DEF Joins
<1>4. \A i \in 1..Len(b) : b[i] = d[i]
  BY <1>1, <1>2 DEF Joins
<1>5. a = c
  BY <1>3, SameName
<1>6. b = d
  BY <1>2, <1>4, SameName
<1> QED
  BY <1>5, <1>6 DEF Same

LEMMA ColonNamed == Named(Colon) /\ Len(Colon) = 1 /\ Colon[1] = ":"
<1>1. ":" \in Alphabet
  BY DEF Alphabet
<1> QED
  BY <1>1 DEF Colon, Named

\* A name that goes on with a colon after its first parts.
LEMMA ColonAfter ==
    ASSUME NEW s, Named(s), NEW text, PutTogether(text, s, Colon)
    PROVE  /\ Named(text) /\ Len(s) \in Nat /\ Len(text) = Len(s) + 1
           /\ \A i \in 1..Len(s) : text[i] = s[i]
           /\ text[Len(s) + 1] = ":"
<1>1. Joins(text, s, Colon)
  BY ColonNamed, JoinedName DEF PutTogether
<1> QED
  BY <1>1, ColonNamed DEF Joins

\* A name of two parts with a colon between them, after p.
Split(text, p, a, b) == text = p \o a \o Colon \o b

\* A sequence is its first i - 1 signs, its sign i and what follows.
Around(c, i, front, one, rest) ==
    /\ front = SubSeq(c, 1, i - 1)
    /\ one = <<c[i]>>
    /\ rest = SubSeq(c, i + 1, Len(c))

LEMMA Parted ==
    ASSUME NEW c, Named(c), NEW i \in 1..Len(c),
           NEW front, NEW one, NEW rest, Around(c, i, front, one, rest)
    PROVE  /\ Named(front) /\ Len(front) = i - 1 /\ Named(rest)
           /\ Named(one) /\ Len(one) = 1 /\ one[1] = c[i]
           /\ \E fo : PutTogether(fo, front, one) /\ PutTogether(c, fo, rest)
<1>0. front = SubSeq(c, 1, i - 1) /\ one = <<c[i]>> /\ rest = SubSeq(c, i + 1, Len(c))
  BY DEF Around
<1>1. Len(c) \in Nat /\ c \in Seq(Alphabet) /\ c[i] \in Alphabet
  BY DEF Named
<1>2. /\ front \in Seq(Alphabet) /\ Len(front) = i - 1
      /\ \A k \in 1..(i - 1) : front[k] = c[k]
  BY <1>0, <1>1
<1>3. /\ rest \in Seq(Alphabet) /\ Len(rest) = Len(c) - i
      /\ \A k \in 1..(Len(c) - i) : rest[k] = c[i + k]
  BY <1>0, <1>1
<1>4. one \in Seq(Alphabet) /\ Len(one) = 1 /\ one[1] = c[i]
  BY <1>0, <1>1
<1>5. PICK fo : fo = front \o one
  OBVIOUS
<1>6. Joins(fo, front, one)
  BY <1>2, <1>4, <1>5, JoinedName DEF Named
<1>7. PICK whole : whole = fo \o rest
  OBVIOUS
<1>8. Joins(whole, fo, rest)
  <2>1. Named(fo) /\ Named(rest)
    BY <1>3, <1>6 DEF Named, Joins
  <2> QED
    BY <1>7, <2>1, JoinedName
<1>9. Named(whole) /\ Len(whole) = Len(c)
  BY <1>1, <1>2, <1>3, <1>4, <1>6, <1>8 DEF Joins
<1>10. ASSUME NEW k \in 1..Len(c) PROVE c[k] = whole[k]
  <2>1. CASE k < i
    BY <1>1, <1>2, <1>4, <1>6, <1>8, <2>1 DEF Joins
  <2>2. CASE k = i
    <3>1. 1 \in 1..Len(one) /\ Len(front) + 1 = i /\ i \in 1..Len(fo)
      BY <1>1, <1>2, <1>4, <1>6 DEF Joins
    <3>2. fo[i] = c[i]
      BY <1>4, <1>6, <3>1 DEF Joins
    <3> QED
      BY <1>8, <2>2, <3>1, <3>2 DEF Joins
  <2>3. CASE k > i
    <3>1. PICK m \in Nat : m = k - i /\ m \in 1..Len(rest) /\ k = Len(fo) + m /\ k = i + m
      BY <1>1, <1>2, <1>3, <1>4, <1>6, <2>3 DEF Joins
    <3>2. whole[k] = rest[m]
      BY <1>8, <3>1 DEF Joins
    <3>3. m \in 1..(Len(c) - i)
      BY <1>1, <1>3, <3>1
    <3>4. rest[m] = c[k]
      BY <1>3, <3>1, <3>3
    <3> QED
      BY <3>2, <3>4
  <2> QED
    BY <1>1, <2>1, <2>2, <2>3
<1>11. c = whole
  BY <1>9, <1>10, SameName
<1> QED
  BY <1>2, <1>3, <1>4, <1>5, <1>7, <1>11 DEF Named, PutTogether

LEMMA Associative ==
    ASSUME NEW s, Named(s), NEW t, Named(t), NEW u, Named(u),
           NEW st, PutTogether(st, s, t), NEW tu, PutTogether(tu, t, u), NEW text
    PROVE  /\ Named(st) /\ Named(tu)
           /\ PutTogether(text, st, u) <=> PutTogether(text, s, tu)
<1>1. (s \o t) \o u = s \o (t \o u)
  BY ConcatAssociative DEF Named
<1>2. st \o u = s \o tu
  BY <1>1 DEF PutTogether
<1>3. Named(st) /\ Named(tu)
  BY JoinedName DEF PutTogether, Joins
<1> QED
  BY <1>2, <1>3 DEF PutTogether

\* Of one name split twice, the second part that is longer holds the colon at
\* which the other ends, and the rest of it is part of the other's last part.
Moved(a, b, c, d) ==
    \E i \in DOMAIN c :
      /\ c[i] = ":"
      /\ a = SubSeq(c, 1, i - 1)
      /\ b = SubSeq(c, i + 1, Len(c)) \o Colon \o d

LEMMA LongerHoldsColon ==
    ASSUME NEW p, Named(p), NEW a, Named(a), NEW b, Named(b), NEW c, Named(c),
           NEW d, Named(d), Len(a) < Len(c),
           NEW text, Split(text, p, a, b), Split(text, p, c, d)
    PROVE  Moved(a, b, c, d)
<1>1. PICK i \in 1..Len(c) : i = Len(a) + 1 /\ Len(a) = i - 1
  BY DEF Named
<1>2. PICK front, one, rest : Around(c, i, front, one, rest)
  BY DEF Around
<1>3. /\ Named(front) /\ Len(front) = Len(a) /\ Named(rest)
      /\ Named(one) /\ Len(one) = 1 /\ one[1] = c[i]
      /\ \E fo : PutTogether(fo, front, one) /\ PutTogether(c, fo, rest)
  BY <1>1, <1>2, Parted
<1>4. PICK fo : PutTogether(fo, front, one) /\ PutTogether(c, fo, rest)
  BY <1>3
<1>5. Named(Colon) /\ Len(Colon) = 1 /\ Colon[1] = ":"
  BY ColonNamed
\* The name by its first split, and by its second.
<1>6. PICK pa, pak : PutTogether(pa, p, a) /\ PutTogether(pak, pa, Colon)
                     /\ PutTogether(text, pak, b)
  BY DEF PutTogether, Split
<1>7. PICK pc, pck : PutTogether(pc, p, c) /\ PutTogether(pck, pc, Colon)
                     /\ PutTogether(text, pck, d)
  BY DEF PutTogether, Split
\* The second with its colon inside c at the place of the first one's.
<1>8. PICK pr : PutTogether(pr, p, front)
  BY DEF PutTogether
<1>9. PICK pf : PutTogether(pf, pr, one)
  BY DEF PutTogether
<1>10. PICK rk : PutTogether(rk, rest, Colon)
  BY DEF PutTogether
<1>11. PICK tail : PutTogether(tail, rk, d)
  BY DEF PutTogether
<1>12. Named(fo) /\ Named(pr) /\ PutTogether(pf, p, fo)
  BY <1>3, <1>4, <1>8, <1>9, Associative
<1>13. Named(pf) /\ PutTogether(pc, pf, rest)
  BY <1>3, <1>4, <1>7, <1>12, Associative
<1>14. Named(rk) /\ Named(pc) /\ PutTogether(pck, pf, rk)
  BY <1>3, <1>5, <1>7, <1>10, <1>13, Associative
<1>15. Named(tail) /\ PutTogether(text, pf, tail)
  BY <1>7, <1>11, <1>13, <1>14, Associative
\* Both halves of the name are of one length.
<1>16. Joins(pa, p, a) /\ Joins(pr, p, front)
  BY <1>3, <1>6, <1>8, JoinedName DEF PutTogether
<1>17. Named(pa) /\ Len(pa) = Len(pr)
  BY <1>3, <1>16 DEF Joins
<1>18. Joins(pak, pa, Colon) /\ Joins(pf, pr, one)
  BY <1>3, <1>5, <1>6, <1>9, <1>12, <1>17, JoinedName DEF PutTogether
<1>19. Named(pak) /\ Len(pak) = Len(pf)
  BY <1>3, <1>5, <1>17, <1>18 DEF Joins
<1>20. pak = pf /\ b = tail
  BY <1>6, <1>13, <1>15, <1>19, SameParts DEF Same
<1>21. pa = pr /\ Colon = one
  BY <1>3, <1>5, <1>6, <1>9, <1>12, <1>17, <1>20, SameParts DEF Same
<1>22. a = front
  BY <1>3, <1>6, <1>8, <1>21, SameParts DEF Same
<1>23. c[i] = ":"
  BY <1>3, <1>5, <1>21
<1>24. b = rest \o Colon \o d
  BY <1>10, <1>11, <1>20 DEF PutTogether
<1>25. i \in DOMAIN c
  BY DEF Named
<1> QED
  BY <1>2, <1>22, <1>23, <1>24, <1>25 DEF Around, Moved

\* Parts of one length are the same.
LEMMA SplitOnce ==
    ASSUME NEW p, Named(p), NEW a, Named(a), NEW b, Named(b), NEW c, Named(c),
           NEW d, Named(d), Len(a) = Len(c),
           NEW text, Split(text, p, a, b), Split(text, p, c, d)
    PROVE  Same(a, c, b, d)
<1>3. PICK pa : pa = p \o a
  OBVIOUS
<1>4. PICK pak : pak = pa \o Colon
  OBVIOUS
<1>5. PICK pc : pc = p \o c
  OBVIOUS
<1>6. PICK pck : pck = pc \o Colon
  OBVIOUS
<1>7. PutTogether(text, pak, b) /\ PutTogether(text, pck, d)
  BY <1>3, <1>4, <1>5, <1>6 DEF PutTogether, Split
<1>8. Joins(pa, p, a) /\ Joins(pc, p, c)
  BY <1>3, <1>5, JoinedName
<1>9. Named(pa) /\ Named(pc) /\ Len(pa) = Len(pc)
  BY <1>8 DEF Joins
<1>10. Named(pak) /\ Named(pck) /\ Len(pak) = Len(pck)
  <2>1. PutTogether(pak, pa, Colon) /\ PutTogether(pck, pc, Colon)
    BY <1>4, <1>6 DEF PutTogether
  <2> QED
    BY <1>9, <2>1, ColonAfter
<1>11. Same(pak, pck, b, d)
  BY <1>7, <1>10, SameParts
<1>12. Same(pa, pc, Colon, Colon)
  <2>1. PutTogether(pak, pa, Colon) /\ PutTogether(pak, pc, Colon)
    BY <1>4, <1>6, <1>11 DEF PutTogether, Same
  <2> QED
    BY <1>9, <2>1, ColonNamed, SameParts
<1>13. Same(p, p, a, c)
  <2>1. PutTogether(pa, p, a) /\ PutTogether(pa, p, c)
    BY <1>3, <1>5, <1>12 DEF PutTogether, Same
  <2> QED
    BY <2>1, SameParts
<1> QED
  BY <1>11, <1>13 DEF Same

\* How a text begins.
Starts(text, x) == Named(text) /\ Len(text) >= 1 /\ text[1] = x

LEMMA OneSign ==
    ASSUME NEW x \in Alphabet
    PROVE  Named(<<x>>) /\ Len(<<x>>) = 1 /\ Starts(<<x>>, x)
  BY DEF Named, Starts

LEMMA StartsOn ==
    ASSUME NEW x, NEW s, Starts(s, x), NEW t, Named(t), NEW text, PutTogether(text, s, t)
    PROVE  Starts(text, x)
<1>1. Joins(text, s, t)
  BY JoinedName DEF PutTogether, Starts
<1> QED
  BY <1>1 DEF Joins, Starts

\* A sign and the colon after it.
LEMMA SignColon ==
    ASSUME NEW x \in Alphabet, NEW text, PutTogether(text, <<x>>, Colon)
    PROVE  Starts(text, x) /\ Named(text) /\ Len(text) = 2
<1>1. Starts(text, x)
  BY OneSign, ColonNamed, StartsOn
<1>2. Named(text) /\ Len(text) = 2
  <2>1. PICK one : one = <<x>>
    OBVIOUS
  <2>2. Named(one) /\ Len(one) = 1 /\ PutTogether(text, one, Colon)
    BY <2>1, OneSign
  <2>3. Named(text) /\ Len(text) = Len(one) + 1
    BY <2>2, ColonAfter, Zenon
  <2> QED
    BY <2>2, <2>3
<1> QED
  BY <1>1, <1>2

\* The names that the three sources give.
LEMMA ZoneName ==
    ASSUME NEW s \in Zones
    PROVE  \E front : /\ PutTogether(front, <<s.dir>>, Colon)
                      /\ Starts(front, s.dir) /\ Named(front) /\ Len(front) = 2
                      /\ Named(s.type)
                      /\ PutTogether(SensorName(s), front, s.type)
                      /\ Starts(SensorName(s), s.dir)
<1>1. s.kind = "zone" /\ s.dir \in Alphabet /\ Named(s.type)
  BY DEF Zones, Alphabet, Named
<1>2. PICK front : PutTogether(front, <<s.dir>>, Colon)
  BY DEF PutTogether
<1>3. Starts(front, s.dir) /\ Named(front) /\ Len(front) = 2
  BY <1>1, <1>2, SignColon
<1>4. PutTogether(SensorName(s), front, s.type)
  BY <1>1, <1>2 DEF SensorName, PutTogether
<1>5. Starts(SensorName(s), s.dir)
  BY <1>1, <1>3, <1>4, StartsOn
<1> QED
  BY <1>1, <1>2, <1>3, <1>4, <1>5

LEMMA InputName ==
    ASSUME NEW s \in Inputs
    PROVE  /\ Named(Chip(s)) /\ Named(Label(s))
           /\ SensorName(s) = <<"hwmon">> \o Colon \o Chip(s) \o Colon \o Label(s)
           /\ Starts(SensorName(s), "hwmon")
<1>1. s.kind = "hwmon"
  BY DEF Inputs
<1>2. Named(Chip(s))
  <2>1. s.dir \in Alphabet /\ Named(s.chip)
    BY DEF Inputs, Alphabet, Named
  <2> QED
    BY <2>1 DEF Chip, Named
<1>3. Named(Label(s))
  <2>1. s.id \in Alphabet /\ "temp" \in Alphabet /\ Named(s.label)
    BY DEF Inputs, Alphabet, Named
  <2> QED
    BY <2>1 DEF Label, Named
<1>4. SensorName(s) = <<"hwmon">> \o Colon \o Chip(s) \o Colon \o Label(s)
  BY <1>1 DEF SensorName
<1>5. PICK front : PutTogether(front, <<"hwmon">>, Colon)
  BY DEF PutTogether
<1>6. PICK chip : PutTogether(chip, front, Chip(s))
  BY DEF PutTogether
<1>7. PICK colon : PutTogether(colon, chip, Colon)
  BY DEF PutTogether
<1>8. PutTogether(SensorName(s), colon, Label(s))
  BY <1>4, <1>5, <1>6, <1>7 DEF PutTogether
<1>9. Starts(front, "hwmon")
  BY <1>5, SignColon DEF Alphabet
<1>10. Starts(colon, "hwmon")
  BY <1>2, <1>6, <1>7, <1>9, ColonNamed, StartsOn
<1>11. Starts(SensorName(s), "hwmon")
  BY <1>3, <1>8, <1>10, StartsOn
<1> QED
  BY <1>2, <1>3, <1>4, <1>11

LEMMA GpuName ==
    ASSUME NEW s \in Gpus, NEW front, PutTogether(front, <<"nvidia">>, Colon)
    PROVE  \E id, colon :
             /\ Named(front) /\ Named(<<s.id>>) /\ Len(<<s.id>>) = 1 /\ Named(s.type)
             /\ PutTogether(id, front, <<s.id>>) /\ Named(id) /\ Len(id) = 3
             /\ PutTogether(colon, id, Colon) /\ Named(colon) /\ Len(colon) = 4
             /\ PutTogether(SensorName(s), colon, s.type)
             /\ Starts(SensorName(s), "nvidia")
<1>1. s.kind = "gpu" /\ s.id \in Alphabet /\ Named(s.type) /\ "nvidia" \in Alphabet
  BY DEF Gpus, Alphabet, Named
<1>2. Starts(front, "nvidia") /\ Named(front) /\ Len(front) = 2
  BY <1>1, SignColon
<1>3. PICK one : one = <<s.id>>
  OBVIOUS
<1>4. Named(one) /\ Len(one) = 1
  BY <1>1, <1>3, OneSign
<1>5. PICK id : PutTogether(id, front, one)
  BY DEF PutTogether
<1>6. Joins(id, front, one)
  BY <1>2, <1>4, <1>5, JoinedName DEF PutTogether
<1>7. Named(id) /\ Len(id) = 3 /\ Starts(id, "nvidia")
  BY <1>2, <1>4, <1>5, <1>6, StartsOn DEF Joins
<1>8. PICK colon : PutTogether(colon, id, Colon)
  BY DEF PutTogether
<1>9. Named(colon) /\ Len(colon) = 4
  <2>1. Named(colon) /\ Len(colon) = Len(id) + 1
    BY <1>7, <1>8, ColonAfter, Zenon
  <2> QED
    BY <1>7, <2>1
<1>10. Starts(colon, "nvidia")
  BY <1>7, <1>8, ColonNamed, StartsOn
<1>11. PutTogether(SensorName(s), colon, s.type)
  <2>1. SensorName(s) = <<"nvidia">> \o Colon \o <<s.id>> \o Colon \o s.type
    BY <1>1 DEF SensorName
  <2> QED
    BY <1>3, <1>5, <1>8, <2>1 DEF PutTogether
<1>12. Starts(SensorName(s), "nvidia")
  BY <1>1, <1>10, <1>11, StartsOn
<1> QED
  BY <1>1, <1>2, <1>3, <1>4, <1>5, <1>7, <1>8, <1>9, <1>11, <1>12

-----------------------------------------------------------------------------
\* No two zones and no two GPUs have one name.
LEMMA ZonesApart ==
    ASSUME NEW s \in Zones, NEW u \in Zones, SensorName(s) = SensorName(u)
    PROVE  s = u
<1>1. PICK f : /\ Named(f) /\ Len(f) = 2 /\ Named(s.type)
               /\ PutTogether(SensorName(s), f, s.type)
               /\ Starts(SensorName(s), s.dir)
  BY ZoneName
<1>2. PICK g : /\ Named(g) /\ Len(g) = 2 /\ Named(u.type)
               /\ PutTogether(SensorName(u), g, u.type)
               /\ Starts(SensorName(u), u.dir)
  BY ZoneName
<1>3. s.dir = u.dir
  BY <1>1, <1>2 DEF Starts
<1>4. Same(f, g, s.type, u.type)
  BY <1>1, <1>2, SameParts
<1> QED
  BY <1>3, <1>4 DEF Same, Zones

LEMMA GpusApart ==
    ASSUME NEW s \in Gpus, NEW u \in Gpus, SensorName(s) = SensorName(u)
    PROVE  s = u
<1>1. PICK front : PutTogether(front, <<"nvidia">>, Colon)
  BY DEF PutTogether
<1>2. PICK i, f : /\ Named(front) /\ Named(<<s.id>>) /\ Len(<<s.id>>) = 1 /\ Named(s.type)
                  /\ PutTogether(i, front, <<s.id>>) /\ Named(i) /\ Len(i) = 3
                  /\ PutTogether(f, i, Colon) /\ Named(f) /\ Len(f) = 4
                  /\ PutTogether(SensorName(s), f, s.type)
  BY <1>1, GpuName
<1>3. PICK j, g : /\ Named(<<u.id>>) /\ Len(<<u.id>>) = 1 /\ Named(u.type)
                  /\ PutTogether(j, front, <<u.id>>) /\ Named(j) /\ Len(j) = 3
                  /\ PutTogether(g, j, Colon) /\ Named(g) /\ Len(g) = 4
                  /\ PutTogether(SensorName(u), g, u.type)
  BY <1>1, GpuName
<1>4. f = g /\ s.type = u.type
  <2>1. Same(f, g, s.type, u.type)
    BY <1>2, <1>3, SameParts
  <2> QED
    BY <2>1 DEF Same
<1>5. i = j
  <2>1. Same(i, j, Colon, Colon)
    BY <1>2, <1>3, <1>4, ColonNamed, SameParts
  <2> QED
    BY <2>1 DEF Same
<1>6. <<s.id>> = <<u.id>>
  <2>1. Same(front, front, <<s.id>>, <<u.id>>)
    BY <1>2, <1>3, <1>5, SameParts
  <2> QED
    BY <2>1 DEF Same
<1>7. s.id = u.id
  BY <1>6
<1> QED
  BY <1>4, <1>7 DEF Gpus

\* Two inputs of hwmon devices have one name only if they are namesakes.
LEMMA InputsAlike ==
    ASSUME NEW s \in Inputs, NEW u \in Inputs, SensorName(s) = SensorName(u)
    PROVE  Namesakes(s, u)
<1>1. PICK p : p = <<"hwmon">> \o Colon
  OBVIOUS
<1>2. Named(p)
  <2>1. PutTogether(p, <<"hwmon">>, Colon)
    BY <1>1 DEF PutTogether
  <2> QED
    BY <2>1, SignColon DEF Alphabet
<1>3. PICK name : name = SensorName(s)
  OBVIOUS
<1>4. Split(name, p, Chip(s), Label(s)) /\ Split(name, p, Chip(u), Label(u))
  BY <1>1, <1>3, InputName DEF Split
<1>5. Named(Chip(s)) /\ Named(Label(s)) /\ Named(Chip(u)) /\ Named(Label(u))
  BY InputName
<1>6. CASE Len(Chip(s)) = Len(Chip(u))
  <2>1. Chip(s) = Chip(u) /\ Label(s) = Label(u)
    BY <1>2, <1>4, <1>5, <1>6, SplitOnce DEF Same
  <2>2. NamedAlike(s, u)
    <3>1. <<s.dir>> = <<u.dir>> => s.dir = u.dir
      OBVIOUS
    <3> QED
      BY <2>1, <3>1 DEF Chip, NamedAlike
  <2>3. LabelledAlike(s, u)
    <3>1. <<"temp", s.id>> = <<"temp", u.id>> => s.id = u.id
      OBVIOUS
    <3> QED
      BY <2>1, <3>1 DEF Label, LabelledAlike
  <2> QED
    BY <2>2, <2>3 DEF Inputs, Namesakes
<1>7. CASE Len(Chip(s)) < Len(Chip(u))
  <2>1. Moved(Chip(s), Label(s), Chip(u), Label(u))
    BY <1>2, <1>4, <1>5, <1>7, LongerHoldsColon
  <2> QED
    BY <2>1 DEF Moved, ColonMoved, Inputs, Namesakes
<1>8. CASE Len(Chip(u)) < Len(Chip(s))
  <2>1. Moved(Chip(u), Label(u), Chip(s), Label(s))
    BY <1>2, <1>4, <1>5, <1>8, LongerHoldsColon
  <2> QED
    BY <2>1 DEF Moved, ColonMoved, Inputs, Namesakes
<1>9. Len(Chip(s)) \in Nat /\ Len(Chip(u)) \in Nat
  BY <1>5 DEF Named
<1> QED
  BY <1>6, <1>7, <1>8, <1>9

\* No two sources give one name.
LEMMA SourcesApart ==
    ASSUME NEW s, NEW u, SensorName(s) = SensorName(u),
           s \in Zones \union Inputs \union Gpus, u \in Zones \union Inputs \union Gpus
    PROVE  \/ s \in Zones /\ u \in Zones
           \/ s \in Inputs /\ u \in Inputs
           \/ s \in Gpus /\ u \in Gpus
<1>1. PICK front : PutTogether(front, <<"nvidia">>, Colon)
  BY DEF PutTogether
<1>2. ASSUME NEW x
      PROVE  /\ x \in Zones => SensorName(x)[1] = x.dir /\ x.dir \notin {"hwmon", "nvidia"}
             /\ x \in Inputs => SensorName(x)[1] = "hwmon"
             /\ x \in Gpus => SensorName(x)[1] = "nvidia"
  <2>1. ASSUME x \in Zones
        PROVE  SensorName(x)[1] = x.dir /\ x.dir \notin {"hwmon", "nvidia"}
    BY <2>1, ZoneName DEF Starts, Zones
  <2>2. ASSUME x \in Inputs PROVE SensorName(x)[1] = "hwmon"
    BY <2>2, InputName DEF Starts
  <2>3. ASSUME x \in Gpus PROVE SensorName(x)[1] = "nvidia"
    BY <1>1, <2>3, GpuName DEF Starts
  <2> QED
    BY <2>1, <2>2, <2>3
<1> QED
  BY <1>2

LEMMA OneName ==
    ASSUME NEW s \in Found, NEW u \in Found, SensorName(s) = SensorName(u), s # u
    PROVE  Namesakes(s, u)
<1>1. /\ s \in Zones \union Inputs \union Gpus
      /\ u \in Zones \union Inputs \union Gpus
  BY MachineAssumption
<1> QED
  BY <1>1, SourcesApart, ZonesApart, GpusApart, InputsAlike

\* Rows bear the name of their sensor.
NameInv == \A r \in rows : r.name = SensorName(r.of)

\* A group of an analysis mixes the readings of two sensors only if they are
\* inputs of hwmon devices whose names and labels read alike, or one of whose
\* devices has a colon in its name, on every machine (HwmonCollector::collect
\* and its siblings).
THEOREM NamesakesOnly == Spec => []GroupsMixNamesakesOnly
<1>1. Init => NameInv
  BY DEF Init, NameInv
<1>2. NameInv /\ [Next]_vars => NameInv'
  <2> SUFFICES ASSUME NameInv, [Next]_vars PROVE NameInv'
    OBVIOUS
  <2>1. ASSUME NEW s \in Found, NEW t \in ClockTimes, Insert(s, t) PROVE NameInv'
    <3>1. PICK new : /\ new = [name |-> SensorName(s), at |-> Text(t), of |-> s, taken |-> t]
                     /\ rows' = rows \union {new}
      BY <2>1 DEF Insert
    <3>2. new.name = SensorName(new.of)
      BY <3>1
    <3> QED
      BY <3>1, <3>2 DEF NameInv
  <2>2. rows' = rows => NameInv'
    BY DEF NameInv
  <2> QED
    BY <2>1, <2>2 DEF Next, Analyze, Answered, vars
<1>3. Inv /\ NameInv => GroupsMixNamesakesOnly
  <2> SUFFICES ASSUME Inv, NameInv, NEW r \in covered, NEW q \in covered,
                      r.name = q.name, r.of # q.of
               PROVE  Namesakes(r.of, q.of)
    BY DEF GroupsMixNamesakesOnly
  <2>1. r \in rows /\ q \in rows /\ r.of \in Found /\ q.of \in Found
    BY DEF Inv, TypeOK
  <2>2. SensorName(r.of) = SensorName(q.of)
    BY <2>1 DEF NameInv
  <2> QED
    BY <2>1, <2>2, OneName
<1> QED
  BY <1>1, <1>2, <1>3, InitInv, NextInv, PTL DEF Spec
=============================================================================
