------------------------------ MODULE Recorded ------------------------------
(***************************************************************************)
(* The table as text: what insert_readings writes of a reading and what    *)
(* the tool analyze_temperature finds again of it (src/mcp/server.rs,      *)
(* src/storage.rs).  The tool checks its window as instants, the query     *)
(* compares texts.                                                         *)
(*                                                                         *)
(* Operators introduced as a "faulty form" are not part of Next.           *)
(***************************************************************************)
EXTENDS Texts, FiniteSets

CONSTANTS
    Times,     \* the instants that occur, of readings and in windows
    Words,     \* the texts of which the machine's names consist
    Found,     \* the sensors that the collector finds
    Absent,    \* a parameter that the caller leaves out
    MaxRows    \* bound of the model: readings stored

ASSUME TimesAssumption == Times \subseteq Instant /\ Absent \notin Instant

\* An RFC 3339 text has a year of four digits; its offset may lead out of them.
ASSUME YearsAssumption == \A t \in Times : t.year \in -1..10000
ASSUME MaxRowsAssumption == MaxRows \in Nat

\* A name is a sequence of words and colons.  Zones are found by their directory's
\* name (zone_dirs); what the files say of a type, a chip or a label is anything.
Zones  == [kind: {"zone"}, dir: Words \ {"hwmon", "nvidia"}, type: Seq(Words)]
Inputs == [kind: {"hwmon"}, dir: Words, chip: Seq(Words), id: Words, label: Seq(Words)]
Gpus   == [kind: {"gpu"}, id: Words, type: Seq(Words)]

ASSUME MachineAssumption == Found \subseteq Zones \union Inputs \union Gpus

VARIABLES
    rows,    \* the columns of each row, and the sensor and instant behind them
    window,  \* the window of the analysis that is answered, or NoWindow
    covered  \* the rows it found

vars == <<rows, window, covered>>

\* What the clock may show.
ClockTimes == {t \in Times : t.year \in FourDigits}

NoWindow == [from |-> Absent, to |-> Absent]

Init ==
    /\ rows = {}
    /\ window = NoWindow
    /\ covered = {}

\* insert_readings stores a reading of sensor s taken at t.  An analysis is one
\* step here and its answer is looked at first: Storage has what comes between.
Insert(s, t) ==
    /\ window = NoWindow
    /\ Cardinality(rows) < MaxRows
    /\ rows' = rows \union {[name |-> SensorName(s), at |-> Text(t),
                             of |-> s, taken |-> t]}
    /\ UNCHANGED <<window, covered>>

\* recorded_at >= ?1 AND recorded_at <= ?2
Matching(from, to) ==
    { r \in rows : TextLE(Text(from), r.at) /\ TextLE(r.at, Text(to)) }

\* `to` is the current time and `from` a day before `to`, unless the caller
\* says otherwise.
Window(p, now) ==
    LET to == IF p.to = Absent THEN now ELSE p.to
    IN  [from |-> IF p.from = Absent THEN DayBefore(to) ELSE p.from, to |-> to]

\* analyze_temperature, with the clock at `now`; from >= to is refused.
Analyze(p, now) ==
    LET w == Window(p, now)
    IN  /\ window = NoWindow
        /\ ~NotAfter(w.to, w.from)
        /\ window' = w
        /\ covered' = Matching(w.from, w.to)
        /\ UNCHANGED rows

Answered ==
    /\ window # NoWindow
    /\ window' = NoWindow
    /\ covered' = {}
    /\ UNCHANGED rows

Params == [from: Times \union {Absent}, to: Times \union {Absent}]

Next ==
    \/ \E s \in Found, t \in ClockTimes : Insert(s, t)
    \/ \E p \in Params, now \in ClockTimes : Analyze(p, now)
    \/ Answered

Spec == Init /\ [][Next]_vars

-----------------------------------------------------------------------------
\* Rows are of sensors that were found and a window is of instants.
TypeOK ==
    /\ \A r \in rows : r.of \in Found /\ r.taken \in ClockTimes
    /\ covered \subseteq rows
    /\ window # NoWindow => window.from \in Instant /\ window.to \in Instant

\* An analysis covers the readings taken inside its window, although the query
\* compares texts whose fractions have no, three, six or nine digits, and
\* although a window may begin before the year 0.  Only one that begins in the
\* years of four digits and ends past them finds nothing ("+10000" comes before
\* "0000").
WindowByInstant ==
    window # NoWindow =>
      covered = { r \in rows :
                    /\ NotAfter(window.from, r.taken)
                    /\ NotAfter(r.taken, window.to)
                    /\ window.to.year \in FourDigits \/ window.from.year > 9999 }

\* Inputs whose labels read alike.
LabelledAlike(s, u) ==
    \/ s.label = u.label /\ (s.label = <<>> => s.id = u.id)
    \/ s.label = <<>> /\ u.label = <<"temp", s.id>>
    \/ u.label = <<>> /\ s.label = <<"temp", u.id>>

\* Devices whose names read alike.
NamedAlike(s, u) ==
    \/ s.dir = u.dir
    \/ s.chip = u.chip /\ s.chip # <<>>
    \/ s.chip = <<>> /\ u.chip = <<s.dir>>
    \/ u.chip = <<>> /\ s.chip = <<u.dir>>

\* The device of u has a colon in its name: what stands before it is the name of
\* the device of s, and the label of s goes on with what stands behind it.
ColonMoved(s, u) ==
    \E i \in DOMAIN Chip(u) :
      /\ Chip(u)[i] = ":"
      /\ Chip(s) = SubSeq(Chip(u), 1, i - 1)
      /\ Label(s) = SubSeq(Chip(u), i + 1, Len(Chip(u))) \o Colon \o Label(u)

Namesakes(s, u) ==
    /\ s.kind = "hwmon" /\ u.kind = "hwmon"
    /\ \/ NamedAlike(s, u) /\ LabelledAlike(s, u)
       \/ ColonMoved(s, u)
       \/ ColonMoved(u, s)

\* An analysis groups by sensor_name.  A group mixes the readings of two
\* sensors only where they are inputs of hwmon devices and the machine itself
\* tells them apart by nothing but a directory (two NVMe drives), has twice the
\* same label in one device, has a label or name that reads like one that is
\* missing elsewhere, or has a colon inside a device's name.  No group mixes
\* sources, zones, GPUs, devices without a name or inputs without a label.
GroupsMixNamesakesOnly ==
    \A r, q \in covered :
      r.name = q.name /\ r.of # q.of => Namesakes(r.of, q.of)
=============================================================================
