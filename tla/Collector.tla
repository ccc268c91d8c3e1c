----------------------------- MODULE Collector -----------------------------
(***************************************************************************)
(* One call of SystemTemperatureCollector::collect (src/collector.rs).     *)
(* The sources are read one after the other, and a source lists its        *)
(* entries before it reads them; meanwhile the machine changes: sensors    *)
(* are plugged and unplugged, drivers start and stop to answer.            *)
(*                                                                         *)
(* A source is its entries: the thermal zones, the temp*_input files of    *)
(* hwmon (each in a device of its own), the lines nvidia-smi prints.  What *)
(* is in an entry's text is left out: it can be read or it cannot.  How a  *)
(* sensor gets its name is in Texts.                                       *)
(*                                                                         *)
(* Operators introduced as a "faulty form" are not part of Next.           *)
(***************************************************************************)
EXTENDS Naturals, Sequences, FiniteSets

CONSTANTS
    Sources,    \* the backends, in the order they are asked
    SensorsOf,  \* [backend -> the sensors it may have]
    AtOnce,     \* the backends that read all their entries at once
    Nested,     \* the backends whose entries are in directories of their own
    MaxChanges  \* bound of the model: changes of the machine

ASSUME SourcesAssumption ==
    /\ Sources \in Seq(DOMAIN SensorsOf)
    /\ \A i, j \in DOMAIN Sources : i # j =>
         /\ Sources[i] # Sources[j]
         /\ SensorsOf[Sources[i]] \intersect SensorsOf[Sources[j]] = {}
ASSUME KindsAssumption      == AtOnce \union Nested \subseteq DOMAIN SensorsOf
ASSUME MaxChangesAssumption == MaxChanges \in Nat

VARIABLES
    machine,  \* [sensors -> "fine", "failing" (listed, not read) or "absent"]
    rooted,   \* the sources whose directory or command is there
    turn,     \* index of the source being read
    listing,  \* has the source's turn begun only now?
    todo,     \* entries listed and not yet read
    part,     \* sensors read in this turn
    all,      \* sensors of the sources that succeeded
    errors,   \* the sources that failed
    outcome,  \* what collect returned: "none" yet, "Ok" or "Err"
    changes,  \* changes of the machine so far
    troubled  \* history: sensors that were not fine at some time of the call

vars == <<machine, rooted, turn, listing, todo, part, all, errors, outcome,
          changes, troubled>>

SourceSet == {Sources[i] : i \in DOMAIN Sources}
SensorSet == UNION {SensorsOf[b] : b \in SourceSet}
Current   == Sources[turn]
Reading   == outcome = "none" /\ turn <= Len(Sources)

\* A missing source has no sensors to read.
Answers(b, s) == b \in rooted /\ machine[s] = "fine"
NotFine(m, r) == { s \in SensorSet : m[s] # "fine" }
                 \union UNION {SensorsOf[b] : b \in SourceSet \ r}

Init ==
    /\ machine \in [SensorSet -> {"fine", "failing", "absent"}]
    /\ rooted \in SUBSET SourceSet
    /\ turn = 1 /\ listing = TRUE
    /\ todo = {} /\ part = {} /\ all = {} /\ errors = {}
    /\ outcome = "none"
    /\ changes = 0
    /\ troubled = NotFine(machine, rooted)

\* A sensor or a whole source comes, goes or stops to answer.
MachineChanges ==
    /\ outcome = "none" /\ changes < MaxChanges
    /\ changes' = changes + 1
    /\ \/ \E s \in SensorSet, m \in {"fine", "failing", "absent"} :
            machine' = [machine EXCEPT ![s] = m] /\ UNCHANGED rooted
       \/ \E b \in SourceSet :
            rooted' = (rooted \ {b}) \union ({b} \ rooted) /\ UNCHANGED machine
    /\ troubled' = troubled \union NotFine(machine', rooted')
    /\ UNCHANGED <<turn, listing, todo, part, all, errors, outcome>>

-----------------------------------------------------------------------------
\* Faulty form of NextSource: one source too far.
NextSourceSkips ==
    /\ turn' = turn + 2
    /\ listing' = TRUE
    /\ todo' = {} /\ part' = {}

\* Goes on to the next source.
NextSource ==
    /\ turn' = turn + 1
    /\ listing' = TRUE
    /\ todo' = {} /\ part' = {}

\* Faulty form of SourceFails: `?` in the merging loop.
SourceFailsAll ==
    /\ errors' = errors \union {Current}
    /\ outcome' = "Err"
    /\ UNCHANGED <<turn, listing, todo, part, all>>

\* Err(e) => errors.push(e): the readings of this source are dropped.
SourceFails ==
    /\ errors' = errors \union {Current}
    /\ NextSource
    /\ UNCHANGED <<all, outcome>>

Listed == { s \in SensorsOf[Current] : machine[s] # "absent" }

\* read_dir: the directory need not be there.
ListEntries ==
    /\ Reading /\ listing /\ Current \notin AtOnce
    /\ IF Current \in rooted
       THEN /\ listing' = FALSE
            /\ todo' = Listed
            /\ UNCHANGED <<turn, part, all, errors, outcome>>
       ELSE SourceFails
    /\ UNCHANGED <<machine, rooted, changes, troubled>>

\* Command::output: one child lists and reads; it need not be installed, and
\* one line without a temperature fails the source.
RunCommand ==
    /\ Reading /\ listing /\ Current \in AtOnce
    /\ IF Current \in rooted /\ \A s \in Listed : machine[s] = "fine"
       THEN /\ listing' = FALSE
            /\ part' = Listed
            /\ UNCHANGED <<turn, todo, all, errors, outcome>>
       ELSE SourceFails
    /\ UNCHANGED <<machine, rooted, changes, troubled>>

\* Faulty form of ReadEntry: a failing entry ends the turn, and what the
\* source has read before is kept.
ReadEntryKeeps ==
    /\ Reading /\ ~listing
    /\ \E s \in todo :
         IF Answers(Current, s)
         THEN /\ todo' = todo \ {s}
              /\ part' = part \union {s}
              /\ UNCHANGED <<turn, listing, all, errors, outcome>>
         ELSE /\ all' = all \union part
              /\ errors' = errors \union {Current}
              /\ NextSource
              /\ UNCHANGED outcome
    /\ UNCHANGED <<machine, rooted, changes, troubled>>

\* The next entry is read; one that fails fails the whole source (`?`).
ReadEntry ==
    /\ Reading /\ ~listing
    /\ \E s \in todo :
         IF Answers(Current, s)
         THEN /\ todo' = todo \ {s}
              /\ part' = part \union {s}
              /\ UNCHANGED <<turn, listing, all, errors, outcome>>
         ELSE SourceFails
    /\ UNCHANGED <<machine, rooted, changes, troubled>>

\* `!dir.is_dir()`: a device that has gone since the listing is passed over.
SkipDevice ==
    /\ Reading /\ ~listing /\ Current \in Nested
    /\ \E s \in todo :
         /\ Current \notin rooted \/ machine[s] = "absent"
         /\ todo' = todo \ {s}
    /\ UNCHANGED <<machine, rooted, turn, listing, part, all, errors, outcome,
                   changes, troubled>>

\* Ok(readings) => all.append(readings).
SourceDone ==
    /\ Reading /\ ~listing /\ todo = {}
    /\ all' = all \union part
    /\ NextSource
    /\ UNCHANGED <<machine, rooted, errors, outcome, changes, troubled>>

\* Ok with every reading, sorted; Err when there is none, errors or not.
Merge ==
    /\ outcome = "none" /\ turn > Len(Sources)
    /\ outcome' = IF all = {} THEN "Err" ELSE "Ok"
    /\ UNCHANGED <<machine, rooted, turn, listing, todo, part, all, errors,
                   changes, troubled>>

Next ==
    \/ MachineChanges
    \/ ListEntries
    \/ RunCommand
    \/ ReadEntry
    \/ SkipDevice
    \/ SourceDone
    \/ Merge

Spec == Init /\ [][Next]_vars

-----------------------------------------------------------------------------
TypeOK ==
    /\ machine \in [SensorSet -> {"fine", "failing", "absent"}]
    /\ rooted \subseteq SourceSet
    /\ turn \in 1..(Len(Sources) + 1)
    /\ listing \in BOOLEAN
    /\ todo \union part \union all \union troubled \subseteq SensorSet
    /\ errors \subseteq SourceSet
    /\ outcome \in {"none", "Ok", "Err"}
    /\ changes \in 0..MaxChanges

\* Nothing of a failed source is reported, however far it had been read: a
\* collection never stores a source by half.
FailedSourceDropped ==
    \A b \in errors : all \intersect SensorsOf[b] = {}

\* A sensor that answers throughout the call is missing only because another
\* one of its own source does not.
OnlyNeighboursHide ==
    outcome # "none" => \A b \in SourceSet : \A s \in SensorsOf[b] :
      s \notin troubled /\ s \notin all =>
        SensorsOf[b] \intersect troubled # {} /\ b \in errors
=============================================================================
