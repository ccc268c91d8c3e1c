---------------------------- MODULE SensorTable ----------------------------
(***************************************************************************)
(* What the SQL of src/storage.rs computes from the table                  *)
(* temperature_readings.  A table is a sequence of rows; the index of a    *)
(* row is its id (INTEGER PRIMARY KEY AUTOINCREMENT: ids grow and are      *)
(* never reused).  A query answers with row ids, so that a property can    *)
(* say which rows an answer covers; the columns follow from the ids.       *)
(*                                                                         *)
(* Times are natural numbers.  The code compares RFC 3339 texts, which     *)
(* order like the instants they denote for the years 0 to 9999.            *)
(***************************************************************************)
EXTENDS Naturals, Sequences, FiniteSets

CONSTANTS
    Sensors,    \* the sensor names that occur
    AnySensor,  \* Option::None as a query's sensor filter
    Temps       \* temperatures

ASSUME AnySensorAssumption == AnySensor \notin Sensors

Reading == [sensor: Sensors, temp: Temps, at: Nat]

\* A row: the three columns, and two history fields that name the call of
\* insert_readings that wrote it and the place of the reading in that call.
Row == [reading: Reading, batch: Nat, pos: Nat]

Selects(filter, reading) == filter = AnySensor \/ reading.sensor = filter

\* WHERE [sensor_name = ?1 AND] recorded_at >= ?2 AND recorded_at <= ?3
MatchingIds(table, filter, from, to) ==
    { i \in DOMAIN table :
        /\ Selects(filter, table[i].reading)
        /\ from <= table[i].reading.at
        /\ table[i].reading.at <= to }

\* [WHERE sensor_name = ?1] ORDER BY recorded_at DESC LIMIT ?2.  SQLite
\* orders rows with equal recorded_at as it likes: any of these sequences
\* may be the answer.
RecentAnswers(table, filter, limit) ==
    LET ids == { i \in DOMAIN table : Selects(filter, table[i].reading) }
        at(i) == table[i].reading.at
        size == IF Cardinality(ids) <= limit THEN Cardinality(ids) ELSE limit
    IN  { ans \in [1..size -> ids] :
            /\ \A m, n \in 1..size :
                 m < n => ans[m] # ans[n] /\ at(ans[m]) >= at(ans[n])
            /\ \A i \in ids :
                 (\A m \in 1..size : ans[m] # i)
                   => \A m \in 1..size : at(ans[m]) >= at(i) }
=============================================================================
