------------------------------ MODULE MCWebApi ------------------------------
(***************************************************************************)
(* Instances of WebApi for TLC: two sensors, two request tasks, one daemon *)
(* or none.                                                                *)
(***************************************************************************)
EXTENDS WebApi, TLC

CONSTANTS s1, s2, w1, w2, d1

\* A collection may lose a sensor, or finds both every time.
OneOrBoth   == {{s1}, {s1, s2}}
AllSensors  == {Sensors}

RequestTasks == Permutations(Web)
=============================================================================
