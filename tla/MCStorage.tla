----------------------------- MODULE MCStorage -----------------------------
(***************************************************************************)
(* Instances of Storage for TLC: two sensors, two instants, batches of two *)
(* readings, a web server with two request tasks and a daemon in a process *)
(* of its own.  A batch is never empty: no caller stores nothing.          *)
(***************************************************************************)
EXTENDS StorageRefinement, TLC

CONSTANTS s1, s2, web, daemon, w1, w2, d1

MCBatches == { << [sensor |-> s1, temp |-> 40, at |-> 1],
                  [sensor |-> s2, temp |-> 50, at |-> 2] >> }

\* Everything, counted and aggregated; an empty window, which is refused; the
\* newest row of one sensor.
MCQueries == { [op |-> "analyze", sensor |-> AnySensor, from |-> 1, to |-> 2],
               [op |-> "analyze", sensor |-> s1, from |-> 2, to |-> 2],
               [op |-> "recent", sensor |-> s1, limit |-> 1] }

\* Two processes: the web server's tasks share one mutex, the daemon has its own.
TwoProcesses == [a \in Actors |-> IF a = d1 THEN daemon ELSE web]

\* The two request tasks run the same code and are never told apart.
RequestTasks == Permutations({w1, w2})
=============================================================================
