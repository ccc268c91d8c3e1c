---------------------------- MODULE MCMcpServer ----------------------------
(***************************************************************************)
(* Instances of McpServer for TLC: one server with two threads, or two     *)
(* servers with one thread each on the same audit file.                    *)
(***************************************************************************)
EXTENDS McpServer, TLC

CONSTANTS p1, p2, t1, t2

OneServer  == [t \in Tasks |-> p1]
TwoServers == [t \in Tasks |-> IF t = t1 THEN p1 ELSE p2]

Threads == Permutations({t1, t2})
=============================================================================
