------------------------- MODULE StorageRefinement -------------------------
(***************************************************************************)
(* Storage, the code's statements, mutexes and processes, implements       *)
(* ReadingLog, what the store promises.                                    *)
(***************************************************************************)
EXTENDS Storage

Phase(a) == CASE pc[a] = "idle" -> "idle"
              [] pc[a] = "done" -> "replied"
              [] OTHER          -> "busy"

\* The refinement mapping: the table without its history columns, the stages
\* of a call without its statements, the readings an insertion has written.
LogOf(table) == [i \in DOMAIN table |-> [reading |-> table[i].reading]]
PhaseOf      == [a \in Actors |-> Phase(a)]
WrittenOf    == [a \in Actors |-> next[a] - 1]

Log == INSTANCE ReadingLog WITH
    Callers <- Actors,
    RowLimit <- MaxAnalysisRows,
    Inserts <- InsertRequest,
    Lookups <- Queries,
    log     <- LogOf(rows),
    phase   <- PhaseOf,
    asked   <- req,
    written <- WrittenOf,
    reply   <- result

\* Every behaviour of the store is one of a log of readings: although an
\* analysis runs two statements and takes a process's mutex only, its answer
\* is the answer of one instant of the call (SqliteStore's three methods).
ImplementsLog == Log!LogSpec
=============================================================================
