------------------------------ MODULE Storage ------------------------------
(***************************************************************************)
(* SqliteStore (src/storage.rs): one SQLite file shared by several         *)
(* processes (daemon, web server, MCP server, `once --save`).  Each        *)
(* process opens its own Connection and keeps it in an Arc<Mutex<_>>; the  *)
(* actors of a process (the daemon task, one task per HTTP request or tool *)
(* call) share that mutex.                                                 *)
(*                                                                         *)
(* The mutex is held from the first statement of a call to its last, but   *)
(* it is the process's own, and every statement is its own transaction:    *)
(* there is no BEGIN.  Statements of two processes therefore interleave.   *)
(* A statement is one step; in WAL mode a statement reads one snapshot and *)
(* a writer never blocks a reader.                                         *)
(*                                                                         *)
(* Operators introduced as a "faulty form" are not part of Next: each is   *)
(* the bug a property below exists to catch.                               *)
(***************************************************************************)
EXTENDS SensorTable

CONSTANTS
    Processes,        \* operating system processes that open the database
    Actors,           \* tasks that call the store
    ProcessOf,        \* the process an actor runs in
    NoActor,          \* an unlocked mutex
    MaxAnalysisRows,  \* MAX_ANALYSIS_ROWS
    Batches,          \* the slices of readings insert_readings is called with
    Queries,          \* the calls of analyze and recent_readings
    MaxBatches        \* bound of the model: calls of insert_readings

ASSUME ProcessOfAssumption == ProcessOf \in [Actors -> Processes]
ASSUME NoActorAssumption   == NoActor \notin Actors
ASSUME MaxRowsAssumption   == MaxAnalysisRows \in Nat
ASSUME BatchesAssumption   == Batches \subseteq Seq(Reading)
ASSUME MaxBatchesAssumption == MaxBatches \in Nat

VARIABLES
    rows,     \* the table temperature_readings, committed rows only
    schema,   \* the statements of init_schema the file has seen
    proc,     \* [Processes -> "down" | "opening" | "up"]
    stmt,     \* [Processes -> the statement of init_schema to run next]
    lock,     \* [Processes -> the actor holding Mutex<Connection>]
    pc,       \* [Actors -> where the actor is in its call]
    req,      \* [Actors -> the call's arguments]
    next,     \* [Actors -> index of the reading insert_readings writes next]
    result,   \* [Actors -> what the call returned]
    batches,  \* history: every call of insert_readings and its outcome
    batch     \* history: [Actors -> the actor's last call in batches]

procVars  == <<schema, proc, stmt>>
callVars  == <<lock, pc, req, next, result>>
vars      == <<rows, procVars, callVars, batches, batch>>

\* The statements of init_schema, in order.
SchemaSteps == <<"journal_mode=WAL", "temperature_readings",
                 "idx_readings_recorded_at", "idx_readings_sensor">>
FullSchema  == {SchemaSteps[i] : i \in 1..4}

Filters == Sensors \union {AnySensor}

InsertRequest  == [op: {"insert"}, readings: Batches]
AnalyzeRequest == [op: {"analyze"}, sensor: Filters, from: Nat, to: Nat]
RecentRequest  == [op: {"recent"}, sensor: Filters, limit: Nat]
Requests       == InsertRequest \union Queries

ASSUME QueriesAssumption == Queries \subseteq AnalyzeRequest \union RecentRequest

NoRequest == [op |-> "none"]
NoResult  == [status |-> "none"]
Error(e)  == [status |-> e]

\* Points of a call at which the actor holds its process's mutex.
Holding == {"insert", "count", "aggregate", "recent"}

Matching(a) == MatchingIds(rows, req[a].sensor, req[a].from, req[a].to)

-----------------------------------------------------------------------------
Init ==
    /\ rows = <<>>
    /\ schema = {}
    /\ proc = [p \in Processes |-> "down"]
    /\ stmt = [p \in Processes |-> 1]
    /\ lock = [p \in Processes |-> NoActor]
    /\ pc = [a \in Actors |-> "idle"]
    /\ req = [a \in Actors |-> NoRequest]
    /\ next = [a \in Actors |-> 1]
    /\ result = [a \in Actors |-> NoResult]
    /\ batches = <<>>
    /\ batch = [a \in Actors |-> 0]

\* Faulty form of Open: an existing file is taken to have its schema.
OpenTrustsFile(p) ==
    /\ proc[p] = "down"
    /\ proc' = [proc EXCEPT ![p] = IF schema = {} THEN "opening" ELSE "up"]
    /\ stmt' = [stmt EXCEPT ![p] = 1]
    /\ UNCHANGED <<rows, schema, callVars, batches, batch>>

\* SqliteStore::open: Connection::open, then init_schema.
Open(p) ==
    /\ proc[p] = "down"
    /\ proc' = [proc EXCEPT ![p] = "opening"]
    /\ stmt' = [stmt EXCEPT ![p] = 1]
    /\ UNCHANGED <<rows, schema, callVars, batches, batch>>

\* Faulty form of InitSchema: it does not stop after the last statement.
InitSchemaNoEnd(p) ==
    /\ proc[p] = "opening"
    /\ schema' = schema \union {SchemaSteps[stmt[p]]}
    /\ stmt' = [stmt EXCEPT ![p] = @ + 1]
    /\ UNCHANGED <<rows, proc, callVars, batches, batch>>

\* execute_batch runs the statements one by one; each is idempotent
\* (IF NOT EXISTS).  After the last the store exists.
InitSchema(p) ==
    /\ proc[p] = "opening"
    /\ schema' = schema \union {SchemaSteps[stmt[p]]}
    /\ IF stmt[p] = Len(SchemaSteps)
       THEN /\ proc' = [proc EXCEPT ![p] = "up"]
            /\ UNCHANGED stmt
       ELSE /\ stmt' = [stmt EXCEPT ![p] = @ + 1]
            /\ UNCHANGED proc
    /\ UNCHANGED <<rows, callVars, batches, batch>>

\* A statement of init_schema fails: open returns Err and the process ends.
OpenFail(p) ==
    /\ proc[p] = "opening"
    /\ proc' = [proc EXCEPT ![p] = "down"]
    /\ UNCHANGED <<rows, schema, stmt, callVars, batches, batch>>

-----------------------------------------------------------------------------
\* Ends the call of a with answer r: the MutexGuard goes out of scope.
Answer(a, r) ==
    /\ pc' = [pc EXCEPT ![a] = "done"]
    /\ result' = [result EXCEPT ![a] = r]
    /\ lock' = [lock EXCEPT ![ProcessOf[a]] = NoActor]

Outcome(b, o) == batches' = [batches EXCEPT ![b].outcome = o]

\* An actor calls insert_readings, analyze or recent_readings.  analyze
\* rejects an empty window before it touches the mutex.
Call(a, r) ==
    /\ proc[ProcessOf[a]] = "up"
    /\ pc[a] = "idle"
    /\ req' = [req EXCEPT ![a] = r]
    /\ next' = [next EXCEPT ![a] = 1]
    /\ IF r.op = "analyze" /\ r.from >= r.to
       THEN /\ pc' = [pc EXCEPT ![a] = "done"]
            /\ result' = [result EXCEPT ![a] = Error("InvalidRange")]
       ELSE /\ pc' = [pc EXCEPT ![a] = "wait"]
            /\ UNCHANGED result
    /\ IF r.op = "insert"
       THEN /\ Len(batches) < MaxBatches
            /\ batches' = Append(batches, [by |-> a, readings |-> r.readings,
                                           outcome |-> "pending"])
            /\ batch' = [batch EXCEPT ![a] = Len(batches) + 1]
       ELSE UNCHANGED <<batches, batch>>
    /\ UNCHANGED <<rows, procVars, lock>>

\* Faulty form of Acquire: a connection that is not behind a mutex.
AcquireUnlocked(a) ==
    /\ pc[a] = "wait"
    /\ lock' = [lock EXCEPT ![ProcessOf[a]] = a]
    /\ pc' = [pc EXCEPT ![a] = CASE req[a].op = "insert"  -> "insert"
                                 [] req[a].op = "analyze" -> "count"
                                 [] req[a].op = "recent"  -> "recent"]
    /\ UNCHANGED <<rows, procVars, req, next, result, batches, batch>>

\* self.conn.lock().  No panic happens under the lock, so it is never
\* poisoned.
Acquire(a) ==
    /\ pc[a] = "wait"
    /\ lock[ProcessOf[a]] = NoActor
    /\ lock' = [lock EXCEPT ![ProcessOf[a]] = a]
    /\ pc' = [pc EXCEPT ![a] = CASE req[a].op = "insert"  -> "insert"
                                 [] req[a].op = "analyze" -> "count"
                                 [] req[a].op = "recent"  -> "recent"]
    /\ UNCHANGED <<rows, procVars, req, next, result, batches, batch>>

\* One INSERT of the loop: committed when the statement returns.
InsertRow(a) ==
    /\ pc[a] = "insert"
    /\ next[a] <= Len(req[a].readings)
    /\ rows' = Append(rows, [reading |-> req[a].readings[next[a]],
                             batch |-> batch[a], pos |-> next[a]])
    /\ next' = [next EXCEPT ![a] = @ + 1]
    /\ UNCHANGED <<procVars, lock, pc, req, result, batches, batch>>

\* Faulty forms of InsertFail: the failed batch is retried from its first
\* reading; the error is swallowed.
InsertFailRetries(a) ==
    /\ pc[a] = "insert"
    /\ next[a] <= Len(req[a].readings)
    /\ next' = [next EXCEPT ![a] = 1]
    /\ UNCHANGED <<rows, procVars, lock, pc, req, result, batches, batch>>

InsertFailSwallowed(a) ==
    /\ pc[a] = "insert"
    /\ next[a] <= Len(req[a].readings)
    /\ Answer(a, [status |-> "Ok", count |-> next[a] - 1])
    /\ Outcome(batch[a], "ok")
    /\ UNCHANGED <<rows, procVars, req, next, batch>>

\* An INSERT fails (database busy, disk full, I/O): insert_readings returns
\* at once and leaves the rows it has already written.
InsertFail(a) ==
    /\ pc[a] = "insert"
    /\ next[a] <= Len(req[a].readings)
    /\ Answer(a, Error("Db"))
    /\ Outcome(batch[a], "err")
    /\ UNCHANGED <<rows, procVars, req, next, batch>>

InsertDone(a) ==
    /\ pc[a] = "insert"
    /\ next[a] > Len(req[a].readings)
    /\ Answer(a, [status |-> "Ok", count |-> next[a] - 1])
    /\ Outcome(batch[a], "ok")
    /\ UNCHANGED <<rows, procVars, req, next, batch>>

\* Faulty form of CountRows: the mutex is given back between the statements.
CountRowsUnlocks(a) ==
    /\ pc[a] = "count"
    /\ IF Cardinality(Matching(a)) > MaxAnalysisRows
       THEN Answer(a, Error("RowLimitExceeded"))
       ELSE /\ pc' = [pc EXCEPT ![a] = "aggregate"]
            /\ lock' = [lock EXCEPT ![ProcessOf[a]] = NoActor]
            /\ UNCHANGED result
    /\ UNCHANGED <<rows, procVars, req, next, batches, batch>>

\* SELECT COUNT(*), and the row limit.
CountRows(a) ==
    /\ pc[a] = "count"
    /\ IF Cardinality(Matching(a)) > MaxAnalysisRows
       THEN Answer(a, Error("RowLimitExceeded"))
       ELSE /\ pc' = [pc EXCEPT ![a] = "aggregate"]
            /\ UNCHANGED <<result, lock>>
    /\ UNCHANGED <<rows, procVars, req, next, batches, batch>>

\* The GROUP BY statement: a second statement, which reads the table again.
Aggregate(a) ==
    /\ pc[a] = "aggregate"
    /\ Answer(a, [status |-> "Ok", matched |-> Matching(a)])
    /\ UNCHANGED <<rows, procVars, req, next, batches, batch>>

\* Faulty form of ReadRecent: the sensor filter is dropped.
ReadRecentUnfiltered(a) ==
    /\ pc[a] = "recent"
    /\ \E ids \in RecentAnswers(rows, AnySensor, req[a].limit) :
         Answer(a, [status |-> "Ok", listed |-> ids])
    /\ UNCHANGED <<rows, procVars, req, next, batches, batch>>

ReadRecent(a) ==
    /\ pc[a] = "recent"
    /\ \E ids \in RecentAnswers(rows, req[a].sensor, req[a].limit) :
         Answer(a, [status |-> "Ok", listed |-> ids])
    /\ UNCHANGED <<rows, procVars, req, next, batches, batch>>

\* Faulty form of QueryFail: an early return that keeps the mutex.
QueryFailKeepsLock(a) ==
    /\ pc[a] \in {"count", "aggregate", "recent"}
    /\ pc' = [pc EXCEPT ![a] = "done"]
    /\ result' = [result EXCEPT ![a] = Error("Db")]
    /\ UNCHANGED <<rows, procVars, lock, req, next, batches, batch>>

\* prepare, query_row or a row conversion fails.
QueryFail(a) ==
    /\ pc[a] \in {"count", "aggregate", "recent"}
    /\ Answer(a, Error("Db"))
    /\ UNCHANGED <<rows, procVars, req, next, batches, batch>>

\* The caller takes the result and goes on.
Return(a) ==
    /\ pc[a] = "done"
    /\ pc' = [pc EXCEPT ![a] = "idle"]
    /\ req' = [req EXCEPT ![a] = NoRequest]
    /\ result' = [result EXCEPT ![a] = NoResult]
    /\ next' = [next EXCEPT ![a] = 1]
    /\ UNCHANGED <<rows, procVars, lock, batches, batch>>

\* A process dies between two statements (SIGKILL, SIGTERM, power).  Its
\* mutex and its calls are gone; committed rows stay in the file.
Crash(p) ==
    LET dead(a) == ProcessOf[a] = p
        lost(b) == dead(b.by) /\ b.outcome = "pending"
    IN  /\ proc[p] # "down"
        /\ proc' = [proc EXCEPT ![p] = "down"]
        /\ lock' = [lock EXCEPT ![p] = NoActor]
        /\ pc' = [a \in Actors |-> IF dead(a) THEN "idle" ELSE pc[a]]
        /\ req' = [a \in Actors |-> IF dead(a) THEN NoRequest ELSE req[a]]
        /\ next' = [a \in Actors |-> IF dead(a) THEN 1 ELSE next[a]]
        /\ result' = [a \in Actors |-> IF dead(a) THEN NoResult ELSE result[a]]
        /\ batches' = [b \in DOMAIN batches |->
                         IF lost(batches[b])
                         THEN [batches[b] EXCEPT !.outcome = "lost"]
                         ELSE batches[b]]
        /\ UNCHANGED <<rows, schema, stmt, batch>>

-----------------------------------------------------------------------------
\* What an actor does inside a call once it holds the mutex.
HeldStep(a) ==
    \/ InsertRow(a)
    \/ InsertFail(a)
    \/ InsertDone(a)
    \/ CountRows(a)
    \/ Aggregate(a)
    \/ ReadRecent(a)
    \/ QueryFail(a)

ProcessStep(p) == Open(p) \/ InitSchema(p) \/ OpenFail(p) \/ Crash(p)

Next ==
    \/ \E p \in Processes : ProcessStep(p)
    \/ \E a \in Actors :
         \/ \E r \in Requests : Call(a, r)
         \/ Acquire(a)
         \/ HeldStep(a)
         \/ Return(a)

Spec == Init /\ [][Next]_vars

-----------------------------------------------------------------------------
Outcomes == {"pending", "ok", "err", "lost"}

Batch == [by: Actors, readings: Batches, outcome: Outcomes]

\* Every variable has its type (the values of a result depend on the call).
TypeOK ==
    /\ rows \in Seq(Row)
    /\ schema \subseteq FullSchema
    /\ proc \in [Processes -> {"down", "opening", "up"}]
    /\ stmt \in [Processes -> 1..4]
    /\ lock \in [Processes -> Actors \union {NoActor}]
    /\ pc \in [Actors -> {"idle", "wait", "done"} \union Holding]
    /\ req \in [Actors -> Requests \union {NoRequest}]
    /\ next \in [Actors -> Nat \ {0}]
    /\ DOMAIN result = Actors
    /\ batches \in Seq(Batch)
    /\ batch \in [Actors -> Nat]

StoredAt(b, q) == \E i \in DOMAIN rows : rows[i].batch = b /\ rows[i].pos = q

\* The rows of a batch are its readings from the first on, each once, in
\* order, whatever other processes write in between and wherever the call
\* stopped (insert_readings).
BatchesInOrder ==
    /\ \A i \in DOMAIN rows :
         /\ rows[i].batch \in DOMAIN batches
         /\ rows[i].pos \in DOMAIN batches[rows[i].batch].readings
         /\ rows[i].reading = batches[rows[i].batch].readings[rows[i].pos]
         /\ \A q \in 1..rows[i].pos : StoredAt(rows[i].batch, q)
    /\ \A i, j \in DOMAIN rows :
         i < j /\ rows[i].batch = rows[j].batch => rows[i].pos < rows[j].pos

\* Ok(n) means that the whole batch is in the table, Err that it is not,
\* also after later crashes and restarts of any process.
OutcomesTruthful ==
    \A b \in DOMAIN batches :
      LET size == Len(batches[b].readings)
      IN  /\ batches[b].outcome = "ok"  => \A q \in 1..size : StoredAt(b, q)
          /\ batches[b].outcome = "err" => ~StoredAt(b, size)

\* No query of a process runs while a batch of the same process is half
\* written: handlers of one server see its own batches whole, unless the
\* insert failed (the MutexGuard spans the loop).
OwnBatchesWhole ==
    \A a \in Actors : pc[a] \in {"count", "aggregate", "recent"} =>
      \A i \in DOMAIN rows :
        LET b == batches[rows[i].batch]
        IN  ProcessOf[b.by] = ProcessOf[a] => b.outcome # "pending"

\* A process that runs has the whole schema, whatever crashed while it was
\* opening the file (init_schema).
SchemaReady == \A p \in Processes : proc[p] = "up" => schema = FullSchema

\* An analysis that succeeds covers at most MAX_ANALYSIS_ROWS rows
\* (docs/security/threat-model.md: "10k rows max").
AnalysisBounded ==
    \A a \in Actors :
      pc[a] = "done" /\ req[a].op = "analyze" /\ result[a].status = "Ok"
        => Cardinality(result[a].matched) <= MaxAnalysisRows

\* Rows that the process of an analysis wrote itself stay within the limit also
\* where other processes write to the file: what may take an analysis above it
\* is only what others inserted after the count (the MutexGuard of analyze).
OwnRowsBounded ==
    \A a \in Actors :
      pc[a] = "done" /\ req[a].op = "analyze" /\ result[a].status = "Ok"
        => Cardinality({ i \in result[a].matched :
               ProcessOf[batches[rows[i].batch].by] = ProcessOf[a] }) <= MaxAnalysisRows

\* A process's mutex is held by whichever of its callers is inside a call, and
\* by nobody when none is: no `?`, no row limit and no crash leaves it locked
\* (insert_readings, analyze, recent_readings).
LockHeldInCall ==
    /\ \A p \in Processes : lock[p] # NoActor =>
         ProcessOf[lock[p]] = p /\ pc[lock[p]] \in Holding
    /\ \A a \in Actors : pc[a] \in Holding => lock[ProcessOf[a]] = a
=============================================================================
