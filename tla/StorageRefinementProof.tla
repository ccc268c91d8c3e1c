----------------------- MODULE StorageRefinementProof -----------------------
(***************************************************************************)
(* Storage implements ReadingLog: every step of a process or an actor is a *)
(* step of the log or leaves it alone.                                     *)
(***************************************************************************)
EXTENDS StorageRefinement, StorageProof

\* The operators that ReadingLog takes from its own copy of SensorTable.
LEMMA SameCardinality == \A S : Log!Cardinality(S) = Cardinality(S)
  BY DEF Cardinality, Log!Cardinality

LEMMA SameSelects ==
    \A filter, reading : Log!Selects(filter, reading) <=> Selects(filter, reading)
  BY DEF Selects, Log!Selects

\* A query sees of a table only its readings.
LEMMA SameIds ==
    ASSUME NEW t, NEW filter, NEW from, NEW to
    PROVE  Log!MatchingIds(LogOf(t), filter, from, to) = MatchingIds(t, filter, from, to)
  BY SameSelects DEF LogOf, MatchingIds, Log!MatchingIds

LEMMA SameRecent ==
    ASSUME NEW t, NEW filter, NEW limit
    PROVE  Log!RecentAnswers(LogOf(t), filter, limit) = RecentAnswers(t, filter, limit)
<1> DEFINE Ids(u) == { i \in DOMAIN u : Selects(filter, u[i].reading) }
           Size(u) == IF Cardinality(Ids(u)) <= limit THEN Cardinality(Ids(u)) ELSE limit
           At(u, i) == u[i].reading.at
           Listed(u, ans) ==
             /\ \A m, n \in 1..Size(u) :
                  m < n => ans[m] # ans[n] /\ At(u, ans[m]) >= At(u, ans[n])
             /\ \A i \in Ids(u) :
                  (\A m \in 1..Size(u) : ans[m] # i)
                    => \A m \in 1..Size(u) : At(u, ans[m]) >= At(u, i)
<1>1. Ids(LogOf(t)) = Ids(t)
  BY DEF LogOf
<1>2. \A i \in Ids(t) : At(LogOf(t), i) = At(t, i)
  BY DEF LogOf
<1>3. Size(LogOf(t)) = Size(t)
  BY <1>1
<1> HIDE DEF Ids, Size, At
<1>4. ASSUME NEW ans \in [1..Size(t) -> Ids(t)]
      PROVE  Listed(LogOf(t), ans) <=> Listed(t, ans)
  BY <1>1, <1>2, <1>3
<1>6. Log!RecentAnswers(LogOf(t), filter, limit) =
        { ans \in [1..Size(LogOf(t)) -> Ids(LogOf(t))] : Listed(LogOf(t), ans) }
  BY SameCardinality, SameSelects DEF Log!RecentAnswers, Ids, Size, At
<1>5. \A u : RecentAnswers(u, filter, limit) =
               { ans \in [1..Size(u) -> Ids(u)] : Listed(u, ans) }
  BY DEF RecentAnswers, Ids, Size, At
<1> HIDE DEF Listed
<1> QED
  BY <1>1, <1>3, <1>4, <1>5, <1>6

-----------------------------------------------------------------------------
LEMMA LogInitOK == Init => Log!LogInit
  BY DEF Init, Log!LogInit, LogOf, PhaseOf, WrittenOf, Phase, NoRequest, NoResult, Log!Nothing, Log!NoReply

LEMMA SameRows == rows' = rows => LogOf(rows)' = LogOf(rows)
  BY DEF LogOf

\* A step that changes nothing the log knows of.
LEMMA LogStutter ==
    ASSUME UNCHANGED <<rows, req, next, result>>,
           \A a \in Actors : Phase(a)' = Phase(a)
    PROVE  UNCHANGED Log!logVars
<1>1. PhaseOf' = PhaseOf /\ WrittenOf' = WrittenOf
  BY DEF PhaseOf, WrittenOf
<1> QED
  BY <1>1, SameRows DEF Log!logVars

\* Ending a call is the log's Reply, when the answer is one the log allows.
LEMMA LogReply ==
    ASSUME TypeInv, NEW a \in Actors, NEW r, Answer(a, r), pc[a] \in Holding,
           UNCHANGED <<rows, req, next>>, r \in Log!Answers(a)
    PROVE  Log!LogNext
<1>t. /\ pc \in [Actors -> {"idle", "wait", "done"} \union Holding]
      /\ DOMAIN result = Actors
  BY DEF TypeInv, TypeOK
<1>1. Phase(a) = "busy" /\ Phase(a)' = "replied"
  BY <1>t DEF Phase, Holding, Answer
<1>2. \A b \in Actors \ {a} : Phase(b)' = Phase(b)
  BY <1>t DEF Phase, Answer
<1>3. PhaseOf' = [PhaseOf EXCEPT ![a] = "replied"] /\ PhaseOf[a] = "busy"
  BY <1>1, <1>2 DEF PhaseOf
<1>4. WrittenOf' = WrittenOf /\ LogOf(rows)' = LogOf(rows)
  BY SameRows DEF WrittenOf
<1>5. result' = [result EXCEPT ![a] = r]
  BY DEF Answer
<1>6. Log!Reply(a)
  BY <1>3, <1>4, <1>5 DEF Log!Reply
<1> QED
  BY <1>6 DEF Log!LogNext

LEMMA LogCall ==
    ASSUME TypeInv, NEW a \in Actors, NEW r \in Requests, Call(a, r)
    PROVE  Log!LogNext
<1>t. /\ pc \in [Actors -> {"idle", "wait", "done"} \union Holding]
      /\ next \in [Actors -> Nat \ {0}]
  BY DEF TypeInv, TypeOK
<1>1. /\ pc[a] = "idle" /\ rows' = rows
      /\ req' = [req EXCEPT ![a] = r] /\ next' = [next EXCEPT ![a] = 1]
  BY DEF Call
<1>2. PhaseOf[a] = "idle" /\ WrittenOf' = [WrittenOf EXCEPT ![a] = 0]
  <2>1. \A b \in Actors : next'[b] - 1 = IF b = a THEN 0 ELSE next[b] - 1
    BY <1>1, <1>t
  <2>2. WrittenOf' = [WrittenOf EXCEPT ![a] = 0]
    BY <2>1 DEF WrittenOf
  <2> QED
    BY <1>1, <2>2 DEF PhaseOf, Phase
<1>3. LogOf(rows)' = LogOf(rows)
  BY <1>1, SameRows
<1>4. CASE r.op = "analyze" /\ r.from >= r.to
  <2>1. /\ pc' = [pc EXCEPT ![a] = "done"]
        /\ result' = [result EXCEPT ![a] = [status |-> "InvalidRange"]]
    BY <1>4 DEF Call, Error
  <2>2. PhaseOf' = [PhaseOf EXCEPT ![a] = "replied"]
    BY <1>t, <2>1 DEF PhaseOf, Phase
  <2>3. Log!Begin(a, r)
    BY <1>1, <1>2, <1>3, <1>4, <2>1, <2>2
       DEF Log!Begin, Log!EmptyWindow
  <2> QED
    BY <2>3 DEF Log!LogNext, Requests
<1>5. CASE ~(r.op = "analyze" /\ r.from >= r.to)
  <2>1. pc' = [pc EXCEPT ![a] = "wait"] /\ result' = result
    BY <1>5 DEF Call
  <2>2. PhaseOf' = [PhaseOf EXCEPT ![a] = "busy"]
    BY <1>t, <2>1 DEF PhaseOf, Phase
  <2>3. Log!Begin(a, r)
    BY <1>1, <1>2, <1>3, <1>5, <2>1, <2>2
       DEF Log!Begin, Log!EmptyWindow
  <2> QED
    BY <2>3 DEF Log!LogNext, Requests
<1> QED
  BY <1>4, <1>5

LEMMA LogInsertRow ==
    ASSUME TypeInv, TypeInv', NEW a \in Actors, InsertRow(a)
    PROVE  Log!LogNext
<1> DEFINE n == Len(rows)
           new == [reading |-> req[a].readings[next[a]]]
<1>1. /\ pc[a] = "insert" /\ next[a] <= Len(req[a].readings)
      /\ next' = [next EXCEPT ![a] = next[a] + 1]
      /\ UNCHANGED <<pc, req, result>>
  BY DEF InsertRow
<1>2. next \in [Actors -> Nat \ {0}] /\ rows \in Seq(Row) /\ rows' \in Seq(Row)
  BY DEF TypeInv, TypeOK
<1>3. req[a].op = "insert" /\ Len(req[a].readings) \in Nat
  BY <1>1, RequestKinds, BatchesAssumption, LenProperties DEF TypeInv, TypeOK, Control
<1>4. /\ DOMAIN rows' = 1..(n + 1) /\ DOMAIN rows = 1..n /\ n \in Nat
      /\ \A i \in 1..n : rows'[i] = rows[i]
      /\ rows'[n + 1].reading = req[a].readings[next[a]]
  BY <1>2, LenProperties DEF InsertRow
<1>5. LogOf(rows)' = Append(LogOf(rows), new)
  <2> DEFINE S == {[reading |-> x] : x \in Reading}
  <2>1. \A i \in 1..n : rows[i].reading \in Reading
    <3>1. \A i \in 1..n : rows[i] \in Row
      BY <1>2, <1>4
    <3> QED
      BY <3>1 DEF Row
  <2>2. rows'[n + 1].reading \in Reading
    <3>1. rows'[n + 1] \in Row
      BY <1>2, <1>4
    <3> QED
      BY <3>1 DEF Row
  <2>3. LogOf(rows) \in [1..n -> S] /\ LogOf(rows)' \in [1..(n + 1) -> S] /\ new \in S
    BY <1>4, <2>1, <2>2 DEF LogOf
  <2>4. /\ LogOf(rows) \in Seq(S) /\ Len(LogOf(rows)) = n
        /\ LogOf(rows)' \in Seq(S) /\ Len(LogOf(rows)') = n + 1
    <3>1. n + 1 \in Nat
      BY <1>4
    <3> HIDE DEF S
    <3> QED
      BY <1>4, <2>3, <3>1, FunctionIsSeq
  <2>5. /\ Append(LogOf(rows), new) \in Seq(S)
        /\ Len(Append(LogOf(rows), new)) = n + 1
        /\ \A i \in 1..n : Append(LogOf(rows), new)[i] = LogOf(rows)[i]
        /\ Append(LogOf(rows), new)[n + 1] = new
    BY <2>3, <2>4, AppendProperties
  <2>6. \A i \in 1..(n + 1) : LogOf(rows)'[i] = Append(LogOf(rows), new)[i]
    BY <1>4, <2>5 DEF LogOf
  <2> QED
    BY <2>4, <2>5, <2>6, SeqEqual
<1>6. PhaseOf' = PhaseOf /\ PhaseOf[a] = "busy"
  BY <1>1 DEF PhaseOf, Phase
<1>7. /\ WrittenOf' = [WrittenOf EXCEPT ![a] = @ + 1]
      /\ WrittenOf[a] + 1 = next[a] /\ WrittenOf[a] < Len(req[a].readings)
  <2>1. \A b \in Actors : next'[b] - 1 = IF b = a THEN (next[a] - 1) + 1 ELSE next[b] - 1
    BY <1>1, <1>2
  <2>2. next[a] - 1 < Len(req[a].readings) /\ (next[a] - 1) + 1 = next[a]
    BY <1>1, <1>2, <1>3
  <2> QED
    BY <2>1, <2>2 DEF WrittenOf
<1>8. Log!Write(a)
  BY <1>1, <1>3, <1>5, <1>6, <1>7 DEF Log!Write, Log!Entry
<1> QED
  BY <1>8 DEF Log!LogNext

LEMMA LogReturn ==
    ASSUME TypeInv, NEW a \in Actors, Return(a)
    PROVE  Log!LogNext
<1>t. /\ pc \in [Actors -> {"idle", "wait", "done"} \union Holding]
      /\ next \in [Actors -> Nat \ {0}]
  BY DEF TypeInv, TypeOK
<1>1. PhaseOf' = [PhaseOf EXCEPT ![a] = "idle"] /\ PhaseOf[a] = "replied"
  BY <1>t DEF PhaseOf, Phase, Return
<1>2. WrittenOf' = [WrittenOf EXCEPT ![a] = 0] /\ LogOf(rows)' = LogOf(rows)
  <2>1. \A b \in Actors : next'[b] - 1 = IF b = a THEN 0 ELSE next[b] - 1
    BY <1>t DEF Return
  <2> QED
    BY <2>1, SameRows DEF WrittenOf, Return
<1>3. Log!Finish(a)
  BY <1>1, <1>2 DEF Log!Finish, Return, Log!Nothing, Log!NoReply, NoRequest, NoResult
<1> QED
  BY <1>3 DEF Log!LogNext

LEMMA LogCrash ==
    ASSUME TypeInv, NEW p \in Processes, Crash(p)
    PROVE  Log!LogNext
<1> DEFINE dead == { a \in Actors : ProcessOf[a] = p }
<1>1. PhaseOf' = [a \in Actors |-> IF a \in dead THEN "idle" ELSE PhaseOf[a]]
  BY DEF Crash, PhaseOf, Phase
<1>2. WrittenOf' = [a \in Actors |-> IF a \in dead THEN 0 ELSE WrittenOf[a]]
  BY DEF Crash, WrittenOf
<1>3. LogOf(rows)' = LogOf(rows)
  BY SameRows DEF Crash
<1>4. /\ req' = [a \in Actors |-> IF a \in dead THEN Log!Nothing ELSE req[a]]
      /\ result' = [a \in Actors |-> IF a \in dead THEN Log!NoReply ELSE result[a]]
  BY DEF Crash, Log!Nothing, Log!NoReply, NoRequest, NoResult
<1>5. Log!Die(dead)
  BY <1>1, <1>2, <1>3, <1>4 DEF Log!Die
<1> QED
  BY <1>5 DEF Log!LogNext

\* The log allows an analysis to answer with what it matches in the table.
LEMMA AnalyzeReplies ==
    ASSUME NEW a \in Actors
    PROVE  /\ [status |-> "Ok", matched |-> Matching(a)] \in Log!AnalyzeAnswers(a)
           /\ Cardinality(Matching(a)) > MaxAnalysisRows =>
                [status |-> "RowLimitExceeded"] \in Log!AnalyzeAnswers(a)
<1>1. Log!MatchingIds(LogOf(rows), req[a].sensor, req[a].from, req[a].to) = Matching(a)
  BY SameIds DEF Matching
<1> QED
  BY <1>1, SameCardinality DEF Log!AnalyzeAnswers

LEMMA LogStep == StoreInv /\ [Next]_vars => [Log!LogNext]_(Log!logVars)
<1> SUFFICES ASSUME StoreInv, [Next]_vars PROVE [Log!LogNext]_(Log!logVars)
  OBVIOUS
<1>t. /\ pc \in [Actors -> {"idle", "wait", "done"} \union Holding]
      /\ next \in [Actors -> Nat \ {0}] /\ TypeInv
  BY DEF StoreInv, TypeInv, TypeOK
<1>1. ASSUME NEW p \in Processes, Open(p) \/ InitSchema(p) \/ OpenFail(p)
      PROVE  UNCHANGED Log!logVars
  BY <1>1, LogStutter DEF Open, InitSchema, OpenFail, callVars, Phase
<1>2. ASSUME NEW p \in Processes, Crash(p) PROVE Log!LogNext
  BY <1>2, <1>t, LogCrash
<1>3. ASSUME NEW a \in Actors, NEW r \in Requests, Call(a, r) PROVE Log!LogNext
  BY <1>3, <1>t, LogCall
<1>4. ASSUME NEW a \in Actors, Acquire(a) PROVE UNCHANGED Log!logVars
  <2>1. \A b \in Actors \ {a} : pc'[b] = pc[b]
    BY <1>4, <1>t DEF Acquire
  <2>2. pc[a] = "wait" /\ pc'[a] \in Holding
    <3>1. req[a].op \in {"insert", "analyze", "recent"}
      BY <1>4, RequestKinds DEF Acquire, StoreInv, TypeInv, TypeOK, Control
    <3>2. CASE req[a].op = "insert"
      BY <1>4, <1>t, <3>2 DEF Acquire, Holding
    <3>3. CASE req[a].op = "analyze"
      BY <1>4, <1>t, <3>3 DEF Acquire, Holding
    <3>4. CASE req[a].op = "recent"
      BY <1>4, <1>t, <3>4 DEF Acquire, Holding
    <3> QED
      BY <1>4, <3>1, <3>2, <3>3, <3>4 DEF Acquire
  <2>3. \A b \in Actors : Phase(b)' = Phase(b)
    BY <2>1, <2>2 DEF Phase, Holding
  <2> QED
    BY <1>4, <2>3, LogStutter DEF Acquire
<1>5. ASSUME NEW a \in Actors, InsertRow(a) PROVE Log!LogNext
  BY <1>5, <1>t, TypeStep, LogInsertRow
<1>6. ASSUME NEW a \in Actors, InsertFail(a) PROVE Log!LogNext
  <2>1. req[a].op = "insert" /\ next[a] <= Len(req[a].readings)
        /\ Len(req[a].readings) \in Nat
    BY <1>6, <1>t, RequestKinds, BatchesAssumption, LenProperties
       DEF InsertFail, TypeInv, TypeOK, Control
  <2>2. next[a] - 1 # Len(req[a].readings)
    BY <1>t, <2>1
  <2>3. Error("Db") \in Log!Answers(a)
    BY <2>1, <2>2 DEF Log!Answers, Log!InsertAnswers, Error, WrittenOf
  <2> QED
    BY <1>6, <1>t, <2>3, LogReply DEF InsertFail, Holding
<1>7. ASSUME NEW a \in Actors, InsertDone(a) PROVE Log!LogNext
  <2>1. /\ req[a].op = "insert" /\ next[a] > Len(req[a].readings)
        /\ Len(req[a].readings) \in Nat
    BY <1>7, <1>t, RequestKinds, BatchesAssumption, LenProperties
       DEF InsertDone, TypeInv, TypeOK, Control
  <2>2. next[a] <= Len(req[a].readings) + 1
    BY <1>7, <2>1 DEF InsertDone, StoreInv, Writing, InFlight, Inserting, InFlightCall
  <2>3. next[a] - 1 = Len(req[a].readings)
    BY <1>t, <2>1, <2>2
  <2>4. [status |-> "Ok", count |-> next[a] - 1] \in Log!Answers(a)
    BY <2>1, <2>3 DEF Log!Answers, Log!InsertAnswers, WrittenOf
  <2> QED
    BY <1>7, <1>t, <2>4, LogReply DEF InsertDone, Holding
<1>8. ASSUME NEW a \in Actors, CountRows(a) PROVE [Log!LogNext]_(Log!logVars)
  <2>1. CASE Cardinality(Matching(a)) > MaxAnalysisRows
    <3>1. req[a].op = "analyze"
      BY <1>8, <1>t DEF CountRows, TypeInv, Control
    <3>2. Error("RowLimitExceeded") \in Log!Answers(a)
      <4>1. Log!Answers(a) = Log!AnalyzeAnswers(a)
        BY <3>1 DEF Log!Answers
      <4> QED
        BY <2>1, <4>1, AnalyzeReplies DEF Error
    <3> QED
      BY <1>8, <1>t, <2>1, <3>2, LogReply DEF CountRows, Holding
  <2>2. CASE ~(Cardinality(Matching(a)) > MaxAnalysisRows)
    <3>1. \A b \in Actors : Phase(b)' = Phase(b)
      BY <1>8, <1>t, <2>2 DEF CountRows, Phase
    <3> QED
      BY <1>8, <2>2, <3>1, LogStutter DEF CountRows
  <2> QED
    BY <2>1, <2>2
<1>9. ASSUME NEW a \in Actors, Aggregate(a) PROVE Log!LogNext
  <2>1. req[a].op = "analyze"
    BY <1>9, <1>t DEF Aggregate, TypeInv, Control
  <2>2. [status |-> "Ok", matched |-> Matching(a)] \in Log!Answers(a)
    <3>1. Log!Answers(a) = Log!AnalyzeAnswers(a)
      BY <2>1 DEF Log!Answers
    <3> QED
      BY <3>1, AnalyzeReplies
  <2> QED
    BY <1>9, <1>t, <2>2, LogReply DEF Aggregate, Holding
<1>10. ASSUME NEW a \in Actors, ReadRecent(a) PROVE Log!LogNext
  <2>1. req[a].op = "recent"
    BY <1>10, <1>t DEF ReadRecent, TypeInv, Control
  <2>2. PICK ids \in RecentAnswers(rows, req[a].sensor, req[a].limit) :
               Answer(a, [status |-> "Ok", listed |-> ids])
    BY <1>10 DEF ReadRecent
  <2>3. [status |-> "Ok", listed |-> ids] \in Log!Answers(a)
    <3>1. Log!Answers(a) = Log!RecentReplies(a)
      BY <2>1 DEF Log!Answers
    <3>2. Log!RecentAnswers(LogOf(rows), req[a].sensor, req[a].limit)
            = RecentAnswers(rows, req[a].sensor, req[a].limit)
      BY SameRecent
    <3> QED
      BY <2>2, <3>1, <3>2 DEF Log!RecentReplies
  <2> QED
    BY <1>10, <1>t, <2>2, <2>3, LogReply DEF ReadRecent, Holding
<1>11. ASSUME NEW a \in Actors, QueryFail(a) PROVE Log!LogNext
  <2>1. req[a].op \in {"analyze", "recent"}
    BY <1>11, <1>t DEF QueryFail, TypeInv, Control
  <2>2. Error("Db") \in Log!Answers(a)
    BY <2>1 DEF Log!Answers, Log!AnalyzeAnswers, Log!RecentReplies, Error
  <2> QED
    BY <1>11, <1>t, <2>2, LogReply DEF QueryFail, Holding
<1>12. ASSUME NEW a \in Actors, Return(a) PROVE Log!LogNext
  BY <1>12, <1>t, LogReturn
<1>13. CASE UNCHANGED vars
  BY <1>13, LogStutter DEF vars, callVars, Phase
<1> QED
  BY <1>1, <1>2, <1>3, <1>4, <1>5, <1>6, <1>7, <1>8, <1>9, <1>10, <1>11, <1>12,
     <1>13 DEF Next, ProcessStep, HeldStep

\* The store of the code, its statements, mutexes and processes included,
\* behaves like a log of readings that only grows.
THEOREM StoreImplementsLog == Spec => ImplementsLog
  BY LogInitOK, LogStep, StoreInvariant, PTL DEF Spec, ImplementsLog, Log!LogSpec
=============================================================================
