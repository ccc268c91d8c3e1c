---------------------------- MODULE StorageProof ----------------------------
(***************************************************************************)
(* Proofs about Storage, for any number of processes, actors, sensors,     *)
(* readings in a batch and rows in the table.                              *)
(***************************************************************************)
EXTENDS Storage, SequenceTheorems, FiniteSetTheorems, TLAPS

\* Where an actor is in a call agrees with the call it makes.
Control ==
    \A a \in Actors :
      /\ pc[a] = "idle" <=> req[a] = NoRequest
      /\ pc[a] = "insert" => req[a].op = "insert"
      /\ pc[a] \in {"count", "aggregate"} => req[a].op = "analyze"
      /\ pc[a] = "recent" => req[a].op = "recent"

TypeInv == TypeOK /\ Control

\* The kind of a request is its op.
LEMMA RequestKinds ==
    ASSUME NEW r \in Requests
    PROVE  /\ r.op \in {"insert", "analyze", "recent"}
           /\ r.op = "insert" => r \in InsertRequest /\ r.readings \in Batches
           /\ r.op = "analyze" => r \in AnalyzeRequest
           /\ r.op = "recent" => r \in RecentRequest
           /\ r # NoRequest
  BY QueriesAssumption
     DEF Requests, InsertRequest, AnalyzeRequest, RecentRequest, NoRequest

LEMMA TypeInit == Init => TypeInv
  BY ProcessOfAssumption
     DEF Init, TypeInv, TypeOK, Control, NoRequest, FullSchema, SchemaSteps, Holding

\* Answering a call that is under way keeps every type.
LEMMA AnswerType ==
    ASSUME TypeInv, NEW a \in Actors, NEW r, Answer(a, r), pc[a] \in Holding,
           UNCHANGED <<rows, procVars, req, next, batch>>, batches' \in Seq(Batch)
    PROVE  TypeInv'
<1> USE DEF TypeInv, TypeOK, Control, Answer, procVars
<1>1. /\ lock' \in [Processes -> Actors \union {NoActor}]
      /\ pc' \in [Actors -> {"idle", "wait", "done"} \union Holding]
      /\ DOMAIN result' = Actors
  BY ProcessOfAssumption
<1>2. Control'
  BY DEF Holding
<1> QED
  BY <1>1, <1>2

\* A function on an initial segment of the positive numbers is a sequence.
LEMMA FunctionIsSeq ==
    ASSUME NEW S, NEW n \in Nat, NEW f \in [1..n -> S]
    PROVE  f \in Seq(S) /\ Len(f) = n
<1>1. [1..n -> S] \in {[1..m -> S] : m \in Nat}
  OBVIOUS
<1>2. f \in Seq(S)
  BY <1>1, SeqDef
<1>3. DOMAIN f = 1..n /\ DOMAIN f = 1..Len(f) /\ Len(f) \in Nat
  BY <1>2, LenProperties
<1> QED
  BY <1>2, <1>3

\* Setting a batch's outcome keeps the history's type.
LEMMA OutcomeType ==
    ASSUME batches \in Seq(Batch), NEW b \in Nat, NEW o \in Outcomes, Outcome(b, o)
    PROVE  batches' \in Seq(Batch) /\ Len(batches') = Len(batches)
<1> DEFINE n == Len(batches)
<1>1. n \in Nat /\ DOMAIN batches = 1..n
  BY LenProperties
<1>2. \A c \in 1..n : batches[c] \in Batch
  BY <1>1
<1>3. \A c \in 1..n : [batches[c] EXCEPT !.outcome = o] \in Batch
  BY <1>2 DEF Batch
<1>4. batches' \in [1..n -> Batch]
  BY <1>1, <1>2, <1>3 DEF Outcome
<1> QED
  BY <1>1, <1>4, FunctionIsSeq

LEMMA StepCount == Len(SchemaSteps) = 4
  BY DEF SchemaSteps

LEMMA TypeStep == TypeInv /\ [Next]_vars => TypeInv'
<1> SUFFICES ASSUME TypeInv, [Next]_vars PROVE TypeInv'
  OBVIOUS
<1> USE DEF TypeInv, TypeOK, Control, procVars, callVars
<1>1. ASSUME NEW p \in Processes, Open(p) PROVE TypeInv'
  BY <1>1 DEF Open
<1>2. ASSUME NEW p \in Processes, InitSchema(p) PROVE TypeInv'
  <2>1. schema' \subseteq FullSchema
    BY <1>2 DEF InitSchema, FullSchema
  <2>2. /\ proc' \in [Processes -> {"down", "opening", "up"}]
        /\ stmt' \in [Processes -> 1..4]
    <3>1. CASE stmt[p] = 4
      BY <1>2, <3>1, StepCount DEF InitSchema
    <3>2. CASE stmt[p] \in 1..3
      <4>1. stmt' = [stmt EXCEPT ![p] = stmt[p] + 1] /\ proc' = proc
        BY <1>2, <3>2, StepCount DEF InitSchema
      <4>2. stmt[p] + 1 \in 1..4
        BY <3>2
      <4> QED
        BY <4>1, <4>2
    <3> QED
      BY <3>1, <3>2
  <2> QED
    BY <1>2, <2>1, <2>2 DEF InitSchema
<1>3. ASSUME NEW p \in Processes, OpenFail(p) PROVE TypeInv'
  BY <1>3 DEF OpenFail
<1>4. ASSUME NEW p \in Processes, Crash(p) PROVE TypeInv'
  <2>1. batches' \in Seq(Batch)
    <3> DEFINE n == Len(batches)
    <3>1. n \in Nat /\ DOMAIN batches = 1..n
      BY LenProperties
    <3>2. \A b \in 1..n : batches[b] \in Batch
      BY <3>1
    <3>3. \A b \in 1..n : [batches[b] EXCEPT !.outcome = "lost"] \in Batch
      BY <3>2 DEF Batch, Outcomes
    <3>4. batches' \in [1..n -> Batch]
      BY <1>4, <3>1, <3>2, <3>3 DEF Crash
    <3> QED
      BY <3>1, <3>4, FunctionIsSeq
  <2>2. /\ proc' \in [Processes -> {"down", "opening", "up"}]
        /\ lock' \in [Processes -> Actors \union {NoActor}]
        /\ pc' \in [Actors -> {"idle", "wait", "done"} \union Holding]
        /\ req' \in [Actors -> Requests \union {NoRequest}]
        /\ next' \in [Actors -> Nat \ {0}]
        /\ DOMAIN result' = Actors
    BY <1>4 DEF Crash
  <2>3. Control'
    BY <1>4 DEF Crash, NoRequest
  <2> QED
    BY <1>4, <2>1, <2>2, <2>3 DEF Crash
<1>5. ASSUME NEW a \in Actors, NEW r \in Requests, Call(a, r) PROVE TypeInv'
  <2>1. batches' \in Seq(Batch) /\ batch' \in [Actors -> Nat]
    <3>1. CASE r.op = "insert"
      <4>1. [by |-> a, readings |-> r.readings, outcome |-> "pending"] \in Batch
        BY <3>1, RequestKinds DEF Batch, Outcomes
      <4>2. /\ batches' = Append(batches, [by |-> a, readings |-> r.readings,
                                           outcome |-> "pending"])
            /\ batch' = [batch EXCEPT ![a] = Len(batches) + 1]
        BY <1>5, <3>1 DEF Call
      <4> QED
        BY <4>1, <4>2, LenProperties
    <3>2. CASE r.op # "insert"
      BY <1>5, <3>2 DEF Call
    <3> QED
      BY <3>1, <3>2
  <2>2. /\ pc' \in [Actors -> {"idle", "wait", "done"} \union Holding]
        /\ req' \in [Actors -> Requests \union {NoRequest}]
        /\ next' \in [Actors -> Nat \ {0}]
        /\ DOMAIN result' = Actors
    <3>1. CASE r.op = "analyze" /\ r.from >= r.to
      <4>1. /\ pc' = [pc EXCEPT ![a] = "done"]
            /\ result' = [result EXCEPT ![a] = Error("InvalidRange")]
            /\ req' = [req EXCEPT ![a] = r]
            /\ next' = [next EXCEPT ![a] = 1]
        BY <1>5, <3>1 DEF Call
      <4> QED
        BY <4>1
    <3>2. CASE ~(r.op = "analyze" /\ r.from >= r.to)
      BY <1>5, <3>2 DEF Call
    <3> QED
      BY <3>1, <3>2
  <2>3. Control'
    BY <1>5, RequestKinds DEF Call
  <2> QED
    BY <1>5, <2>1, <2>2, <2>3 DEF Call
<1>6. ASSUME NEW a \in Actors, Acquire(a) PROVE TypeInv'
  <2>1. req[a] \in Requests
    BY <1>6 DEF Acquire
  <2>2. /\ pc' \in [Actors -> {"idle", "wait", "done"} \union Holding]
        /\ Control'
    <3>1. CASE req[a].op = "insert"
      BY <1>6, <2>1, <3>1, RequestKinds DEF Acquire, Holding
    <3>2. CASE req[a].op = "analyze"
      BY <1>6, <2>1, <3>2, RequestKinds DEF Acquire, Holding
    <3>3. CASE req[a].op = "recent"
      BY <1>6, <2>1, <3>3, RequestKinds DEF Acquire, Holding
    <3> QED
      BY <2>1, <3>1, <3>2, <3>3, RequestKinds
  <2>3. lock' \in [Processes -> Actors \union {NoActor}]
    BY <1>6, ProcessOfAssumption DEF Acquire
  <2> QED
    BY <1>6, <2>2, <2>3 DEF Acquire
<1>7. ASSUME NEW a \in Actors, InsertRow(a) PROVE TypeInv'
  <2> DEFINE row == [reading |-> req[a].readings[next[a]],
                     batch |-> batch[a], pos |-> next[a]]
  <2>1. req[a] \in Requests /\ req[a].readings \in Seq(Reading)
    BY <1>7, RequestKinds, BatchesAssumption DEF InsertRow
  <2>2. req[a].readings[next[a]] \in Reading
    BY <1>7, <2>1 DEF InsertRow
  <2>3. row \in Row
    BY <2>2 DEF Row
  <2>4. rows' \in Seq(Row)
    BY <1>7, <2>3 DEF InsertRow
  <2> QED
    BY <1>7, <2>4 DEF InsertRow
<1>8. ASSUME NEW a \in Actors, InsertFail(a) PROVE TypeInv'
  BY <1>8, AnswerType, OutcomeType DEF InsertFail, Holding, Outcomes
<1>9. ASSUME NEW a \in Actors, InsertDone(a) PROVE TypeInv'
  BY <1>9, AnswerType, OutcomeType DEF InsertDone, Holding, Outcomes
<1>10. ASSUME NEW a \in Actors, CountRows(a) PROVE TypeInv'
  <2>1. CASE pc' = [pc EXCEPT ![a] = "aggregate"] /\ UNCHANGED <<result, lock>>
    BY <1>10, <2>1 DEF CountRows, Holding
  <2>2. CASE Answer(a, Error("RowLimitExceeded"))
    BY <1>10, <2>2, AnswerType DEF CountRows, Holding
  <2> QED
    BY <1>10, <2>1, <2>2 DEF CountRows
<1>11. ASSUME NEW a \in Actors, Aggregate(a) PROVE TypeInv'
  BY <1>11, AnswerType DEF Aggregate, Holding
<1>12. ASSUME NEW a \in Actors, ReadRecent(a) PROVE TypeInv'
  BY <1>12, AnswerType DEF ReadRecent, Holding
<1>13. ASSUME NEW a \in Actors, QueryFail(a) PROVE TypeInv'
  BY <1>13, AnswerType DEF QueryFail, Holding
<1>14. ASSUME NEW a \in Actors, Return(a) PROVE TypeInv'
  BY <1>14 DEF Return
<1>15. CASE UNCHANGED vars
  BY <1>15 DEF vars
<1> QED
  BY <1>1, <1>2, <1>3, <1>4, <1>5, <1>6, <1>7, <1>8, <1>9, <1>10, <1>11,
     <1>12, <1>13, <1>14, <1>15 DEF Next, ProcessStep, HeldStep

\* Every variable keeps its type, whatever the processes, tasks and batches.
THEOREM TypeCorrect == Spec => []TypeOK
<1>1. Spec => []TypeInv
  BY TypeInit, TypeStep, PTL DEF Spec
<1>2. TypeInv => TypeOK
  BY DEF TypeInv
<1> QED
  BY <1>1, <1>2, PTL

-----------------------------------------------------------------------------
\* The mutex.
LEMMA MutexInit == Init => LockHeldInCall
  BY DEF Init, LockHeldInCall, Holding

\* The mutex given back at the end of a call was the caller's.
LEMMA MutexAnswer ==
    ASSUME TypeInv, LockHeldInCall, NEW a \in Actors, NEW r, Answer(a, r), pc[a] \in Holding
    PROVE  LockHeldInCall'
<1> USE ProcessOfAssumption, NoActorAssumption
<1>1. /\ lock \in [Processes -> Actors \union {NoActor}]
      /\ pc \in [Actors -> {"idle", "wait", "done"} \union Holding]
  BY DEF TypeInv, TypeOK
<1>2. \A b \in Actors : pc'[b] = IF b = a THEN "done" ELSE pc[b]
  BY <1>1 DEF Answer
<1>3. \A p \in Processes : lock'[p] = IF p = ProcessOf[a] THEN NoActor ELSE lock[p]
  BY <1>1 DEF Answer
<1>4. lock[ProcessOf[a]] = a
  BY DEF LockHeldInCall
<1>5. "done" \notin Holding
  BY DEF Holding
<1> QED
  BY <1>1, <1>2, <1>3, <1>4, <1>5 DEF LockHeldInCall

LEMMA MutexStep == TypeInv /\ LockHeldInCall /\ [Next]_vars => LockHeldInCall'
<1> SUFFICES ASSUME TypeInv, LockHeldInCall, [Next]_vars PROVE LockHeldInCall'
  OBVIOUS
<1> USE ProcessOfAssumption, NoActorAssumption DEF callVars
<1>t. /\ lock \in [Processes -> Actors \union {NoActor}]
      /\ pc \in [Actors -> {"idle", "wait", "done"} \union Holding]
  BY DEF TypeInv, TypeOK
<1>1. CASE UNCHANGED <<lock, pc>>
  BY <1>1 DEF LockHeldInCall
<1>2. ASSUME NEW p \in Processes, Crash(p) PROVE LockHeldInCall'
  BY <1>2, <1>t DEF Crash, LockHeldInCall, Holding
<1>3. ASSUME NEW a \in Actors, NEW r \in Requests, Call(a, r) PROVE LockHeldInCall'
  BY <1>3, <1>t DEF Call, LockHeldInCall, Holding
<1>4. ASSUME NEW a \in Actors, Acquire(a) PROVE LockHeldInCall'
  <2>1. req[a].op \in {"insert", "analyze", "recent"}
    BY <1>4, RequestKinds DEF Acquire, TypeInv, TypeOK, Control
  <2>2. pc'[a] \in Holding /\ \A b \in Actors \ {a} : pc'[b] = pc[b]
    <3>1. CASE req[a].op = "insert"
      BY <1>4, <1>t, <3>1 DEF Acquire, Holding
    <3>2. CASE req[a].op = "analyze"
      BY <1>4, <1>t, <3>2 DEF Acquire, Holding
    <3>3. CASE req[a].op = "recent"
      BY <1>4, <1>t, <3>3 DEF Acquire, Holding
    <3> QED
      BY <2>1, <3>1, <3>2, <3>3
  <2>3. \A p \in Processes : lock'[p] = IF p = ProcessOf[a] THEN a ELSE lock[p]
    BY <1>4, <1>t DEF Acquire
  <2> QED
    <3>1. lock[ProcessOf[a]] = NoActor
      BY <1>4 DEF Acquire
    <3>2. \A b \in Actors : pc[b] \in Holding => ProcessOf[b] # ProcessOf[a]
      BY <3>1 DEF LockHeldInCall
    <3>3. \A p \in Processes : lock'[p] # NoActor =>
            ProcessOf[lock'[p]] = p /\ pc'[lock'[p]] \in Holding
      BY <1>t, <2>2, <2>3 DEF LockHeldInCall
    <3>4. \A b \in Actors : pc'[b] \in Holding => lock'[ProcessOf[b]] = b
      BY <2>2, <2>3, <3>2 DEF LockHeldInCall
    <3> QED
      BY <3>3, <3>4 DEF LockHeldInCall
<1>5. ASSUME NEW a \in Actors, InsertFail(a) PROVE LockHeldInCall'
  BY <1>5, MutexAnswer DEF InsertFail, Holding
<1>6. ASSUME NEW a \in Actors, InsertDone(a) PROVE LockHeldInCall'
  BY <1>6, MutexAnswer DEF InsertDone, Holding
<1>7. ASSUME NEW a \in Actors, CountRows(a) PROVE LockHeldInCall'
  <2>1. CASE pc' = [pc EXCEPT ![a] = "aggregate"] /\ UNCHANGED lock
    BY <1>7, <1>t, <2>1 DEF CountRows, LockHeldInCall, Holding
  <2> QED
    BY <1>7, <2>1, MutexAnswer DEF CountRows, Holding
<1>8. ASSUME NEW a \in Actors, Aggregate(a) \/ ReadRecent(a) \/ QueryFail(a)
      PROVE  LockHeldInCall'
  BY <1>8, MutexAnswer DEF Aggregate, ReadRecent, QueryFail, Holding
<1>9. ASSUME NEW a \in Actors, Return(a) PROVE LockHeldInCall'
  BY <1>9, <1>t DEF Return, LockHeldInCall, Holding
<1>10. ASSUME NEW p \in Processes, Open(p) \/ InitSchema(p) \/ OpenFail(p)
       PROVE  LockHeldInCall'
  BY <1>1, <1>10 DEF Open, InitSchema, OpenFail
<1>11. ASSUME NEW a \in Actors, InsertRow(a) PROVE LockHeldInCall'
  BY <1>1, <1>11 DEF InsertRow
<1>12. CASE UNCHANGED vars
  BY <1>1, <1>12 DEF vars
<1> QED
  BY <1>2, <1>3, <1>4, <1>5, <1>6, <1>7, <1>8, <1>9, <1>10, <1>11, <1>12
     DEF Next, ProcessStep, HeldStep

-----------------------------------------------------------------------------
Inserting(a) == pc[a] \in {"wait", "insert"} /\ req[a].op = "insert"

\* What an insertion under way has done so far, and that every pending batch
\* belongs to one: its actor's last.
InFlightCall(a) ==
    /\ batch[a] \in DOMAIN batches
    /\ batches[batch[a]].by = a
    /\ batches[batch[a]].readings = req[a].readings
    /\ batches[batch[a]].outcome = "pending"
    /\ next[a] <= Len(req[a].readings) + 1
    /\ pc[a] = "wait" => next[a] = 1
    /\ \A q \in 1..(next[a] - 1) : StoredAt(batch[a], q)
    /\ \A i \in DOMAIN rows : rows[i].batch = batch[a] => rows[i].pos < next[a]

InFlight ==
    /\ \A a \in Actors : Inserting(a) => InFlightCall(a)
    /\ \A b \in DOMAIN batches : batches[b].outcome = "pending" =>
         Inserting(batches[b].by) /\ batch[batches[b].by] = b

\* The schema statements an opening process has run are in the file.
SchemaProgress ==
    \A p \in Processes :
      /\ proc[p] = "opening" => \A i \in 1..(stmt[p] - 1) : SchemaSteps[i] \in schema
      /\ proc[p] = "up" => schema = FullSchema

Writing == InFlight /\ BatchesInOrder /\ OutcomesTruthful

LEMMA WritingInit == Init => Writing
  BY DEF Init, Writing, InFlight, Inserting, BatchesInOrder, OutcomesTruthful

\* Steps that touch no row, no batch and no insertion.
LEMMA WritingFrame ==
    ASSUME TypeInv, Writing, UNCHANGED <<rows, batches, batch>>,
           \A a \in Actors :
             /\ Inserting(a)' <=> Inserting(a)
             /\ Inserting(a) => req'[a] = req[a] /\ next'[a] = next[a]
             /\ Inserting(a) /\ pc'[a] = "wait" => pc[a] = "wait"
    PROVE  Writing'
<1>1. \A b \in DOMAIN batches : batches[b].by \in Actors
  <2>1. \A b \in DOMAIN batches : batches[b] \in Batch
    BY LenProperties, ElementOfSeq DEF TypeInv, TypeOK
  <2> QED
    BY <2>1 DEF Batch
<1>2. ASSUME NEW a \in Actors, Inserting(a)'
      PROVE  InFlightCall(a)'
  <2>1. /\ Inserting(a) /\ req'[a] = req[a] /\ next'[a] = next[a]
        /\ pc'[a] = "wait" => pc[a] = "wait"
    BY <1>2 DEF Inserting
  <2>2. InFlightCall(a)
    BY <2>1 DEF Writing, InFlight
  <2> QED
    BY <2>1, <2>2 DEF InFlightCall, StoredAt
<1>3. (\A b \in DOMAIN batches : batches[b].outcome = "pending" =>
         Inserting(batches[b].by) /\ batch[batches[b].by] = b)'
  BY <1>1 DEF Writing, InFlight, Inserting
<1>4. BatchesInOrder' /\ OutcomesTruthful'
  BY DEF Writing, BatchesInOrder, OutcomesTruthful, StoredAt
<1> QED
  BY <1>2, <1>3, <1>4 DEF Writing, InFlight, Inserting

\* A row that is appended is the only one that becomes visible.
LEMMA AppendStored ==
    ASSUME rows \in Seq(Row), NEW row \in Row, rows' = Append(rows, row)
    PROVE  /\ DOMAIN rows' = 1..(Len(rows) + 1)
           /\ DOMAIN rows = 1..Len(rows) /\ Len(rows) \in Nat
           /\ \A i \in DOMAIN rows : rows'[i] = rows[i]
           /\ rows'[Len(rows) + 1] = row
           /\ \A b, q : StoredAt(b, q)' <=>
                StoredAt(b, q) \/ (row.batch = b /\ row.pos = q)
<1>1. /\ DOMAIN rows' = 1..(Len(rows) + 1)
      /\ DOMAIN rows = 1..Len(rows) /\ Len(rows) \in Nat
      /\ \A i \in DOMAIN rows : rows'[i] = rows[i]
      /\ rows'[Len(rows) + 1] = row
  BY LenProperties
<1>2. \A i \in DOMAIN rows' : i \in DOMAIN rows \/ i = Len(rows) + 1
  BY <1>1
<1>3. DOMAIN rows \subseteq DOMAIN rows' /\ Len(rows) + 1 \in DOMAIN rows'
  BY <1>1
<1>4. ASSUME NEW b, NEW q
      PROVE  StoredAt(b, q)' <=> StoredAt(b, q) \/ (row.batch = b /\ row.pos = q)
  <2>1. StoredAt(b, q)' => StoredAt(b, q) \/ (row.batch = b /\ row.pos = q)
    <3> SUFFICES ASSUME NEW i \in DOMAIN rows', rows'[i].batch = b, rows'[i].pos = q
                 PROVE  StoredAt(b, q) \/ (row.batch = b /\ row.pos = q)
      BY DEF StoredAt
    <3>1. CASE i \in DOMAIN rows
      <4>1. rows[i].batch = b /\ rows[i].pos = q
        BY <1>1, <3>1
      <4>2. StoredAt(b, q)
        BY <3>1, <4>1, Zenon DEF StoredAt
      <4> QED
        BY <4>2
    <3>2. CASE i = Len(rows) + 1
      BY <1>1, <3>2
    <3> QED
      BY <1>2, <3>1, <3>2
  <2>2. StoredAt(b, q) => StoredAt(b, q)'
    BY <1>1, <1>3 DEF StoredAt
  <2>3. row.batch = b /\ row.pos = q => StoredAt(b, q)'
    BY <1>1, <1>3 DEF StoredAt
  <2> QED
    BY <2>1, <2>2, <2>3
<1> QED
  BY <1>1, <1>4

LEMMA WritingInsertRow ==
    ASSUME TypeInv, Writing, NEW a \in Actors, InsertRow(a)
    PROVE  Writing'
<1> DEFINE row == [reading |-> req[a].readings[next[a]],
                   batch |-> batch[a], pos |-> next[a]]
           n == Len(rows)
<1>1. /\ rows' = Append(rows, row)
      /\ next' = [next EXCEPT ![a] = next[a] + 1]
      /\ UNCHANGED <<lock, pc, req, result, batches, batch>>
  BY DEF InsertRow
<1>2. rows \in Seq(Row) /\ rows' \in Seq(Row)
  BY TypeStep DEF TypeInv, TypeOK, Next, HeldStep
<1>3. row \in Row
  BY <1>1, <1>2, LenProperties, AppendProperties
<1>4. /\ DOMAIN rows' = 1..(n + 1)
      /\ DOMAIN rows = 1..n /\ n \in Nat
      /\ \A i \in DOMAIN rows : rows'[i] = rows[i]
      /\ rows'[n + 1] = row
      /\ \A b, q : StoredAt(b, q)' <=>
           StoredAt(b, q) \/ (row.batch = b /\ row.pos = q)
  BY <1>1, <1>2, <1>3, AppendStored
<1> HIDE DEF row
<1>5. Inserting(a) /\ InFlightCall(a) /\ next[a] \in Nat \ {0}
  BY DEF InsertRow, Inserting, Control, TypeInv, TypeOK, Writing, InFlight
<1>6. row.batch = batch[a] /\ row.pos = next[a] /\ row.reading = req[a].readings[next[a]]
  BY DEF row
<1>9. Len(req[a].readings) \in Nat /\ req[a].readings \in Seq(Reading)
  BY <1>5, RequestKinds, BatchesAssumption, LenProperties
     DEF Inserting, TypeInv, TypeOK, Control
<1>7. \A c \in Actors : Inserting(c) /\ c # a => batch[c] # batch[a]
  BY <1>5 DEF Writing, InFlight, InFlightCall
<1>8. ASSUME NEW c \in Actors, Inserting(c)'
      PROVE  InFlightCall(c)'
  <2>1. Inserting(c) /\ InFlightCall(c)
    BY <1>1, <1>8 DEF Inserting, Writing, InFlight
  <2>2. CASE c = a
    <3>1. next'[c] = next[c] + 1 /\ next[c] \in Nat \ {0}
      BY <1>1, <1>5, <2>2 DEF TypeInv, TypeOK
    <3>2. next[c] <= Len(req[c].readings) /\ pc[c] = "insert"
      BY <2>2 DEF InsertRow
    <3>3. next'[c] <= Len(req'[c].readings) + 1
      BY <1>1, <3>1, <3>2, <1>9
    <3>4. ASSUME NEW q \in 1..(next'[c] - 1) PROVE StoredAt(batch[c], q)'
      <4>1. batch'[c] = batch[c]
        BY <1>1
      <4>2. CASE q < next[c]
        <5>1. StoredAt(batch[c], q)
          BY <2>1, <3>1, <3>4, <4>2 DEF InFlightCall
        <5> QED
          BY <1>4, <4>1, <5>1 DEF StoredAt
      <4>3. CASE q = next[c]
        BY <1>4, <1>6, <2>2, <4>1, <4>3 DEF StoredAt
      <4> QED
        BY <3>1, <3>4, <4>2, <4>3
    <3>5. ASSUME NEW i \in DOMAIN rows', rows'[i].batch = batch'[c]
          PROVE  rows'[i].pos < next'[c]
      <4>1. CASE i \in DOMAIN rows
        <5>1. rows[i].batch = batch[c] /\ rows'[i] = rows[i]
          BY <1>1, <1>4, <3>5, <4>1
        <5>2. rows[i].pos < next[c] /\ rows[i].pos \in Nat
          <6>1. rows[i] \in Row
            BY <1>2, <1>4, <4>1
          <6>2. rows[i].pos < next[c]
            BY <2>1, <4>1, <5>1 DEF InFlightCall
          <6> QED
            BY <6>1, <6>2 DEF Row
        <5> QED
          BY <3>1, <5>1, <5>2
      <4>2. CASE i = Len(rows) + 1
        BY <1>4, <1>6, <2>2, <3>1, <4>2
      <4> QED
        BY <1>4, <3>5, <4>1, <4>2
    <3> QED
      BY <1>1, <2>1, <3>2, <3>3, <3>4, <3>5 DEF InFlightCall
  <2>3. CASE c # a
    <3>1. next'[c] = next[c] /\ batch[c] # batch[a]
      BY <1>1, <1>7, <2>1, <2>3 DEF TypeInv, TypeOK
    <3>2. ASSUME NEW q \in 1..(next'[c] - 1) PROVE StoredAt(batch[c], q)'
      <4>1. StoredAt(batch[c], q) /\ batch'[c] = batch[c]
        BY <1>1, <2>1, <3>1, <3>2 DEF InFlightCall
      <4> QED
        BY <1>4, <4>1 DEF StoredAt
    <3>3. ASSUME NEW i \in DOMAIN rows', rows'[i].batch = batch'[c]
          PROVE  rows'[i].pos < next'[c]
      BY <1>1, <1>4, <1>6, <2>1, <3>1, <3>3 DEF InFlightCall
    <3> QED
      BY <1>1, <2>1, <3>1, <3>2, <3>3 DEF InFlightCall
  <2> QED
    BY <2>2, <2>3
<1>10. (\A b \in DOMAIN batches : batches[b].outcome = "pending" =>
          Inserting(batches[b].by) /\ batch[batches[b].by] = b)'
  BY <1>1 DEF Writing, InFlight, Inserting
<1>11. BatchesInOrder'
  <2>1. ASSUME NEW i \in DOMAIN rows'
        PROVE  /\ rows'[i].batch \in DOMAIN batches
               /\ rows'[i].pos \in DOMAIN batches[rows'[i].batch].readings
               /\ rows'[i].reading = batches[rows'[i].batch].readings[rows'[i].pos]
    <3>1. CASE i \in DOMAIN rows
      BY <1>4, <3>1 DEF Writing, BatchesInOrder
    <3>2. CASE i = Len(rows) + 1
      <4>1. next[a] \in DOMAIN req[a].readings
        BY <1>5, <1>9, LenProperties DEF InsertRow
      <4> QED
        BY <1>4, <1>5, <1>6, <3>2, <4>1 DEF InFlightCall
    <3> QED
      BY <1>4, <2>1, <3>1, <3>2
  <2>2. ASSUME NEW i \in DOMAIN rows', NEW q \in 1..rows'[i].pos
        PROVE  StoredAt(rows[i].batch, q)'
    <3>1. CASE i \in DOMAIN rows
      <4>1. StoredAt(rows[i].batch, q) /\ rows'[i] = rows[i]
        BY <1>4, <2>2, <3>1 DEF Writing, BatchesInOrder
      <4> QED
        BY <1>4, <4>1 DEF StoredAt
    <3>2. CASE i = Len(rows) + 1
      <4>1. rows'[i].batch = batch[a] /\ rows'[i].pos = next[a]
        BY <1>4, <1>6, <3>2
      <4>2. CASE q = next[a]
        BY <1>4, <2>2, <4>1, <4>2 DEF StoredAt
      <4>3. CASE q < next[a]
        <5>1. StoredAt(batch[a], q)
          BY <1>5, <2>2, <4>1, <4>3 DEF InFlightCall
        <5> QED
          BY <1>4, <4>1, <5>1 DEF StoredAt
      <4> QED
        BY <1>5, <2>2, <4>1, <4>2, <4>3
    <3> QED
      BY <1>4, <2>2, <3>1, <3>2
  <2>3. ASSUME NEW i \in DOMAIN rows', NEW j \in DOMAIN rows', i < j,
               rows'[i].batch = rows'[j].batch
        PROVE  rows'[i].pos < rows'[j].pos
    <3>1. CASE j \in DOMAIN rows
      <4>1. i \in DOMAIN rows
        BY <1>4, <2>3, <3>1
      <4> QED
        BY <1>4, <2>3, <3>1, <4>1 DEF Writing, BatchesInOrder
    <3>2. CASE j = Len(rows) + 1
      <4>1. i \in DOMAIN rows
        BY <1>4, <2>3, <3>2
      <4>2. rows[i].batch = batch[a] /\ rows'[i].pos = rows[i].pos
        BY <1>4, <1>6, <2>3, <3>2, <4>1
      <4>3. rows[i].pos < next[a]
        BY <1>5, <4>1, <4>2 DEF InFlightCall
      <4> QED
        BY <1>4, <1>6, <3>2, <4>2, <4>3
    <3> QED
      BY <1>4, <2>3, <3>1, <3>2
  <2> QED
    BY <1>1, <2>1, <2>2, <2>3 DEF BatchesInOrder
<1>12. OutcomesTruthful'
  <2> SUFFICES ASSUME NEW b \in DOMAIN batches
               PROVE  /\ batches[b].outcome = "ok" =>
                           \A q \in 1..Len(batches[b].readings) : StoredAt(b, q)'
                      /\ batches[b].outcome = "err" =>
                           ~StoredAt(b, Len(batches[b].readings))'
    BY <1>1 DEF OutcomesTruthful
  <2>1. batches[b].outcome = "err" => b # row.batch
    BY <1>5, <1>6 DEF InFlightCall
  <2> QED
    BY <1>1, <1>4, <2>1 DEF Writing, OutcomesTruthful, StoredAt
<1> QED
  BY <1>8, <1>10, <1>11, <1>12 DEF Writing, InFlight, Inserting

\* insert_readings returns: its batch gets its outcome.
LEMMA WritingFinish ==
    ASSUME TypeInv, Writing, NEW a \in Actors, pc[a] = "insert",
           NEW o \in {"ok", "err"}, Outcome(batch[a], o),
           pc' = [pc EXCEPT ![a] = "done"], UNCHANGED <<rows, req, next, batch>>,
           o = "ok" => next[a] > Len(req[a].readings),
           o = "err" => next[a] <= Len(req[a].readings)
    PROVE  Writing'
<1>1. Inserting(a) /\ InFlightCall(a) /\ next[a] \in Nat \ {0}
  BY DEF Inserting, Control, TypeInv, TypeOK, Writing, InFlight
<1>2. Len(req[a].readings) \in Nat
  BY <1>1, RequestKinds, BatchesAssumption, LenProperties
     DEF Inserting, TypeInv, TypeOK, Control
<1>3. /\ DOMAIN batches' = DOMAIN batches
      /\ \A b \in DOMAIN batches :
           /\ batches'[b].by = batches[b].by
           /\ batches'[b].readings = batches[b].readings
           /\ batches'[b].outcome = IF b = batch[a] THEN o ELSE batches[b].outcome
  <2>1. \A b \in DOMAIN batches : batches[b] \in Batch
    BY LenProperties, ElementOfSeq DEF TypeInv, TypeOK
  <2> QED
    BY <2>1 DEF Outcome, Batch
<1>4. \A c \in Actors : Inserting(c)' <=> Inserting(c) /\ c # a
  BY DEF Inserting, TypeInv, TypeOK
<1>5. ASSUME NEW c \in Actors, Inserting(c)' PROVE InFlightCall(c)'
  <2>1. Inserting(c) /\ InFlightCall(c) /\ c # a /\ pc'[c] = pc[c]
    BY <1>4, <1>5 DEF Writing, InFlight, Inserting, TypeInv, TypeOK
  <2>2. batch[c] # batch[a]
    BY <1>1, <2>1 DEF InFlightCall
  <2> QED
    BY <1>3, <2>1, <2>2 DEF InFlightCall, StoredAt
<1>6. (\A b \in DOMAIN batches : batches[b].outcome = "pending" =>
         Inserting(batches[b].by) /\ batch[batches[b].by] = b)'
  <2> SUFFICES ASSUME NEW b \in DOMAIN batches, batches'[b].outcome = "pending"
               PROVE  (Inserting(batches[b].by) /\ batch[batches[b].by] = b)'
    BY <1>3 DEF Inserting
  <2>1. b # batch[a] /\ batches[b].outcome = "pending"
    BY <1>1, <1>3 DEF InFlightCall
  <2>2. Inserting(batches[b].by) /\ batch[batches[b].by] = b
    BY <2>1 DEF Writing, InFlight
  <2>3. batches'[b].by = batches[b].by /\ batches[b].by # a
    BY <1>3, <2>1, <2>2
  <2> QED
    BY <2>2, <2>3 DEF Inserting, TypeInv, TypeOK
<1>7. BatchesInOrder'
  BY <1>3 DEF Writing, BatchesInOrder, StoredAt
<1>8. OutcomesTruthful'
  <2> SUFFICES ASSUME NEW b \in DOMAIN batches
               PROVE  /\ batches'[b].outcome = "ok" =>
                           \A q \in 1..Len(batches[b].readings) : StoredAt(b, q)
                      /\ batches'[b].outcome = "err" =>
                           ~StoredAt(b, Len(batches[b].readings))
    BY <1>3 DEF OutcomesTruthful, StoredAt
  <2>1. CASE b = batch[a]
    <3>1. batches[b].readings = req[a].readings
      BY <1>1, <2>1 DEF InFlightCall
    <3>2. CASE o = "ok"
      <4>1. \A q \in 1..Len(req[a].readings) : q \in 1..(next[a] - 1)
        BY <1>1, <1>2, <3>2
      <4> QED
        BY <1>1, <1>3, <2>1, <3>1, <3>2, <4>1 DEF InFlightCall
    <3>3. CASE o = "err"
      <4>1. \A i \in DOMAIN rows : rows[i].batch = b => rows[i].pos # Len(req[a].readings)
        BY <1>1, <1>2, <2>1, <3>3 DEF InFlightCall
      <4> QED
        BY <1>3, <2>1, <3>1, <3>3, <4>1 DEF StoredAt
    <3> QED
      BY <3>2, <3>3
  <2>2. CASE b # batch[a]
    BY <1>3, <2>2 DEF Writing, OutcomesTruthful
  <2> QED
    BY <2>1, <2>2
<1> QED
  BY <1>5, <1>6, <1>7, <1>8 DEF Writing, InFlight, Inserting

\* insert_readings is called: a new, empty batch.
LEMMA WritingCall ==
    ASSUME TypeInv, Writing, NEW a \in Actors, NEW r \in Requests, Call(a, r),
           r.op = "insert"
    PROVE  Writing'
<1> DEFINE n == Len(batches)
           new == [by |-> a, readings |-> r.readings, outcome |-> "pending"]
<1>1. /\ batches' = Append(batches, new)
      /\ batch' = [batch EXCEPT ![a] = n + 1]
      /\ pc[a] = "idle"
      /\ pc' = [pc EXCEPT ![a] = "wait"]
      /\ req' = [req EXCEPT ![a] = r]
      /\ next' = [next EXCEPT ![a] = 1]
      /\ rows' = rows
  BY DEF Call
<1>2. /\ n \in Nat /\ DOMAIN batches = 1..n
      /\ DOMAIN batches' = 1..(n + 1)
      /\ \A b \in DOMAIN batches : batches'[b] = batches[b]
      /\ batches'[n + 1] = new
  BY <1>1, LenProperties DEF TypeInv, TypeOK
<1>3. r.readings \in Seq(Reading) /\ Len(r.readings) \in Nat
  BY RequestKinds, BatchesAssumption, LenProperties
<1>4. \A b \in DOMAIN batches : batches[b].by \in Actors
  <2>1. \A b \in DOMAIN batches : batches[b] \in Batch
    BY LenProperties, ElementOfSeq DEF TypeInv, TypeOK
  <2> QED
    BY <2>1 DEF Batch
<1>5. \A i \in DOMAIN rows : rows[i].batch \in DOMAIN batches /\ rows[i].batch # n + 1
  BY <1>2 DEF Writing, BatchesInOrder
<1>6. \A c \in Actors : Inserting(c)' <=> Inserting(c) \/ c = a
  BY <1>1 DEF Inserting, TypeInv, TypeOK
<1>7. ASSUME NEW c \in Actors, Inserting(c)' PROVE InFlightCall(c)'
  <2>1. CASE c = a
    <3>1. /\ batch'[a] = n + 1 /\ next'[a] = 1 /\ req'[a] = r
          /\ batches'[n + 1] = new /\ n + 1 \in DOMAIN batches'
      BY <1>1, <1>2 DEF TypeInv, TypeOK
    <3>2. \A i \in DOMAIN rows' : rows'[i].batch # batch'[a]
      BY <1>1, <1>5, <3>1
    <3>3. \A q \in 1..(next'[a] - 1) : FALSE
      BY <3>1
    <3> QED
      BY <1>3, <2>1, <3>1, <3>2, <3>3 DEF InFlightCall
  <2>2. CASE c # a
    <3>1. Inserting(c) /\ InFlightCall(c)
      BY <1>6, <1>7, <2>2 DEF Writing, InFlight, Inserting
    <3>2. /\ batch'[c] = batch[c] /\ next'[c] = next[c] /\ req'[c] = req[c]
          /\ pc'[c] = pc[c] /\ batches'[batch[c]] = batches[batch[c]]
          /\ batch[c] \in DOMAIN batches'
      BY <1>1, <1>2, <2>2, <3>1 DEF InFlightCall, TypeInv, TypeOK
    <3>3. ASSUME NEW q \in 1..(next'[c] - 1) PROVE StoredAt(batch[c], q)'
      <4>1. StoredAt(batch[c], q)
        BY <3>1, <3>2, <3>3 DEF InFlightCall
      <4> QED
        BY <1>1, <3>2, <4>1 DEF StoredAt
    <3>4. \A i \in DOMAIN rows' : rows'[i].batch = batch'[c] => rows'[i].pos < next'[c]
      BY <1>1, <3>1, <3>2 DEF InFlightCall
    <3> QED
      BY <3>1, <3>2, <3>3, <3>4 DEF InFlightCall
  <2> QED
    BY <2>1, <2>2
<1>8. (\A b \in DOMAIN batches : batches[b].outcome = "pending" =>
         Inserting(batches[b].by) /\ batch[batches[b].by] = b)'
  <2> SUFFICES ASSUME NEW b \in DOMAIN batches', batches'[b].outcome = "pending"
               PROVE  (Inserting(batches[b].by) /\ batch[batches[b].by] = b)'
    BY DEF Inserting
  <2>1. CASE b = n + 1
    <3>1. batches'[b].by = a /\ batch'[a] = n + 1
      BY <1>1, <1>2, <2>1 DEF TypeInv, TypeOK
    <3>2. Inserting(a)'
      BY <1>6
    <3> QED
      BY <2>1, <3>1, <3>2 DEF Inserting
  <2>2. CASE b \in DOMAIN batches
    <3>1. batches'[b] = batches[b] /\ batches[b].by \in Actors
      BY <1>2, <1>4, <2>2
    <3>2. Inserting(batches[b].by) /\ batch[batches[b].by] = b
      BY <2>2, <3>1 DEF Writing, InFlight
    <3>3. batches[b].by # a
      BY <1>1, <3>2 DEF Inserting
    <3> QED
      BY <1>1, <3>1, <3>2, <3>3 DEF Inserting, TypeInv, TypeOK
  <2> QED
    BY <1>2, <2>1, <2>2
<1>9. BatchesInOrder'
  BY <1>1, <1>2, <1>5 DEF Writing, BatchesInOrder, StoredAt
<1>10. OutcomesTruthful'
  <2> SUFFICES ASSUME NEW b \in DOMAIN batches'
               PROVE  /\ batches'[b].outcome = "ok"
                           => \A q \in 1..Len(batches'[b].readings) : StoredAt(b, q)'
                      /\ batches'[b].outcome = "err"
                           => ~StoredAt(b, Len(batches[b].readings))'
    BY DEF OutcomesTruthful, StoredAt
  <2>1. CASE b = n + 1
    <3>1. batches'[b].outcome = "pending"
      BY <1>2, <2>1
    <3> QED
      BY <3>1
  <2>2. CASE b \in DOMAIN batches
    <3>1. batches'[b] = batches[b]
      BY <1>2, <2>2
    <3>2. /\ batches[b].outcome = "ok"
               => \A q \in 1..Len(batches[b].readings) : StoredAt(b, q)
          /\ batches[b].outcome = "err" => ~StoredAt(b, Len(batches[b].readings))
      BY <2>2 DEF Writing, OutcomesTruthful
    <3> QED
      BY <1>1, <3>1, <3>2 DEF StoredAt
  <2> QED
    BY <1>2, <2>1, <2>2
<1> QED
  BY <1>7, <1>8, <1>9, <1>10 DEF Writing, InFlight, Inserting

\* A crash turns the pending batches of the process into lost ones.
LEMMA WritingCrash ==
    ASSUME TypeInv, Writing, NEW p \in Processes, Crash(p)
    PROVE  Writing'
<1> DEFINE Dead(a) == ProcessOf[a] = p
<1>1. /\ \A a \in Actors : ~Dead(a) => /\ pc'[a] = pc[a]
                                      /\ req'[a] = req[a]
                                      /\ next'[a] = next[a]
      /\ \A a \in Actors : Dead(a) => pc'[a] = "idle"
      /\ rows' = rows /\ batch' = batch
  BY DEF Crash
<1>2. \A b \in DOMAIN batches : batches[b] \in Batch
  BY LenProperties, ElementOfSeq DEF TypeInv, TypeOK
<1>3. /\ DOMAIN batches' = DOMAIN batches
      /\ \A b \in DOMAIN batches :
           /\ batches'[b].by = batches[b].by
           /\ batches'[b].readings = batches[b].readings
           /\ batches'[b].outcome =
                IF Dead(batches[b].by) /\ batches[b].outcome = "pending"
                THEN "lost" ELSE batches[b].outcome
  BY <1>2 DEF Crash, Batch
<1>4. \A b \in DOMAIN batches : batches[b].by \in Actors
  BY <1>2 DEF Batch
<1>5. ASSUME NEW c \in Actors, Inserting(c)' PROVE InFlightCall(c)'
  <2>1. Inserting(c) /\ ~Dead(c)
    BY <1>1, <1>5 DEF Inserting
  <2>2. InFlightCall(c)
    BY <2>1 DEF Writing, InFlight
  <2> QED
    BY <1>1, <1>3, <2>1, <2>2 DEF InFlightCall, StoredAt
<1>6. (\A b \in DOMAIN batches : batches[b].outcome = "pending" =>
         Inserting(batches[b].by) /\ batch[batches[b].by] = b)'
  <2> SUFFICES ASSUME NEW b \in DOMAIN batches, batches'[b].outcome = "pending"
               PROVE  (Inserting(batches[b].by) /\ batch[batches[b].by] = b)'
    BY <1>3 DEF Inserting
  <2>1. batches[b].outcome = "pending" /\ ~Dead(batches[b].by)
    BY <1>3
  <2>2. Inserting(batches[b].by) /\ batch[batches[b].by] = b
    BY <2>1 DEF Writing, InFlight
  <2> QED
    BY <1>1, <1>3, <1>4, <2>1, <2>2 DEF Inserting
<1>7. BatchesInOrder'
  BY <1>1, <1>3 DEF Writing, BatchesInOrder, StoredAt
<1>8. OutcomesTruthful'
  BY <1>1, <1>3 DEF Writing, OutcomesTruthful, StoredAt
<1> QED
  BY <1>5, <1>6, <1>7, <1>8 DEF Writing, InFlight, Inserting

LEMMA WritingStep == TypeInv /\ Writing /\ [Next]_vars => Writing'
<1> SUFFICES ASSUME TypeInv, Writing, [Next]_vars PROVE Writing'
  OBVIOUS
<1>t. /\ pc \in [Actors -> {"idle", "wait", "done"} \union Holding]
      /\ req \in [Actors -> Requests \union {NoRequest}]
      /\ next \in [Actors -> Nat \ {0}]
  BY DEF TypeInv, TypeOK
<1>1. CASE UNCHANGED <<rows, batches, batch, pc, req, next>>
  BY <1>1, WritingFrame DEF Inserting
<1>2. ASSUME NEW p \in Processes, Open(p) \/ InitSchema(p) \/ OpenFail(p)
      PROVE  Writing'
  BY <1>1, <1>2 DEF Open, InitSchema, OpenFail, callVars
<1>3. ASSUME NEW p \in Processes, Crash(p) PROVE Writing'
  BY <1>3, WritingCrash
<1>4. ASSUME NEW a \in Actors, NEW r \in Requests, Call(a, r) PROVE Writing'
  <2>1. CASE r.op = "insert"
    BY <1>4, <2>1, WritingCall
  <2>2. CASE r.op # "insert"
    <3>1. UNCHANGED <<rows, batches, batch>> /\ pc[a] = "idle" /\ req'[a] = r
      BY <1>4, <1>t, <2>2 DEF Call
    <3>2. \A b \in Actors \ {a} :
            pc'[b] = pc[b] /\ req'[b] = req[b] /\ next'[b] = next[b]
      BY <1>4, <1>t DEF Call
    <3> QED
      BY <2>2, <3>1, <3>2, WritingFrame DEF Inserting
  <2> QED
    BY <2>1, <2>2
<1>5. ASSUME NEW a \in Actors, Acquire(a) PROVE Writing'
  <2>1. UNCHANGED <<rows, batches, batch, req, next>> /\ pc[a] = "wait"
    BY <1>5 DEF Acquire
  <2>2. \A b \in Actors \ {a} : pc'[b] = pc[b]
    BY <1>5, <1>t DEF Acquire
  <2>3. req[a].op = "insert" => pc'[a] = "insert"
    BY <1>5, <1>t DEF Acquire
  <2>4. req[a].op # "insert" => ~Inserting(a)' /\ ~Inserting(a)
    BY <2>1 DEF Inserting
  <2> QED
    BY <2>1, <2>2, <2>3, <2>4, WritingFrame DEF Inserting
<1>6. ASSUME NEW a \in Actors, InsertRow(a) PROVE Writing'
  BY <1>6, WritingInsertRow
<1>7. ASSUME NEW a \in Actors, InsertFail(a) PROVE Writing'
  BY <1>7, WritingFinish DEF InsertFail, Answer
<1>8. ASSUME NEW a \in Actors, InsertDone(a) PROVE Writing'
  BY <1>8, WritingFinish DEF InsertDone, Answer
<1>9. ASSUME NEW a \in Actors, CountRows(a) \/ Aggregate(a) \/ ReadRecent(a) \/ QueryFail(a)
      PROVE  Writing'
  <2>1. UNCHANGED <<rows, batches, batch, req, next>>
    BY <1>9 DEF CountRows, Aggregate, ReadRecent, QueryFail
  <2>2. pc[a] \in {"count", "aggregate", "recent"} /\ pc'[a] \in {"aggregate", "done"}
    BY <1>9, <1>t DEF CountRows, Aggregate, ReadRecent, QueryFail, Answer
  <2>3. \A b \in Actors \ {a} : pc'[b] = pc[b]
    BY <1>9, <1>t DEF CountRows, Aggregate, ReadRecent, QueryFail, Answer
  <2> QED
    BY <2>1, <2>2, <2>3, WritingFrame DEF Inserting
<1>10. ASSUME NEW a \in Actors, Return(a) PROVE Writing'
  <2>1. UNCHANGED <<rows, batches, batch>> /\ pc[a] = "done" /\ pc'[a] = "idle"
    BY <1>10, <1>t DEF Return
  <2>2. \A b \in Actors \ {a} :
          pc'[b] = pc[b] /\ req'[b] = req[b] /\ next'[b] = next[b]
    BY <1>10, <1>t DEF Return
  <2> QED
    BY <2>1, <2>2, WritingFrame DEF Inserting
<1>11. CASE UNCHANGED vars
  BY <1>1, <1>11 DEF vars, callVars
<1> QED
  BY <1>2, <1>3, <1>4, <1>5, <1>6, <1>7, <1>8, <1>9, <1>10, <1>11
     DEF Next, ProcessStep, HeldStep

LEMMA SchemaStep == TypeInv /\ SchemaProgress /\ [Next]_vars => SchemaProgress'
<1> SUFFICES ASSUME TypeInv, SchemaProgress, [Next]_vars PROVE SchemaProgress'
  OBVIOUS
<1>t. /\ proc \in [Processes -> {"down", "opening", "up"}]
      /\ stmt \in [Processes -> 1..4] /\ schema \subseteq FullSchema
  BY DEF TypeInv, TypeOK
<1>1. CASE UNCHANGED procVars
  BY <1>1 DEF SchemaProgress, procVars
<1>2. ASSUME NEW p \in Processes, Open(p) PROVE SchemaProgress'
  BY <1>2, <1>t DEF Open, SchemaProgress
<1>3. ASSUME NEW p \in Processes, InitSchema(p) PROVE SchemaProgress'
  <2>1. schema \subseteq schema' /\ schema' \subseteq FullSchema
    BY <1>3, <1>t DEF InitSchema, FullSchema
  <2>2. ASSUME NEW q \in Processes, proc'[q] = "up" PROVE schema' = FullSchema
    <3>1. CASE proc[q] = "up"
      BY <2>1, <3>1 DEF SchemaProgress
    <3>2. CASE proc[q] # "up"
      <4>1. q = p /\ proc[p] = "opening" /\ stmt[p] = 4
        BY <1>3, <1>t, <2>2, <3>2, StepCount DEF InitSchema
      <4>2. \A i \in 1..3 : SchemaSteps[i] \in schema
        BY <4>1 DEF SchemaProgress
      <4>3. SchemaSteps[4] \in schema'
        BY <1>3, <4>1 DEF InitSchema
      <4>4. \A i \in 1..4 : SchemaSteps[i] \in schema'
        BY <2>1, <4>2, <4>3
      <4> QED
        BY <2>1, <4>4 DEF FullSchema
    <3> QED
      BY <3>1, <3>2
  <2>3. ASSUME NEW q \in Processes, proc'[q] = "opening", NEW i \in 1..(stmt'[q] - 1)
        PROVE  SchemaSteps[i] \in schema'
    <3>1. proc[q] = "opening"
      BY <1>3, <1>t, <2>3 DEF InitSchema
    <3>2. CASE i \in 1..(stmt[q] - 1)
      BY <2>1, <3>1, <3>2 DEF SchemaProgress
    <3>3. CASE i \notin 1..(stmt[q] - 1)
      <4>1. q = p /\ i = stmt[p]
        BY <1>3, <1>t, <2>3, <3>3, StepCount DEF InitSchema
      <4> QED
        BY <1>3, <4>1 DEF InitSchema
    <3> QED
      BY <3>2, <3>3
  <2> QED
    BY <2>2, <2>3 DEF SchemaProgress
<1>4. ASSUME NEW p \in Processes, OpenFail(p) PROVE SchemaProgress'
  BY <1>4, <1>t DEF OpenFail, SchemaProgress
<1>5. ASSUME NEW p \in Processes, Crash(p) PROVE SchemaProgress'
  BY <1>5, <1>t DEF Crash, SchemaProgress
<1>6. ASSUME NEW a \in Actors, Acquire(a) \/ HeldStep(a) \/ Return(a)
      PROVE  SchemaProgress'
  BY <1>1, <1>6 DEF Acquire, HeldStep, InsertRow, InsertFail, InsertDone, CountRows,
     Aggregate, ReadRecent, QueryFail, Return
<1>7. ASSUME NEW a \in Actors, NEW r \in Requests, Call(a, r) PROVE SchemaProgress'
  BY <1>1, <1>7 DEF Call
<1>8. CASE UNCHANGED vars
  BY <1>1, <1>8 DEF vars
<1> QED
  BY <1>2, <1>3, <1>4, <1>5, <1>6, <1>7, <1>8 DEF Next, ProcessStep

-----------------------------------------------------------------------------
StoreInv == TypeInv /\ LockHeldInCall /\ Writing /\ SchemaProgress

LEMMA StoreInvariant == Spec => []StoreInv
<1>1. Init => SchemaProgress
  BY DEF Init, SchemaProgress
<1>2. Init => StoreInv
  BY <1>1, TypeInit, MutexInit, WritingInit DEF StoreInv
<1>3. StoreInv /\ [Next]_vars => StoreInv'
  BY TypeStep, MutexStep, WritingStep, SchemaStep DEF StoreInv
<1> QED
  BY <1>2, <1>3, PTL DEF Spec

\* A half written batch and a query of the same process would both hold the
\* process's mutex.
LEMMA WholeFromInv == StoreInv => OwnBatchesWhole
<1> SUFFICES ASSUME StoreInv,
                    NEW a \in Actors, pc[a] \in {"count", "aggregate", "recent"},
                    NEW i \in DOMAIN rows,
                    ProcessOf[batches[rows[i].batch].by] = ProcessOf[a],
                    batches[rows[i].batch].outcome = "pending"
             PROVE  FALSE
  BY DEF OwnBatchesWhole
<1> DEFINE b == rows[i].batch
           c == batches[b].by
<1>1. /\ b \in DOMAIN batches /\ batches[b].outcome = "pending"
      /\ rows[i].pos \in DOMAIN batches[b].readings
  BY DEF StoreInv, Writing, BatchesInOrder
<1>2. batches[b] \in Batch
  BY <1>1, LenProperties, ElementOfSeq DEF StoreInv, TypeInv, TypeOK
<1>3. c \in Actors /\ batches[b].readings \in Seq(Reading)
  BY <1>2, BatchesAssumption DEF Batch
<1>4. Inserting(c) /\ batch[c] = b /\ InFlightCall(c)
  BY <1>1, <1>3 DEF StoreInv, Writing, InFlight
<1>5. rows[i].pos \in Nat \ {0} /\ rows[i].pos < next[c]
  BY <1>1, <1>3, <1>4, LenProperties DEF InFlightCall
<1>6. pc[c] = "insert"
  BY <1>4, <1>5 DEF Inserting, InFlightCall
<1>7. lock[ProcessOf[c]] = c /\ lock[ProcessOf[a]] = a
  BY <1>3, <1>6 DEF StoreInv, LockHeldInCall, Holding
<1> QED
  BY <1>6, <1>7

\* The store's safety properties hold for any processes, tasks and batches.
THEOREM StoreSafe == Spec => [](BatchesInOrder /\ OutcomesTruthful
                                /\ OwnBatchesWhole /\ SchemaReady)
<1>1. StoreInv => BatchesInOrder /\ OutcomesTruthful /\ OwnBatchesWhole /\ SchemaReady
  BY WholeFromInv DEF StoreInv, Writing, SchemaProgress, SchemaReady
<1> QED
  BY <1>1, StoreInvariant, PTL

\* For any number of processes and callers, a mutex is held only by a caller
\* that is inside a call.
THEOREM LockGivenBack == Spec => []LockHeldInCall
<1>1. StoreInv => LockHeldInCall
  BY DEF StoreInv
<1> QED
  BY <1>1, StoreInvariant, PTL

-----------------------------------------------------------------------------
\* What OwnRowsBounded needs: the count stays true of the rows that the process
\* itself has written, whatever other processes insert after it, because the
\* process's mutex is held until the aggregate.

\* Of the rows named by ids, those that actor a's process wrote.
OwnIn(table, history, a, ids) ==
    { i \in ids : ProcessOf[history[table[i].batch].by] = ProcessOf[a] }

Succeeded(a) == pc[a] = "done" /\ req[a].op = "analyze" /\ result[a].status = "Ok"

OwnCounted ==
    \A a \in Actors : pc[a] = "aggregate" =>
      Cardinality(OwnIn(rows, batches, a, Matching(a))) <= MaxAnalysisRows

OwnAnswered ==
    \A a \in Actors : Succeeded(a) =>
      /\ result[a].matched \subseteq DOMAIN rows
      /\ Cardinality(OwnIn(rows, batches, a, result[a].matched)) <= MaxAnalysisRows

OwnInv == OwnCounted /\ OwnAnswered

-----------------------------------------------------------------------------
\* The table and the history of calls only grow, and a call keeps its caller.
RowsKept == \A i \in DOMAIN rows : i \in DOMAIN rows' /\ rows'[i] = rows[i]

CallersKept ==
    \A b \in DOMAIN batches : b \in DOMAIN batches' /\ batches'[b].by = batches[b].by

\* A row that is new was not written by the process of an actor that is
\* between the two statements of an analysis.
NewRowsForeign ==
    \A i \in DOMAIN rows' \ DOMAIN rows : \A a \in Actors :
      pc[a] = "aggregate" => ProcessOf[batches'[rows'[i].batch].by] # ProcessOf[a]

\* Setting an outcome keeps the callers.
LEMMA OutcomeKeepsCallers ==
    ASSUME batches \in Seq(Batch), NEW b, NEW o, Outcome(b, o)
    PROVE  CallersKept
<1>1. DOMAIN batches' = DOMAIN batches
  BY DEF Outcome
<1>2. ASSUME NEW c \in DOMAIN batches PROVE batches'[c].by = batches[c].by
  <2>1. batches[c] \in Batch
    BY <1>2, LenProperties, ElementOfSeq
  <2>2. CASE c = b
    <3>1. batches'[c] = [batches[c] EXCEPT !.outcome = o]
      BY <1>2, <2>2 DEF Outcome
    <3> QED
      BY <2>1, <3>1 DEF Batch
  <2>3. CASE c # b
    BY <1>2, <2>3 DEF Outcome
  <2> QED
    BY <2>2, <2>3
<1> QED
  BY <1>1, <1>2 DEF CallersKept

LEMMA StepKeepsCallers == TypeInv /\ [Next]_vars => CallersKept
<1> SUFFICES ASSUME TypeInv, [Next]_vars PROVE CallersKept
  OBVIOUS
<1>t. batches \in Seq(Batch)
  BY DEF TypeInv, TypeOK
<1>1. CASE UNCHANGED batches
  BY <1>1 DEF CallersKept
<1>2. ASSUME NEW p \in Processes, Crash(p) PROVE CallersKept
  <2> DEFINE lost(b) == ProcessOf[b.by] = p /\ b.outcome = "pending"
  <2>1. batches' = [b \in DOMAIN batches |->
                      IF lost(batches[b]) THEN [batches[b] EXCEPT !.outcome = "lost"]
                                          ELSE batches[b]]
    BY <1>2 DEF Crash
  <2>2. ASSUME NEW c \in DOMAIN batches PROVE batches'[c].by = batches[c].by
    <3>1. batches[c] \in Batch
      BY <1>t, <2>2, LenProperties, ElementOfSeq
    <3>2. [batches[c] EXCEPT !.outcome = "lost"].by = batches[c].by
      BY <3>1 DEF Batch
    <3> QED
      BY <2>1, <3>2
  <2> QED
    BY <2>1, <2>2 DEF CallersKept
<1>3. ASSUME NEW p \in Processes, Open(p) \/ InitSchema(p) \/ OpenFail(p)
      PROVE  CallersKept
  BY <1>1, <1>3 DEF Open, InitSchema, OpenFail
<1>4. ASSUME NEW a \in Actors, NEW r \in Requests, Call(a, r) PROVE CallersKept
  <2>1. CASE r.op = "insert"
    <3>1. batches' = Append(batches, [by |-> a, readings |-> r.readings,
                                      outcome |-> "pending"])
      BY <1>4, <2>1 DEF Call
    <3> QED
      BY <1>t, <3>1, LenProperties DEF CallersKept
  <2>2. CASE r.op # "insert"
    BY <1>1, <1>4, <2>2 DEF Call
  <2> QED
    BY <2>1, <2>2
<1>5. ASSUME NEW a \in Actors, InsertFail(a) \/ InsertDone(a) PROVE CallersKept
  BY <1>5, <1>t, OutcomeKeepsCallers DEF InsertFail, InsertDone
<1>6. ASSUME NEW a \in Actors, \/ Acquire(a) \/ InsertRow(a) \/ CountRows(a)
                               \/ Aggregate(a) \/ ReadRecent(a) \/ QueryFail(a)
                               \/ Return(a)
      PROVE  CallersKept
  BY <1>1, <1>6 DEF Acquire, InsertRow, CountRows, Aggregate, ReadRecent, QueryFail,
                    Return
<1>7. CASE UNCHANGED vars
  BY <1>1, <1>7 DEF vars
<1> QED
  BY <1>2, <1>3, <1>4, <1>5, <1>6, <1>7 DEF Next, ProcessStep, HeldStep

\* Only InsertRow touches the table.
LEMMA OnlyInsertWrites ==
    ASSUME [Next]_vars, \A a \in Actors : ~InsertRow(a)
    PROVE  rows' = rows
<1>1. CASE \E p \in Processes : ProcessStep(p)
  BY <1>1 DEF ProcessStep, Open, InitSchema, OpenFail, Crash
<1>2. CASE \E a \in Actors : \/ \E r \in Requests : Call(a, r)
                            \/ Acquire(a) \/ HeldStep(a) \/ Return(a)
  BY <1>2 DEF Call, Acquire, HeldStep, InsertFail, InsertDone, CountRows,
     Aggregate, ReadRecent, QueryFail, Return
<1> QED
  BY <1>1, <1>2 DEF Next, vars

\* Whoever inserts holds its process's mutex, so no actor of that process is
\* between the two statements of an analysis.
LEMMA InsertIsForeign ==
    ASSUME StoreInv, NEW b \in Actors, InsertRow(b)
    PROVE  RowsKept /\ NewRowsForeign
<1>1. /\ rows \in Seq(Row) /\ batches' = batches /\ pc[b] = "insert"
      /\ rows' = Append(rows, [reading |-> req[b].readings[next[b]],
                               batch |-> batch[b], pos |-> next[b]])
  BY DEF InsertRow, StoreInv, TypeInv, TypeOK
<1>2. Len(rows) \in Nat /\ DOMAIN rows = 1..Len(rows)
  BY <1>1, LenProperties
<1>3. DOMAIN rows' = 1..(Len(rows) + 1)
  BY <1>1, <1>2
<1>4. \A i \in DOMAIN rows : rows'[i] = rows[i]
  BY <1>1, <1>2
<1>5. rows'[Len(rows) + 1].batch = batch[b]
  BY <1>1, <1>2
<1>6. batches[batch[b]].by = b
  BY <1>1 DEF StoreInv, Writing, InFlight, InFlightCall, Inserting, TypeInv, Control
<1>7. ASSUME NEW a \in Actors, pc[a] = "aggregate" PROVE ProcessOf[b] # ProcessOf[a]
  BY <1>1, <1>7 DEF StoreInv, LockHeldInCall, Holding
<1>8. RowsKept
  BY <1>2, <1>3, <1>4 DEF RowsKept
<1>9. NewRowsForeign
  <2>1. \A i \in DOMAIN rows' \ DOMAIN rows : i = Len(rows) + 1
    BY <1>2, <1>3
  <2> QED
    BY <1>1, <1>5, <1>6, <1>7, <2>1 DEF NewRowsForeign
<1> QED
  BY <1>8, <1>9

LEMMA StepKeepsRows == StoreInv /\ [Next]_vars => RowsKept /\ NewRowsForeign
<1> SUFFICES ASSUME StoreInv, [Next]_vars PROVE RowsKept /\ NewRowsForeign
  OBVIOUS
<1>1. CASE \E b \in Actors : InsertRow(b)
  BY <1>1, InsertIsForeign
<1>2. CASE \A b \in Actors : ~InsertRow(b)
  <2>1. rows' = rows
    BY <1>2, OnlyInsertWrites
  <2> QED
    BY <2>1 DEF RowsKept, NewRowsForeign
<1> QED
  BY <1>1, <1>2

-----------------------------------------------------------------------------
\* Whose a row is does not change.
LEMMA OwnKept ==
    ASSUME StoreInv, RowsKept, CallersKept, NEW a, NEW ids \in SUBSET DOMAIN rows
    PROVE  OwnIn(rows', batches', a, ids) = OwnIn(rows, batches, a, ids)
<1>1. \A i \in ids : rows'[i] = rows[i] /\ rows[i].batch \in DOMAIN batches
  BY DEF RowsKept, StoreInv, Writing, BatchesInOrder
<1>2. \A i \in ids : batches'[rows'[i].batch].by = batches[rows[i].batch].by
  BY <1>1 DEF CallersKept
<1> QED
  BY <1>2 DEF OwnIn

\* What an actor between the two statements would find of its own process.
LEMMA OwnMatchKept ==
    ASSUME StoreInv, RowsKept, CallersKept, NewRowsForeign,
           NEW a \in Actors, pc[a] = "aggregate", req'[a] = req[a]
    PROVE  OwnIn(rows', batches', a, Matching(a)') = OwnIn(rows, batches, a, Matching(a))
<1> DEFINE old == Matching(a)
           new == Matching(a)'
<1>1. old \in SUBSET DOMAIN rows /\ new \in SUBSET DOMAIN rows'
  BY DEF Matching, MatchingIds
<1>2. \A i \in DOMAIN rows : i \in new <=> i \in old
  BY DEF RowsKept, Matching, MatchingIds
<1>3. OwnIn(rows', batches', a, old) = OwnIn(rows, batches, a, old)
  BY <1>1, OwnKept
<1>4. \A i \in new : i \notin DOMAIN rows =>
        ProcessOf[batches'[rows'[i].batch].by] # ProcessOf[a]
  BY <1>1 DEF NewRowsForeign
<1> HIDE DEF old, new
<1>5. OwnIn(rows', batches', a, new) = OwnIn(rows', batches', a, old)
  BY <1>1, <1>2, <1>4 DEF OwnIn
<1> QED
  BY <1>3, <1>5 DEF old, new

\* What a step does with an actor's call.
Idles(a)  == pc'[a] = pc[a] /\ req'[a] = req[a] /\ result'[a] = result[a]
Leaves(a) == \/ pc'[a] \notin {"aggregate", "done"}
             \/ pc'[a] = "done" /\ (req'[a].op # "analyze" \/ result'[a].status # "Ok")

\* A step keeps OwnInv where it leaves an actor alone or ends no analysis of it.
LEMMA OwnFrame ==
    ASSUME StoreInv, OwnInv, RowsKept, CallersKept, NewRowsForeign, NEW a \in Actors,
           Idles(a) \/ Leaves(a)
    PROVE  /\ pc'[a] = "aggregate" =>
                Cardinality(OwnIn(rows', batches', a, Matching(a)')) <= MaxAnalysisRows
           /\ Succeeded(a)' =>
                /\ result'[a].matched \subseteq DOMAIN rows'
                /\ Cardinality(OwnIn(rows', batches', a, result'[a].matched))
                     <= MaxAnalysisRows
<1>1. ASSUME pc'[a] = "aggregate"
      PROVE  Cardinality(OwnIn(rows', batches', a, Matching(a)')) <= MaxAnalysisRows
  <2>1. pc[a] = "aggregate" /\ req'[a] = req[a]
    BY <1>1 DEF Idles, Leaves
  <2> QED
    BY <2>1, OwnMatchKept DEF OwnInv, OwnCounted
<1>2. ASSUME Succeeded(a)'
      PROVE  /\ result'[a].matched \subseteq DOMAIN rows'
             /\ Cardinality(OwnIn(rows', batches', a, result'[a].matched))
                  <= MaxAnalysisRows
  <2>1. Succeeded(a) /\ result'[a] = result[a]
    BY <1>2 DEF Succeeded, Idles, Leaves
  <2>2. result[a].matched \in SUBSET DOMAIN rows
    BY <2>1 DEF OwnInv, OwnAnswered
  <2>3. OwnIn(rows', batches', a, result[a].matched)
          = OwnIn(rows, batches, a, result[a].matched)
    BY <2>2, OwnKept
  <2> QED
    BY <2>1, <2>2, <2>3 DEF OwnInv, OwnAnswered, RowsKept
<1> QED
  BY <1>1, <1>2

\* Every actor idles, leaves, or goes on with its analysis.
LEMMA StepKinds ==
    ASSUME TypeInv, [Next]_vars, NEW a \in Actors
    PROVE  Idles(a) \/ Leaves(a) \/ CountRows(a) \/ Aggregate(a)
<1>t. /\ pc \in [Actors -> {"idle", "wait", "done"} \union Holding]
      /\ req \in [Actors -> Requests \union {NoRequest}]
      /\ DOMAIN result = Actors
  BY DEF TypeInv, TypeOK
<1>1. ASSUME UNCHANGED <<pc, req, result>> PROVE Idles(a)
  BY <1>1 DEF Idles
<1>2. ASSUME NEW p \in Processes, ProcessStep(p) PROVE Idles(a) \/ Leaves(a)
  <2>1. CASE Crash(p)
    BY <2>1, <1>t DEF Crash, Idles, Leaves
  <2> QED
    BY <1>1, <1>2, <2>1 DEF ProcessStep, Open, InitSchema, OpenFail, callVars
<1>3. ASSUME NEW b \in Actors, NEW r \in Requests, Call(b, r)
      PROVE  Idles(a) \/ Leaves(a)
  <2>1. a # b => Idles(a)
    BY <1>3, <1>t DEF Call, Idles
  <2>2. a = b => Leaves(a)
    BY <1>3, <1>t DEF Call, Leaves, Error
  <2> QED
    BY <2>1, <2>2
<1>4. ASSUME NEW b \in Actors, Acquire(b) PROVE Idles(a) \/ Leaves(a)
  <2>1. a # b => Idles(a)
    BY <1>4, <1>t DEF Acquire, Idles
  <2>2. ASSUME a = b PROVE Leaves(a)
    <3>1. req[b].op \in {"insert", "analyze", "recent"}
      BY <1>4, RequestKinds DEF Acquire, TypeInv, TypeOK, Control
    <3>2. CASE req[b].op = "insert"
      BY <1>4, <1>t, <2>2, <3>2 DEF Acquire, Leaves
    <3>3. CASE req[b].op = "analyze"
      BY <1>4, <1>t, <2>2, <3>3 DEF Acquire, Leaves
    <3>4. CASE req[b].op = "recent"
      BY <1>4, <1>t, <2>2, <3>4 DEF Acquire, Leaves
    <3> QED
      BY <3>1, <3>2, <3>3, <3>4
  <2> QED
    BY <2>1, <2>2
<1>5. ASSUME NEW b \in Actors, InsertFail(b) \/ InsertDone(b) \/ ReadRecent(b) \/ QueryFail(b)
      PROVE  Idles(a) \/ Leaves(a)
  <2>1. a # b => Idles(a)
    BY <1>5, <1>t DEF InsertFail, InsertDone, ReadRecent, QueryFail, Answer, Idles
  <2>2. ASSUME a = b PROVE Leaves(a)
    <3>1. pc'[a] = "done" /\ req' = req
      BY <1>5, <1>t, <2>2 DEF InsertFail, InsertDone, ReadRecent, QueryFail, Answer
    <3>2. req[a].op # "analyze" \/ result'[a].status # "Ok"
      BY <1>5, <1>t, <2>2 DEF InsertFail, InsertDone, ReadRecent, QueryFail, Answer,
         Error, TypeInv, Control
    <3> QED
      BY <3>1, <3>2 DEF Leaves
  <2> QED
    BY <2>1, <2>2
<1>6. ASSUME NEW b \in Actors, CountRows(b) \/ Aggregate(b)
      PROVE  Idles(a) \/ CountRows(a) \/ Aggregate(a)
  BY <1>6, <1>t DEF CountRows, Aggregate, Answer, Idles
<1>7. ASSUME NEW b \in Actors, Return(b) PROVE Idles(a) \/ Leaves(a)
  BY <1>7, <1>t DEF Return, Idles, Leaves
<1>8. ASSUME NEW b \in Actors, InsertRow(b) PROVE Idles(a)
  BY <1>1, <1>8 DEF InsertRow
<1>9. CASE UNCHANGED vars
  BY <1>1, <1>9 DEF vars, callVars
<1> QED
  BY <1>2, <1>3, <1>4, <1>5, <1>6, <1>7, <1>8, <1>9 DEF Next, HeldStep

LEMMA MatchingSize ==
    ASSUME TypeInv, NEW a \in Actors
    PROVE  Cardinality(Matching(a)) \in Nat
<1>1. DOMAIN rows = 1..Len(rows) /\ Len(rows) \in Nat
  BY LenProperties DEF TypeInv, TypeOK
<1>2. IsFiniteSet(DOMAIN rows)
  BY <1>1, FS_Interval
<1>3. Matching(a) \in SUBSET DOMAIN rows
  BY DEF Matching, MatchingIds
<1> QED
  BY <1>2, <1>3, FS_Subset, FS_CardinalityType

\* The count bounds every part of what it counts.
LEMMA OwnBelowAll ==
    ASSUME TypeInv, NEW a \in Actors, Cardinality(Matching(a)) <= MaxAnalysisRows
    PROVE  Cardinality(OwnIn(rows, batches, a, Matching(a))) <= MaxAnalysisRows
<1> DEFINE all == Matching(a)
           own == OwnIn(rows, batches, a, all)
<1>1. DOMAIN rows = 1..Len(rows) /\ Len(rows) \in Nat
  BY LenProperties DEF TypeInv, TypeOK
<1>2. IsFiniteSet(DOMAIN rows)
  BY <1>1, FS_Interval
<1>3. all \in SUBSET DOMAIN rows
  BY DEF Matching, MatchingIds
<1>4. IsFiniteSet(all)
  BY <1>2, <1>3, FS_Subset
<1>5. own \in SUBSET all
  BY DEF OwnIn
<1> HIDE DEF all, own
<1>6. Cardinality(own) <= Cardinality(all) /\ Cardinality(own) \in Nat /\ Cardinality(all) \in Nat
  BY <1>4, <1>5, FS_Subset, FS_CardinalityType
<1> QED
  BY <1>6, MaxRowsAssumption DEF all, own

LEMMA OwnStep ==
    ASSUME StoreInv, OwnInv, [Next]_vars
    PROVE  OwnInv'
<1>t. /\ TypeInv
      /\ pc \in [Actors -> {"idle", "wait", "done"} \union Holding]
      /\ DOMAIN result = Actors
  BY DEF StoreInv, TypeInv, TypeOK
<1>1. RowsKept /\ NewRowsForeign /\ CallersKept
  BY StepKeepsRows, StepKeepsCallers DEF StoreInv
<1> DEFINE Good(a) ==
             /\ pc'[a] = "aggregate" =>
                  Cardinality(OwnIn(rows', batches', a, Matching(a)')) <= MaxAnalysisRows
             /\ Succeeded(a)' =>
                  /\ result'[a].matched \subseteq DOMAIN rows'
                  /\ Cardinality(OwnIn(rows', batches', a, result'[a].matched))
                       <= MaxAnalysisRows
<1>2. ASSUME NEW a \in Actors PROVE Good(a)
  <2>1. CASE Idles(a) \/ Leaves(a)
    BY <1>1, <2>1, OwnFrame
  <2>2. CASE CountRows(a) /\ ~Leaves(a)
    <3>1. CASE Cardinality(Matching(a)) > MaxAnalysisRows
      BY <1>t, <2>2, <3>1 DEF CountRows, Answer, Error, Leaves
    <3>2. CASE ~(Cardinality(Matching(a)) > MaxAnalysisRows)
      <4>1. Cardinality(Matching(a)) <= MaxAnalysisRows
        BY <1>t, <3>2, MatchingSize, MaxRowsAssumption
      <4>2. Cardinality(OwnIn(rows, batches, a, Matching(a))) <= MaxAnalysisRows
        BY <1>t, <4>1, OwnBelowAll
      <4>3. rows' = rows /\ batches' = batches /\ req' = req /\ pc'[a] = "aggregate"
        BY <1>t, <2>2, <3>2 DEF CountRows
      <4>4. Matching(a)' = Matching(a)
        BY <4>3 DEF Matching
      <4> QED
        BY <4>2, <4>3, <4>4 DEF Succeeded
    <3> QED
      BY <3>1, <3>2
  <2>3. CASE Aggregate(a)
    <3>1. /\ rows' = rows /\ batches' = batches /\ pc[a] = "aggregate"
          /\ pc'[a] = "done" /\ result'[a].matched = Matching(a)
      BY <1>t, <2>3 DEF Aggregate, Answer
    <3>2. Cardinality(OwnIn(rows, batches, a, Matching(a))) <= MaxAnalysisRows
      BY <3>1 DEF OwnInv, OwnCounted
    <3> QED
      BY <3>1, <3>2 DEF Matching, MatchingIds
  <2> QED
    BY <1>t, <2>1, <2>2, <2>3, StepKinds
<1>3. OwnCounted'
  BY <1>2 DEF OwnCounted
<1>4. OwnAnswered'
  BY <1>2 DEF OwnAnswered
<1> QED
  BY <1>3, <1>4 DEF OwnInv

-----------------------------------------------------------------------------
\* For any number of processes, actors and rows: an analysis that succeeds
\* covers at most MAX_ANALYSIS_ROWS rows of its own process, although another
\* process may insert between COUNT and the aggregate (analyze, src/storage.rs).
THEOREM OwnRowsLimit == Spec => []OwnRowsBounded
<1> DEFINE Inv == StoreInv /\ OwnInv
<1>1. Init => OwnInv
  BY DEF Init, OwnInv, OwnCounted, OwnAnswered, Succeeded
<1>2. OwnInv /\ StoreInv /\ [Next]_vars => OwnInv'
  BY OwnStep
<1>3. OwnInv => OwnRowsBounded
  BY DEF OwnInv, OwnAnswered, OwnRowsBounded, OwnIn, Succeeded
<1> QED
  BY <1>1, <1>2, <1>3, StoreInvariant, PTL DEF Spec
=============================================================================
