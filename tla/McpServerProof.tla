--------------------------- MODULE McpServerProof ---------------------------
(***************************************************************************)
(* Proofs about McpServer, for any number of servers, threads and calls.   *)
(* TaskInv says where the record of a call stands at each place of its     *)
(* handler; the audit properties follow from it.                           *)
(***************************************************************************)
EXTENDS McpServer, SequenceTheorems, TLAPS

Emitting == {"stderr", "lock"} \union Writing

\* The result event that goes with an answer.
Result(id, a) == IF a.status = "success" THEN Success(id, a.bytes) ELSE Failure(id)

\* The answers that are given for a payload of that size, 0 if there is none.
Given(a, size) ==
    \/ a.status = "error" /\ (size = 0 \/ size > MaxBytes)
    \/ a.status = "success" /\ a.bytes = size /\ size \in Nat /\ size <= MaxBytes

Allowed(t) == TokenRequired => call[t].token = "right"

Trail(t) == stderr[call[t].id]

\* A thread is idle or emits its invoke event, works or waits for ever, emits its
\* result event, has done so, or has panicked.
Idle(t) == pc[t] = "idle" /\ call[t] = NoCall /\ event[t] = NoEvent /\ payload[t] = 0

Invoking(t) ==
    /\ pc[t] \in Emitting
    /\ event[t] = Invoke(call[t].id)
    /\ payload[t] = 0
    /\ Trail(t) = IF pc[t] = "stderr" THEN <<>> ELSE <<Invoke(call[t].id)>>

Working(t) ==
    /\ pc[t] \in {"authorize", "window", "read", "cap", "hung"}
    /\ event[t] = NoEvent
    /\ pc[t] # "cap" => payload[t] = 0
    /\ Trail(t) = <<Invoke(call[t].id)>>
    /\ pc[t] # "authorize" => Allowed(t)

Closing(t) ==
    /\ pc[t] \in Emitting
    /\ Given(answer[t], payload[t])
    /\ event[t] = Result(call[t].id, answer[t])
    /\ Trail(t) = IF pc[t] = "stderr" THEN <<Invoke(call[t].id)>>
                                      ELSE Record(call[t].id, answer[t])

Closed(t) ==
    /\ pc[t] = "answered"
    /\ Given(answer[t], payload[t])
    /\ event[t] = NoEvent
    /\ Trail(t) = Record(call[t].id, answer[t])

Lost(t) == pc[t] = "panicked" /\ event[t] = NoEvent

InCall(t) ==
    /\ call[t] \in Request
    /\ call[t].id <= issued
    /\ Invoking(t) \/ Working(t) \/ Closing(t) \/ Closed(t) \/ Lost(t)

TaskInv(t) == Idle(t) \/ InCall(t)

\* No two calls have one id.
Distinct ==
    \A t, u \in Tasks :
      t # u /\ pc[t] # "idle" /\ pc[u] # "idle" => call[t].id # call[u].id

\* Calls that have not come have no record; those that have read, have one.
Recorded ==
    \A id \in Ids :
      /\ id > issued => stderr[id] = <<>>
      /\ id \in reads => /\ id <= issued
                         /\ stderr[id] # <<>> /\ stderr[id][1] = Invoke(id)

McpInv ==
    /\ TypeOK
    /\ \A t \in Tasks : TaskInv(t)
    /\ Distinct
    /\ Recorded
    /\ FailClosed

-----------------------------------------------------------------------------
\* What Append returns.
LEMMA AppendLast ==
    ASSUME NEW S, NEW s \in Seq(S), NEW y \in S, NEW n, n = Len(s) + 1
    PROVE  Len(Append(s, y)) = n /\ Append(s, y)[n] = y
  BY AppendProperties

LEMMA AppendOld ==
    ASSUME NEW S, NEW s \in Seq(S), NEW y \in S, NEW i \in 1..Len(s)
    PROVE  Append(s, y)[i] = s[i]
  BY AppendProperties

LEMMA AppendToOne ==
    ASSUME NEW S, NEW s \in Seq(S), Len(s) = 1, NEW y \in S,
           NEW both \in Seq(S), Len(both) = 2, both[1] = s[1], both[2] = y
    PROVE  Append(s, y) = both
<1>1. Append(s, y) \in Seq(S)
  OBVIOUS
<1>2. 2 = Len(s) + 1 /\ 1 \in 1..Len(s)
  OBVIOUS
<1>3. Len(Append(s, y)) = 2 /\ Append(s, y)[2] = y
  BY <1>2, AppendLast
<1>4. Append(s, y)[1] = s[1]
  BY <1>2, AppendOld, Zenon
<1> DEFINE r == Append(s, y)
<1> HIDE DEF r
<1>6. \A i \in 1..2 : r[i] = both[i]
  BY <1>3, <1>4 DEF r
<1> QED
  BY <1>1, <1>3, <1>6, SeqEqual DEF r

LEMMA AppendSecond ==
    ASSUME NEW x, NEW y PROVE Append(<<x>>, y) = <<x, y>>
<1>1. <<x>> \in Seq({x, y}) /\ Len(<<x>>) = 1 /\ <<x>>[1] = x
  OBVIOUS
<1>2. <<x, y>> \in Seq({x, y}) /\ Len(<<x, y>>) = 2 /\ <<x, y>>[1] = x /\ <<x, y>>[2] = y
  OBVIOUS
<1> QED
  BY <1>1, <1>2, AppendToOne, Zenon

LEMMA PayloadSize ==
    ASSUME TypeOK, NEW t \in Tasks
    PROVE  payload[t] \in Nat /\ MaxBytes \in Nat
<1>1. payload[t] \in Sizes \/ payload[t] = 0
  BY DEF TypeOK
<1>2. payload[t] \in Sizes => payload[t] \in Nat
  BY BytesAssumption, Zenon
<1> QED
  BY <1>1, <1>2, BytesAssumption

\* Events of a call are events.
LEMMA EventTypes ==
    ASSUME NEW id \in Ids
    PROVE  /\ Invoke(id) \in Event /\ Failure(id) \in Event
           /\ \A size \in Nat : Success(id, size) \in Event
           /\ Invoke(id).id = id /\ Failure(id).id = id
           /\ \A size \in Nat : Success(id, size).id = id
           /\ Invoke(id).type = "invoke" /\ Failure(id).type = "result"
           /\ \A size \in Nat : Success(id, size).type = "result"
  BY DEF Invoke, Failure, Success, Event

LEMMA ResultTypes ==
    ASSUME NEW id \in Ids, NEW a, NEW size, Given(a, size)
    PROVE  Result(id, a) \in Event /\ Result(id, a).id = id /\ Result(id, a).type = "result"
<1>1. CASE a.status = "success"
  <2>1. a.bytes \in Nat
    BY <1>1 DEF Given
  <2> QED
    BY <1>1, <2>1, EventTypes DEF Result
<1>2. CASE a.status # "success"
  BY <1>2, EventTypes DEF Result
<1> QED
  BY <1>1, <1>2

\* What the record says of a thread that emits an event.
LEMMA EmittedEvent ==
    ASSUME McpInv, NEW t \in Tasks, pc[t] \in Emitting
    PROVE  /\ call[t] \in Request /\ call[t].id \in Ids /\ call[t].id <= issued
           /\ event[t] \in Event /\ event[t].id = call[t].id
           /\ Invoking(t) \/ Closing(t)
           /\ Invoking(t) => event[t].type = "invoke"
           /\ Closing(t) => event[t].type = "result"
<1>1. InCall(t) /\ (Invoking(t) \/ Closing(t))
  BY DEF McpInv, TaskInv, Idle, InCall, Working, Closed, Lost, Emitting, Writing
<1>2. call[t] \in Request /\ call[t].id \in Ids /\ call[t].id <= issued
  BY <1>1 DEF InCall, Request
<1>3. ASSUME Invoking(t)
      PROVE event[t] \in Event /\ event[t].id = call[t].id /\ event[t].type = "invoke"
  BY <1>2, <1>3, EventTypes DEF Invoking
<1>4. ASSUME Closing(t)
      PROVE event[t] \in Event /\ event[t].id = call[t].id /\ event[t].type = "result"
  BY <1>2, <1>4, ResultTypes DEF Closing
<1> QED
  BY <1>1, <1>2, <1>3, <1>4

\* A thread that is left alone keeps its invariant.
LEMMA TaskFrame ==
    ASSUME TypeOK, NEW u \in Tasks, TaskInv(u), issued' \in Nat, issued <= issued',
           pc'[u] = pc[u], call'[u] = call[u], event'[u] = event[u],
           answer'[u] = answer[u], payload'[u] = payload[u],
           pc[u] # "idle" => stderr'[call[u].id] = stderr[call[u].id]
    PROVE  TaskInv(u)'
<1>1. CASE Idle(u)
  BY <1>1 DEF Idle, TaskInv
<1>2. CASE InCall(u)
  <2>1. pc[u] # "idle"
    BY <1>2 DEF InCall, Invoking, Working, Closing, Closed, Lost, Emitting, Writing
  <2>2. Trail(u)' = Trail(u)
    BY <2>1 DEF Trail
  <2>3. Allowed(u)' = Allowed(u)
    BY DEF Allowed
  <2>4. call'[u] \in Request /\ call'[u].id <= issued'
    BY <1>2 DEF InCall, Request, Ids, TypeOK
  <2>5. Invoking(u) => Invoking(u)'
    BY <2>2 DEF Invoking
  <2>6. Working(u) => Working(u)'
    BY <2>2, <2>3 DEF Working
  <2>7. Closing(u) => Closing(u)'
    BY <2>2 DEF Closing
  <2>8. Closed(u) => Closed(u)'
    BY <2>2 DEF Closed
  <2>9. Lost(u) => Lost(u)'
    BY DEF Lost
  <2> QED
    BY <1>2, <2>4, <2>5, <2>6, <2>7, <2>8, <2>9 DEF InCall, TaskInv
<1> QED
  BY <1>1, <1>2 DEF TaskInv

\* A step of one thread, which may add to the record of its own call only.
LEMMA OwnStepFrame ==
    ASSUME McpInv, NEW t \in Tasks,
           \A u \in Tasks \ {t} : /\ pc'[u] = pc[u] /\ call'[u] = call[u]
                                  /\ event'[u] = event[u] /\ answer'[u] = answer[u]
                                  /\ payload'[u] = payload[u],
           \A id \in Ids : id # call[t].id => stderr'[id] = stderr[id],
           issued' = issued,
           pc[t] # "idle", pc'[t] = "idle" \/ call'[t] = call[t],
           TaskInv(t)'
    PROVE  (\A u \in Tasks : TaskInv(u)') /\ Distinct'
<1>1. ASSUME NEW u \in Tasks PROVE TaskInv(u)'
  <2>1. CASE u = t
    BY <2>1
  <2>2. CASE u # t
    <3>1. pc[u] # "idle" => call[u].id \in Ids /\ call[u].id # call[t].id
      BY <2>2 DEF McpInv, Distinct, TaskInv, Idle, InCall, Request
    <3> QED
      BY <2>2, <3>1, TaskFrame DEF McpInv, TypeOK
  <2> QED
    BY <2>1, <2>2
<1>2. Distinct'
  BY DEF McpInv, Distinct
<1> QED
  BY <1>1, <1>2

-----------------------------------------------------------------------------
LEMMA InitMcp == Init => McpInv
<1> SUFFICES ASSUME Init PROVE McpInv
  OBVIOUS
<1>1. TypeOK
  <2>1. <<>> \in Seq(Event) /\ <<>> \in Seq(Event \union {Newline})
    BY EmptySeq
  <2> QED
    BY <2>1, MaxCallsAssumption DEF Init, TypeOK, Places
<1>2. \A t \in Tasks : Idle(t)
  BY DEF Init, Idle
<1> QED
  BY <1>1, <1>2 DEF Init, McpInv, TaskInv, Distinct, Recorded, FailClosed

LEMMA StepInvoked ==
    ASSUME McpInv, NEW t \in Tasks, NEW r \in Request, Invoked(t, r)
    PROVE  McpInv'
<1>1. /\ pc[t] = "idle" /\ issued < MaxCalls /\ r.id = issued + 1 /\ issued' = issued + 1
      /\ r.id \in Ids /\ r \in Request
  BY DEF Invoked, Request
<1>2. /\ issued \in Nat /\ MaxCalls \in Nat
      /\ pc \in [Tasks -> Places] /\ call \in [Tasks -> Request \union {NoCall}]
      /\ event \in [Tasks -> Event \union {NoEvent}]
  BY MaxCallsAssumption DEF McpInv, TypeOK
<1>3. /\ call' = [call EXCEPT ![t] = r] /\ event' = [event EXCEPT ![t] = Invoke(r.id)]
      /\ pc' = [pc EXCEPT ![t] = "stderr"]
      /\ UNCHANGED <<server, payload, answer, auditVars, reads>>
  BY DEF Invoked, Emit, At
<1>4. TypeOK'
  <2>1. Invoke(r.id) \in Event
    BY <1>1, EventTypes
  <2>2. pc' \in [Tasks -> Places] /\ call' \in [Tasks -> Request \union {NoCall}]
        /\ event' \in [Tasks -> Event \union {NoEvent}] /\ issued' \in 0..MaxCalls
    BY <1>1, <1>2, <1>3, <2>1 DEF Places
  <2> QED
    BY <1>3, <2>2 DEF McpInv, TypeOK, auditVars
<1>5. stderr[r.id] = <<>>
  BY <1>1, <1>2 DEF McpInv, Recorded
<1>6. TaskInv(t)'
  <2>1. /\ call'[t] = r /\ event'[t] = Invoke(r.id) /\ pc'[t] = "stderr"
        /\ stderr' = stderr /\ payload' = payload
    BY <1>2, <1>3 DEF auditVars
  <2>3. payload[t] = 0
    BY <1>1 DEF McpInv, TaskInv, Idle, InCall, Invoking, Working, Closing, Closed, Lost,
                Emitting, Writing
  <2>2. Invoking(t)'
    BY <1>5, <2>1, <2>3 DEF Invoking, Trail, Emitting
  <2> QED
    BY <1>1, <1>2, <2>1, <2>2 DEF TaskInv, InCall
<1>7. ASSUME NEW u \in Tasks PROVE TaskInv(u)'
  <2>1. CASE u = t
    BY <1>6, <2>1
  <2>2. CASE u # t
    BY <1>1, <1>2, <1>3, <2>2, TaskFrame DEF McpInv, auditVars
  <2> QED
    BY <2>1, <2>2
<1>8. \A u \in Tasks \ {t} : pc[u] # "idle" => call[u].id \in Ids /\ call[u].id <= issued
  BY DEF McpInv, TaskInv, Idle, InCall, Request
<1>9. Distinct'
  <2>1. \A u \in Tasks \ {t} : pc[u] # "idle" => call[u].id # r.id
    BY <1>1, <1>2, <1>8 DEF Ids
  <2> QED
    BY <1>2, <1>3, <2>1 DEF McpInv, Distinct
<1>10. Recorded'
  BY <1>1, <1>2, <1>3 DEF McpInv, Recorded, auditVars, Ids
<1>11. FailClosed'
  <2>1. r.id \notin reads
    BY <1>1, <1>2 DEF McpInv, Recorded
  <2> QED
    BY <1>2, <1>3, <2>1 DEF McpInv, FailClosed
<1> QED
  BY <1>4, <1>7, <1>9, <1>10, <1>11 DEF McpInv

\* An event that is added to the record of its call leaves the other records, and
\* what a record begins with.
LEMMA EmittedRecord ==
    ASSUME McpInv, NEW id \in Ids, id <= issued, NEW e \in Event,
           stderr'[id] = Append(stderr[id], e),
           \A i \in Ids : i # id => stderr'[i] = stderr[i],
           UNCHANGED <<issued, reads>>
    PROVE  Recorded'
<1>1. stderr \in [Ids -> Seq(Event)] /\ issued \in Nat
  BY MaxCallsAssumption DEF McpInv, TypeOK
<1>2. ASSUME NEW i \in Ids
      PROVE  /\ i > issued => stderr'[i] = <<>>
             /\ i \in reads => /\ i <= issued
                               /\ stderr'[i] # <<>> /\ stderr'[i][1] = Invoke(i)
  <2>1. CASE i = id
    <3>1. ~(i > issued)
      BY <1>1, <2>1 DEF Ids
    <3>2. ASSUME i \in reads PROVE stderr'[i] # <<>> /\ stderr'[i][1] = Invoke(i)
      <4>1. stderr[i] # <<>> /\ stderr[i][1] = Invoke(i) /\ stderr[i] \in Seq(Event)
        BY <1>1, <3>2 DEF McpInv, Recorded
      <4>2. Len(stderr[i]) \in Nat /\ Len(stderr[i]) >= 1
        BY <4>1, EmptySeq, LenProperties
      <4> QED
        BY <2>1, <4>1, <4>2, AppendProperties
    <3> QED
      BY <2>1, <3>1, <3>2
  <2>2. CASE i # id
    BY <2>2 DEF McpInv, Recorded
  <2> QED
    BY <2>1, <2>2
<1> QED
  BY <1>2 DEF Recorded

LEMMA StepEmitStderr ==
    ASSUME McpInv, NEW t \in Tasks, EmitStderr(t)
    PROVE  McpInv'
<1> DEFINE id == call[t].id
<1>1. /\ pc[t] = "stderr" /\ pc' = [pc EXCEPT ![t] = "lock"]
      /\ stderr' = [stderr EXCEPT ![event[t].id] = Append(@, event[t])]
      /\ UNCHANGED <<server, call, event, payload, answer, mutex, file, damaged, issued, reads>>
  BY DEF EmitStderr, At
<1>2. /\ pc \in [Tasks -> Places] /\ stderr \in [Ids -> Seq(Event)] /\ issued \in Nat
  BY MaxCallsAssumption DEF McpInv, TypeOK
<1>3. /\ call[t] \in Request /\ id \in Ids /\ id <= issued
      /\ event[t] \in Event /\ event[t].id = id /\ (Invoking(t) \/ Closing(t))
  BY <1>1, EmittedEvent DEF Emitting
<1>4. /\ stderr'[id] = Append(stderr[id], event[t])
      /\ \A i \in Ids : i # id => stderr'[i] = stderr[i]
  BY <1>1, <1>2, <1>3
<1>5. stderr' \in [Ids -> Seq(Event)]
  <2>1. Append(stderr[id], event[t]) \in Seq(Event)
    BY <1>2, <1>3, AppendProperties
  <2> QED
    BY <1>1, <1>2, <1>3, <2>1
<1>6. TypeOK'
  <2>1. pc' \in [Tasks -> Places]
    BY <1>1, <1>2 DEF Places
  <2> QED
    BY <1>1, <1>5, <2>1 DEF McpInv, TypeOK
<1>7. TaskInv(t)'
  <2>1. pc'[t] = "lock"
    BY <1>1, <1>2
  <2>2. CASE Invoking(t)
    <3>1. stderr[id] = <<>> /\ event[t] = Invoke(id) /\ payload[t] = 0
      BY <1>1, <2>2 DEF Invoking, Trail
    <3>2. stderr'[id] = <<Invoke(id)>>
      BY <1>4, <3>1
    <3>3. Invoking(t)'
      BY <1>1, <2>1, <3>1, <3>2 DEF Invoking, Trail, Emitting
    <3> QED
      BY <1>1, <1>3, <3>3 DEF TaskInv, InCall
  <2>3. CASE Closing(t)
    <3>1. /\ stderr[id] = <<Invoke(id)>> /\ event[t] = Result(id, answer[t])
          /\ Given(answer[t], payload[t])
      BY <1>1, <2>3 DEF Closing, Trail
    <3>2. stderr'[id] = <<Invoke(id), Result(id, answer[t])>>
      BY <1>4, <3>1, AppendSecond
    <3>3. stderr'[id] = Record(id, answer[t])
      BY <3>2 DEF Record, Result
    <3>4. Closing(t)'
      BY <1>1, <2>1, <3>1, <3>3 DEF Closing, Trail, Emitting
    <3> QED
      BY <1>1, <1>3, <3>4 DEF TaskInv, InCall
  <2> QED
    BY <1>3, <2>2, <2>3
<1>8. (\A u \in Tasks : TaskInv(u)') /\ Distinct'
  BY <1>1, <1>2, <1>4, <1>7, OwnStepFrame
<1>9. Recorded'
  BY <1>1, <1>2, <1>3, <1>4, EmittedRecord
<1>10. FailClosed'
  BY <1>1 DEF McpInv, FailClosed
<1> QED
  BY <1>6, <1>8, <1>9, <1>10 DEF McpInv

\* Steps inside an emission that leave event and record alone.
LEMMA StepWrites ==
    ASSUME McpInv, NEW t \in Tasks, LockFile(t) \/ WriteText(t)
    PROVE  McpInv'
<1>1. /\ pc[t] \in {"lock", "text"} /\ pc' = [pc EXCEPT ![t] = IF LockFile(t) THEN "text" ELSE "newline"]
      /\ UNCHANGED <<server, call, event, payload, answer, stderr, damaged, issued, reads>>
  BY DEF LockFile, WriteText, At
<1>2. /\ pc \in [Tasks -> Places] /\ mutex \in [Servers -> Tasks \union {NoTask}]
      /\ file \in Seq(Event \union {Newline})
  BY DEF McpInv, TypeOK
<1>3. /\ call[t] \in Request /\ call[t].id <= issued
      /\ event[t] \in Event /\ (Invoking(t) \/ Closing(t))
  BY <1>1, EmittedEvent DEF Emitting, Writing
<1>4. pc'[t] \in Writing /\ pc' \in [Tasks -> Places]
  BY <1>1, <1>2 DEF Places, Writing
<1>5. TypeOK'
  <2>1. mutex' \in [Servers -> Tasks \union {NoTask}]
    BY <1>2, ServerOfAssumption DEF LockFile, WriteText
  <2>2. file' \in Seq(Event \union {Newline})
    BY <1>2, <1>3, AppendProperties DEF LockFile, WriteText
  <2> QED
    BY <1>1, <1>4, <2>1, <2>2 DEF McpInv, TypeOK
<1>6. TaskInv(t)'
  <2>1. pc[t] # "stderr" /\ pc'[t] # "stderr" /\ pc'[t] \in Emitting
    BY <1>1, <1>4 DEF Writing, Emitting
  <2>2. Invoking(t) => Invoking(t)'
    BY <1>1, <2>1 DEF Invoking, Trail
  <2>3. Closing(t) => Closing(t)'
    BY <1>1, <2>1 DEF Closing, Trail
  <2> QED
    BY <1>1, <1>3, <2>2, <2>3 DEF TaskInv, InCall
<1>7. (\A u \in Tasks : TaskInv(u)') /\ Distinct'
  BY <1>1, <1>2, <1>6, OwnStepFrame
<1>8. Recorded' /\ FailClosed'
  BY <1>1 DEF McpInv, Recorded, FailClosed
<1> QED
  BY <1>5, <1>7, <1>8 DEF McpInv

\* The end of an emission.
LEMMA StepEmitted ==
    ASSUME McpInv, NEW t \in Tasks, WriteNewline(t) \/ WriteFails(t)
    PROVE  McpInv'
<1>1. /\ pc[t] \in Writing /\ event' = [event EXCEPT ![t] = NoEvent]
      /\ pc' = [pc EXCEPT ![t] = IF event[t].type = "invoke" THEN "authorize" ELSE "answered"]
      /\ mutex' = [mutex EXCEPT ![ServerOf[t]] = NoTask]
      /\ UNCHANGED <<server, call, payload, answer, stderr, issued, reads>>
  BY DEF WriteNewline, WriteFails, Emitted, At, Writing
<1>2. /\ pc \in [Tasks -> Places] /\ mutex \in [Servers -> Tasks \union {NoTask}]
      /\ file \in Seq(Event \union {Newline}) /\ event \in [Tasks -> Event \union {NoEvent}]
      /\ damaged \subseteq Ids
  BY DEF McpInv, TypeOK
<1>3. /\ call[t] \in Request /\ call[t].id \in Ids /\ call[t].id <= issued
      /\ event[t] \in Event /\ (Invoking(t) \/ Closing(t))
      /\ Invoking(t) => event[t].type = "invoke"
      /\ Closing(t) => event[t].type = "result"
  BY <1>1, EmittedEvent DEF Emitting
<1>4. TypeOK'
  <2>1. pc' \in [Tasks -> Places] /\ event' \in [Tasks -> Event \union {NoEvent}]
        /\ mutex' \in [Servers -> Tasks \union {NoTask}]
    BY <1>1, <1>2 DEF Places
  <2>2. file' \in Seq(Event \union {Newline})
    BY <1>2, <1>3, AppendProperties DEF WriteNewline, WriteFails
  <2>3. damaged' \subseteq Ids
    BY <1>2, <1>3 DEF WriteNewline, WriteFails
  <2> QED
    BY <1>1, <2>1, <2>2, <2>3 DEF McpInv, TypeOK
<1>5. TaskInv(t)'
  <2>1. event'[t] = NoEvent /\ pc[t] # "stderr"
    BY <1>1, <1>2 DEF Writing
  <2>2. CASE Invoking(t)
    <3>1. pc'[t] = "authorize"
      BY <1>1, <1>2, <1>3, <2>2
    <3>2. Working(t)'
      BY <1>1, <2>1, <2>2, <3>1 DEF Invoking, Working, Trail
    <3> QED
      BY <1>1, <1>3, <3>2 DEF TaskInv, InCall
  <2>3. CASE Closing(t)
    <3>1. pc'[t] = "answered"
      BY <1>1, <1>2, <1>3, <2>3
    <3>2. Closed(t)'
      BY <1>1, <2>1, <2>3, <3>1 DEF Closing, Closed, Trail
    <3> QED
      BY <1>1, <1>3, <3>2 DEF TaskInv, InCall
  <2> QED
    BY <1>3, <2>2, <2>3
<1>6. (\A u \in Tasks : TaskInv(u)') /\ Distinct'
  BY <1>1, <1>2, <1>5, OwnStepFrame DEF Writing
<1>7. Recorded' /\ FailClosed'
  BY <1>1 DEF McpInv, Recorded, FailClosed
<1> QED
  BY <1>4, <1>6, <1>7 DEF McpInv

-----------------------------------------------------------------------------
\* A handler at work has its invoke event on record.
LEMMA WorkingCall ==
    ASSUME McpInv, NEW t \in Tasks, pc[t] \in {"authorize", "window", "read", "cap"}
    PROVE  /\ call[t] \in Request /\ call[t].id \in Ids /\ call[t].id <= issued
           /\ Working(t)
  BY DEF McpInv, TaskInv, Idle, InCall, Invoking, Closing, Closed, Lost, Emitting, Writing, Request

LEMMA OneCallOneId ==
    ASSUME McpInv, NEW t \in Tasks, pc[t] \in {"authorize", "window", "read", "cap"},
           NEW u \in Tasks, call[u].id = call[t].id
    PROVE  u = t
<1>1. call[u].id \in Ids
  BY WorkingCall
<1>2. call[u] # NoCall
  BY <1>1 DEF NoCall, Ids
<1>3. pc[u] # "idle"
  BY <1>2 DEF McpInv, TaskInv, Idle, InCall, Invoking, Working, Closing, Closed, Lost,
              Emitting, Writing
<1> QED
  BY <1>3 DEF McpInv, Distinct

\* The handler decides on its answer.
LEMMA Decides ==
    ASSUME McpInv, NEW t \in Tasks, pc[t] \in {"authorize", "window", "read", "cap"},
           NEW a, Given(a, payload[t]),
           answer' = [answer EXCEPT ![t] = a],
           event' = [event EXCEPT ![t] = Result(call[t].id, a)],
           pc' = [pc EXCEPT ![t] = "stderr"],
           UNCHANGED <<server, call, payload, auditVars, issued>>,
           reads' = reads \/ (pc[t] = "read" /\ reads' = reads \union {call[t].id})
    PROVE  McpInv'
<1>1. /\ call[t] \in Request /\ call[t].id \in Ids /\ call[t].id <= issued
      /\ Working(t)
  BY WorkingCall
<1>2. /\ pc \in [Tasks -> Places] /\ event \in [Tasks -> Event \union {NoEvent}]
      /\ DOMAIN answer = Tasks /\ issued \in Nat /\ reads \subseteq Ids
  BY MaxCallsAssumption DEF McpInv, TypeOK
<1>3. TypeOK'
  <2>1. Result(call[t].id, a) \in Event
    BY <1>1, ResultTypes
  <2>2. /\ pc' \in [Tasks -> Places] /\ event' \in [Tasks -> Event \union {NoEvent}]
        /\ DOMAIN answer' = Tasks /\ reads' \subseteq Ids
    BY <1>1, <1>2, <2>1 DEF Places
  <2> QED
    BY <2>2 DEF McpInv, TypeOK, auditVars
<1>4. TaskInv(t)'
  <2>1. /\ pc'[t] = "stderr" /\ answer'[t] = a /\ event'[t] = Result(call[t].id, a)
        /\ call' = call /\ stderr' = stderr
    BY <1>2 DEF auditVars
  <2>2. Closing(t)'
    BY <1>1, <2>1 DEF Closing, Working, Trail, Emitting
  <2> QED
    BY <1>1, <2>1, <2>2 DEF TaskInv, InCall
<1>5. (\A u \in Tasks : TaskInv(u)') /\ Distinct'
  BY <1>2, <1>4, OwnStepFrame DEF auditVars
<1>6. Recorded' /\ FailClosed'
  <2>1. CASE reads' = reads
    BY <2>1 DEF McpInv, Recorded, FailClosed, auditVars
  <2>2. CASE pc[t] = "read" /\ reads' = reads \union {call[t].id}
    <3>1. stderr[call[t].id] = <<Invoke(call[t].id)>> /\ Allowed(t)
      BY <1>1, <2>2 DEF Working, Trail
    <3>2. Recorded'
      BY <1>1, <2>2, <3>1 DEF McpInv, Recorded, auditVars
    <3>3. ASSUME TokenRequired, NEW u \in Tasks, call[u].id = call[t].id
          PROVE  call[u].token = "right"
      <4>1. u = t
        BY <3>3, OneCallOneId
      <4> QED
        BY <3>1, <3>3, <4>1 DEF Allowed
    <3>4. FailClosed'
      BY <2>2, <3>3 DEF McpInv, FailClosed
    <3> QED
      BY <3>2, <3>4
  <2> QED
    BY <2>1, <2>2
<1> QED
  BY <1>3, <1>5, <1>6 DEF McpInv

\* The handler goes on to its next place.
LEMMA GoesOn ==
    ASSUME McpInv, NEW t \in Tasks, pc[t] \in {"authorize", "window", "read"},
           NEW place \in {"window", "read", "cap", "hung"}, Allowed(t),
           pc' = [pc EXCEPT ![t] = place],
           UNCHANGED <<server, call, event, answer, auditVars, issued>>,
           payload' \in [Tasks -> Sizes \union {0}],
           place # "cap" => payload' = payload,
           \A u \in Tasks \ {t} : payload'[u] = payload[u],
           reads' = reads \/ (pc[t] = "read" /\ reads' = reads \union {call[t].id})
    PROVE  McpInv'
<1>1. /\ call[t] \in Request /\ call[t].id \in Ids /\ call[t].id <= issued
      /\ Working(t)
  BY WorkingCall
<1>2. /\ pc \in [Tasks -> Places] /\ issued \in Nat /\ reads \subseteq Ids
  BY MaxCallsAssumption DEF McpInv, TypeOK
<1>3. TypeOK'
  <2>1. pc' \in [Tasks -> Places] /\ reads' \subseteq Ids
    BY <1>1, <1>2 DEF Places
  <2> QED
    BY <2>1 DEF McpInv, TypeOK, auditVars
<1>4. TaskInv(t)'
  <2>1. pc'[t] = place /\ call' = call /\ stderr' = stderr /\ event' = event
    BY <1>2 DEF auditVars
  <2>2. Working(t)'
    BY <1>1, <2>1 DEF Working, Trail, Allowed
  <2> QED
    BY <1>1, <2>1, <2>2 DEF TaskInv, InCall
<1>5. (\A u \in Tasks : TaskInv(u)') /\ Distinct'
  BY <1>2, <1>4, OwnStepFrame DEF auditVars
<1>6. Recorded' /\ FailClosed'
  <2>1. CASE reads' = reads
    BY <2>1 DEF McpInv, Recorded, FailClosed, auditVars
  <2>2. CASE pc[t] = "read" /\ reads' = reads \union {call[t].id}
    <3>1. stderr[call[t].id] = <<Invoke(call[t].id)>>
      BY <1>1 DEF Working, Trail
    <3>2. Recorded'
      BY <1>1, <2>2, <3>1 DEF McpInv, Recorded, auditVars
    <3>3. ASSUME TokenRequired, NEW u \in Tasks, call[u].id = call[t].id
          PROVE  call[u].token = "right"
      <4>1. u = t
        BY <3>3, OneCallOneId
      <4> QED
        BY <3>3, <4>1 DEF Allowed
    <3>4. FailClosed'
      BY <2>2, <3>3 DEF McpInv, FailClosed
    <3> QED
      BY <3>2, <3>4
  <2> QED
    BY <2>1, <2>2
<1> QED
  BY <1>3, <1>5, <1>6 DEF McpInv

LEMMA StepFails ==
    ASSUME McpInv, NEW t \in Tasks, pc[t] \in {"authorize", "window", "read", "cap"},
           pc[t] = "cap" => payload[t] > MaxBytes,
           NEW code, Fail(t, code),
           UNCHANGED <<server, call, payload, auditVars, issued>>,
           reads' = reads \/ (pc[t] = "read" /\ reads' = reads \union {call[t].id})
    PROVE  McpInv'
<1> DEFINE a == [status |-> "error", code |-> code]
<1>1. Given(a, payload[t]) /\ Result(call[t].id, a) = Failure(call[t].id)
  BY WorkingCall DEF Given, Result, Working
<1>2. /\ answer' = [answer EXCEPT ![t] = a]
      /\ event' = [event EXCEPT ![t] = Failure(call[t].id)]
      /\ pc' = [pc EXCEPT ![t] = "stderr"]
  BY DEF Fail, Emit, At
<1> HIDE DEF a
<1> QED
  BY <1>1, <1>2, Decides

LEMMA StepTool ==
    ASSUME McpInv, NEW t \in Tasks, ToolStep(t)
    PROVE  McpInv'
<1>t. payload \in [Tasks -> Sizes \union {0}]
  BY DEF McpInv, TypeOK
<1>1. CASE Authorize(t)
  <2>1. CASE TokenRequired /\ call[t].token # "right"
    BY <1>1, <2>1, StepFails DEF Authorize
  <2>2. CASE ~(TokenRequired /\ call[t].token # "right")
    BY <1>1, <1>t, <2>2, GoesOn DEF Authorize, GoOn, At, Allowed
  <2> QED
    BY <2>1, <2>2
<1>2. CASE CheckWindow(t)
  <2>1. CASE call[t].window # "fine"
    BY <1>2, <2>1, StepFails DEF CheckWindow
  <2>2. CASE call[t].window = "fine"
    <3>1. Allowed(t)
      BY <1>2, WorkingCall DEF CheckWindow, Working
    <3> QED
      BY <1>2, <1>t, <2>2, <3>1, GoesOn DEF CheckWindow, GoOn, At
  <2> QED
    BY <2>1, <2>2
<1>3. CASE Read(t)
  <2>1. Allowed(t)
    BY <1>3, WorkingCall DEF Read, Working
  <2>2. /\ payload' \in [Tasks -> Sizes \union {0}]
        /\ \A u \in Tasks \ {t} : payload'[u] = payload[u]
    BY <1>3, <1>t DEF Read
  <2> QED
    BY <1>3, <2>1, <2>2, GoesOn DEF Read, GoOn, At
<1>4. CASE ReadFails(t)
  BY <1>4, StepFails DEF ReadFails
<1>5. CASE CapResponse(t)
  <2>1. CASE payload[t] > MaxBytes
    BY <1>5, <2>1, StepFails DEF CapResponse
  <2>2. CASE ~(payload[t] > MaxBytes)
    <3> DEFINE a == [status |-> "success", bytes |-> payload[t]]
    <3>1. payload[t] \in Nat /\ MaxBytes \in Nat
      BY PayloadSize DEF McpInv
    <3>2. Given(a, payload[t]) /\ Result(call[t].id, a) = Success(call[t].id, payload[t])
      BY <2>2, <3>1 DEF Given, Result
    <3>3. /\ pc[t] = "cap" /\ answer' = [answer EXCEPT ![t] = a]
          /\ event' = [event EXCEPT ![t] = Success(call[t].id, payload[t])]
          /\ pc' = [pc EXCEPT ![t] = "stderr"]
          /\ UNCHANGED <<server, call, payload, auditVars, issued, reads>>
      BY <1>5, <2>2 DEF CapResponse, Succeed, Emit, At
    <3> HIDE DEF a
    <3> QED
      BY <3>2, <3>3, Decides
  <2> QED
    BY <2>1, <2>2
<1>6. CASE ReadHangs(t)
  <2>1. Allowed(t)
    BY <1>6, WorkingCall DEF ReadHangs, Working
  <2> QED
    BY <1>6, <1>t, <2>1, GoesOn DEF ReadHangs, GoOn, At
<1> QED
  BY <1>1, <1>2, <1>3, <1>4, <1>5, <1>6 DEF ToolStep

LEMMA StepEnd ==
    ASSUME McpInv, NEW t \in Tasks, EndStep(t)
    PROVE  McpInv'
<1>1. /\ pc[t] \in {"answered", "panicked"} /\ pc' = [pc EXCEPT ![t] = "idle"]
      /\ call' = [call EXCEPT ![t] = NoCall] /\ payload' = [payload EXCEPT ![t] = 0]
      /\ answer' = [answer EXCEPT ![t] = NoAnswer]
      /\ UNCHANGED <<server, event, auditVars, issued, reads>>
  BY DEF EndStep, Answered, Dropped, Over, At
<1>2. /\ pc \in [Tasks -> Places] /\ call \in [Tasks -> Request \union {NoCall}]
      /\ payload \in [Tasks -> Sizes \union {0}] /\ DOMAIN answer = Tasks
      /\ reads \subseteq Ids
  BY DEF McpInv, TypeOK
<1>3. TypeOK'
  <2>1. /\ pc' \in [Tasks -> Places] /\ call' \in [Tasks -> Request \union {NoCall}]
        /\ payload' \in [Tasks -> Sizes \union {0}] /\ DOMAIN answer' = Tasks
    BY <1>1, <1>2 DEF Places
  <2> QED
    BY <1>1, <2>1 DEF McpInv, TypeOK, auditVars
<1>4. TaskInv(t)'
  <2>1. event[t] = NoEvent
    BY <1>1 DEF McpInv, TaskInv, Idle, InCall, Invoking, Working, Closing, Closed, Lost,
                Emitting, Writing
  <2> QED
    BY <1>1, <1>2, <2>1 DEF TaskInv, Idle
<1>5. (\A u \in Tasks : TaskInv(u)') /\ Distinct'
  BY <1>1, <1>2, <1>4, OwnStepFrame DEF auditVars
<1>6. Recorded'
  BY <1>1 DEF McpInv, Recorded, auditVars
<1>7. FailClosed'
  <2>1. call'[t].id \notin reads
    BY <1>1, <1>2 DEF NoCall, Ids
  <2> QED
    BY <1>1, <1>2, <2>1 DEF McpInv, FailClosed
<1> QED
  BY <1>3, <1>5, <1>6, <1>7 DEF McpInv

LEMMA StepDies ==
    ASSUME McpInv, NEW p \in Servers, Dies(p)
    PROVE  McpInv'
<1> DEFINE dead(t) == ServerOf[t] = p
<1>1. /\ server' = [server EXCEPT ![p] = "down"]
      /\ mutex' = [mutex EXCEPT ![p] = NoTask]
      /\ damaged' = damaged \union
             {call[t].id : t \in {u \in Tasks : dead(u) /\ pc[u] \in Writing}}
      /\ pc' = [t \in Tasks |-> IF dead(t) THEN "idle" ELSE pc[t]]
      /\ call' = [t \in Tasks |-> IF dead(t) THEN NoCall ELSE call[t]]
      /\ event' = [t \in Tasks |-> IF dead(t) THEN NoEvent ELSE event[t]]
      /\ payload' = [t \in Tasks |-> IF dead(t) THEN 0 ELSE payload[t]]
      /\ answer' = [t \in Tasks |-> IF dead(t) THEN NoAnswer ELSE answer[t]]
      /\ UNCHANGED <<stderr, file, issued, reads>>
  BY DEF Dies
<1>2. /\ \A t \in Tasks : dead(t) =>
           /\ pc'[t] = "idle" /\ call'[t] = NoCall /\ event'[t] = NoEvent
           /\ payload'[t] = 0
      /\ \A t \in Tasks : ~dead(t) =>
           /\ pc'[t] = pc[t] /\ call'[t] = call[t] /\ event'[t] = event[t]
           /\ answer'[t] = answer[t] /\ payload'[t] = payload[t]
  BY <1>1
<1>3. TypeOK'
  <2>1. /\ server' \in [Servers -> {"down", "up"}]
        /\ mutex' \in [Servers -> Tasks \union {NoTask}]
        /\ pc' \in [Tasks -> Places] /\ call' \in [Tasks -> Request \union {NoCall}]
        /\ event' \in [Tasks -> Event \union {NoEvent}]
        /\ payload' \in [Tasks -> Sizes \union {0}] /\ DOMAIN answer' = Tasks
    BY <1>1 DEF McpInv, TypeOK, Places
  <2>2. damaged' \subseteq Ids
    <3>1. ASSUME NEW u \in Tasks, pc[u] \in Writing PROVE call[u].id \in Ids
      BY <3>1, EmittedEvent DEF Emitting
    <3>2. damaged \subseteq Ids
      BY DEF McpInv, TypeOK
    <3> QED
      BY <1>1, <3>1, <3>2
  <2> QED
    BY <1>1, <2>1, <2>2 DEF McpInv, TypeOK
<1>4. ASSUME NEW u \in Tasks PROVE TaskInv(u)'
  <2>1. CASE dead(u)
    BY <1>2, <2>1 DEF TaskInv, Idle
  <2>2. CASE ~dead(u)
    BY <1>1, <1>2, <2>2, TaskFrame DEF McpInv, TypeOK
  <2> QED
    BY <2>1, <2>2
<1>5. Distinct'
  BY <1>2 DEF McpInv, Distinct
<1>6. Recorded'
  BY <1>1 DEF McpInv, Recorded
<1>7. FailClosed'
  <2>1. NoCall.id \notin reads
    BY DEF McpInv, TypeOK, NoCall, Ids
  <2> QED
    BY <1>1, <1>2, <2>1 DEF McpInv, FailClosed
<1> QED
  BY <1>3, <1>4, <1>5, <1>6, <1>7 DEF McpInv

LEMMA StepStderrFails ==
    ASSUME McpInv, NEW t \in Tasks, StderrFails(t)
    PROVE  McpInv'
<1> DEFINE id == call[t].id
<1>1. /\ pc[t] = "stderr" /\ pc' = [pc EXCEPT ![t] = "panicked"]
      /\ event' = [event EXCEPT ![t] = NoEvent]
      /\ \/ stderr' = stderr
         \/ stderr' = [stderr EXCEPT ![event[t].id] = Append(@, event[t])]
      /\ UNCHANGED <<server, call, payload, answer, mutex, file, damaged, issued, reads>>
  BY DEF StderrFails, At
<1>2. /\ pc \in [Tasks -> Places] /\ stderr \in [Ids -> Seq(Event)] /\ issued \in Nat
      /\ event \in [Tasks -> Event \union {NoEvent}]
  BY MaxCallsAssumption DEF McpInv, TypeOK
<1>3. /\ call[t] \in Request /\ id \in Ids /\ id <= issued
      /\ event[t] \in Event /\ event[t].id = id
  BY <1>1, EmittedEvent DEF Emitting
<1>4. /\ stderr' = stderr \/ stderr'[id] = Append(stderr[id], event[t])
      /\ \A i \in Ids : i # id => stderr'[i] = stderr[i]
      /\ stderr' \in [Ids -> Seq(Event)]
  <2>1. Append(stderr[id], event[t]) \in Seq(Event)
    BY <1>2, <1>3, AppendProperties
  <2> QED
    BY <1>1, <1>2, <1>3, <2>1
<1>5. TypeOK'
  <2>1. pc' \in [Tasks -> Places] /\ event' \in [Tasks -> Event \union {NoEvent}]
    BY <1>1, <1>2 DEF Places
  <2> QED
    BY <1>1, <1>4, <2>1 DEF McpInv, TypeOK
<1>6. TaskInv(t)'
  <2>1. Lost(t)'
    BY <1>1, <1>2 DEF Lost
  <2> QED
    BY <1>1, <1>3, <2>1 DEF TaskInv, InCall
<1>7. (\A u \in Tasks : TaskInv(u)') /\ Distinct'
  BY <1>1, <1>2, <1>4, <1>6, OwnStepFrame
<1>8. Recorded'
  <2>1. CASE stderr' = stderr
    BY <1>1, <2>1 DEF McpInv, Recorded
  <2>2. CASE stderr'[id] = Append(stderr[id], event[t])
    BY <1>1, <1>3, <1>4, <2>2, EmittedRecord
  <2> QED
    BY <1>4, <2>1, <2>2
<1>9. FailClosed'
  BY <1>1 DEF McpInv, FailClosed
<1> QED
  BY <1>5, <1>7, <1>8, <1>9 DEF McpInv

LEMMA StillMcp ==
    ASSUME McpInv,
           \/ UNCHANGED vars
           \/ \E p \in Servers : Start(p)
    PROVE  McpInv'
<1>1. /\ UNCHANGED <<callVars, auditVars, issued, reads>>
      /\ server' \in [Servers -> {"down", "up"}]
  BY DEF vars, Start, McpInv, TypeOK
<1>2. TypeOK'
  BY <1>1 DEF McpInv, TypeOK, callVars, auditVars
<1>3. \A u \in Tasks : TaskInv(u)'
  BY <1>1, TaskFrame DEF McpInv, TypeOK, callVars, auditVars
<1>4. Distinct' /\ Recorded' /\ FailClosed'
  BY <1>1 DEF McpInv, Distinct, Recorded, FailClosed, callVars, auditVars
<1> QED
  BY <1>2, <1>3, <1>4 DEF McpInv

LEMMA NextMcp == McpInv /\ [Next]_vars => McpInv'
<1> SUFFICES ASSUME McpInv, [Next]_vars PROVE McpInv'
  OBVIOUS
<1>1. CASE UNCHANGED vars \/ \E p \in Servers : Start(p)
  BY <1>1, StillMcp
<1>2. CASE \E p \in Servers : Dies(p)
  BY <1>2, StepDies
<1>3. ASSUME NEW t \in Tasks, EmitStep(t) PROVE McpInv'
  BY <1>3, StepEmitStderr, StepStderrFails, StepWrites, StepEmitted DEF EmitStep
<1>4. CASE \E t \in Tasks : \/ \E r \in Request : Invoked(t, r)
                            \/ ToolStep(t) \/ EndStep(t)
  BY <1>4, StepInvoked, StepTool, StepEnd
<1> QED
  BY <1>1, <1>2, <1>3, <1>4 DEF Next

-----------------------------------------------------------------------------
\* The state of the servers has its type, for any servers, threads and calls.
THEOREM McpTypeOK == Spec => []TypeOK
<1>1. McpInv => TypeOK
  BY DEF McpInv
<1> QED
  BY <1>1, InitMcp, NextMcp, PTL DEF Spec

\* Whatever fails on the way, an answered call has its invoke event and one
\* result on record, and the result says what the client is told
\* (audit_invoke, audit_result).
THEOREM TrailIsAnswer == Spec => []TrailMatchesAnswer
<1>1. McpInv => TrailMatchesAnswer
  <2> SUFFICES ASSUME McpInv, NEW t \in Tasks, pc[t] = "answered"
               PROVE  /\ stderr[call[t].id] = Record(call[t].id, answer[t])
                      /\ answer[t].status = "success" => answer[t].bytes = payload[t]
                      /\ payload[t] # 0 =>
                           (answer[t].status = "success" <=> payload[t] <= MaxBytes)
    BY DEF TrailMatchesAnswer
  <2>1. Closed(t)
    BY DEF McpInv, TaskInv, Idle, InCall, Invoking, Working, Closing, Lost, Emitting, Writing
  <2>2. payload[t] \in Nat /\ MaxBytes \in Nat
    BY PayloadSize DEF McpInv
  <2> QED
    BY <2>1, <2>2 DEF Closed, Trail, Given
<1> QED
  BY <1>1, InitMcp, NextMcp, PTL DEF Spec

\* Sensors and database are read only for calls on record that had the token
\* where one is required (authorize and audit_invoke come before collect and
\* analyze in every handler).
THEOREM ReadsOnRecord == Spec => [](ReadsAreOnRecord /\ FailClosed)
<1>1. McpInv => ReadsAreOnRecord /\ FailClosed
  BY DEF McpInv, TypeOK, Recorded, ReadsAreOnRecord
<1> QED
  BY <1>1, InitMcp, NextMcp, PTL DEF Spec

-----------------------------------------------------------------------------
\* The audit file of a single process.
OneFileOwner == \A t, u \in Tasks : ServerOf[t] = ServerOf[u]

\* The mutex of the audit file is held by whichever of its process's threads is
\* writing a line, and by nobody when none is: a write that fails and is dropped,
\* or a death, leaves no thread waiting for a mutex that nobody gives back.
FileHeldByWriter ==
    /\ \A p \in Servers : mutex[p] # NoTask =>
         ServerOf[mutex[p]] = p /\ pc[mutex[p]] \in Writing
    /\ \A t \in Tasks : pc[t] \in Writing => mutex[ServerOf[t]] = t

\* How the file ends: with a newline, or with an event that was cut short or
\* whose newline comes next.
Ends(last) ==
    \/ last.type = "newline"
    \/ last.id \in damaged
    \/ \E t \in Tasks : pc[t] = "newline" /\ last.id = call[t].id

FileEnd == file # <<>> => Ends(file[Len(file)])

FileInv == FileHeldByWriter /\ FileEnd /\ GluedOnlyWhereCut

\* Only one thread is between its first write and its last.
LEMMA OneWriter ==
    ASSUME OneFileOwner, FileHeldByWriter, NEW t \in Tasks, pc[t] \in Writing,
           NEW u \in Tasks, pc[u] \in Writing
    PROVE  u = t
  BY DEF OneFileOwner, FileHeldByWriter

\* Steps that write nothing: whoever was at its newline still is, or its line
\* counts as cut short.
LEMMA FileFrame ==
    ASSUME TypeOK, FileInv, file' = file, damaged \subseteq damaged',
           \A t \in Tasks : pc[t] = "newline" =>
             \/ pc'[t] = "newline" /\ call'[t] = call[t]
             \/ call[t].id \in damaged'
    PROVE  FileEnd' /\ GluedOnlyWhereCut'
<1>1. ASSUME NEW last, Ends(last) PROVE Ends(last)'
  BY <1>1 DEF Ends
<1>2. FileEnd'
  BY <1>1 DEF FileInv, FileEnd
<1>3. GluedOnlyWhereCut'
  BY DEF FileInv, GluedOnlyWhereCut, Glued
<1> QED
  BY <1>2, <1>3

\* An event goes to the file when nobody else is writing: what it follows is a
\* newline or a line cut short.
LEMMA FileAppend ==
    ASSUME TypeOK, FileInv, OneFileOwner, NEW t \in Tasks, pc[t] = "text",
           damaged \subseteq damaged',
           NEW e \in Event \union {Newline}, file' = Append(file, e), Ends(e)'
    PROVE  FileEnd' /\ GluedOnlyWhereCut'
<1> DEFINE n == Len(file)
<1>1. file \in Seq(Event \union {Newline}) /\ n \in Nat /\ DOMAIN file = 1..n
  BY LenProperties DEF TypeOK
<1>2. /\ file' \in Seq(Event \union {Newline})
      /\ Len(file') = n + 1 /\ file'[n + 1] = e
      /\ \A i \in 1..n : file'[i] = file[i]
  <2>1. Len(file') = n + 1 /\ file'[n + 1] = e
    BY <1>1, AppendLast
  <2>2. \A i \in 1..n : file'[i] = file[i]
    BY <1>1, AppendOld
  <2>3. file' \in Seq(Event \union {Newline})
    BY <1>1
  <2> QED
    BY <2>1, <2>2, <2>3
<1>3. DOMAIN file' = 1..(n + 1)
  BY <1>2, LenProperties
<1>4. FileEnd'
  BY <1>2 DEF FileEnd
<1>5. ASSUME n # 0, file[n].type # "newline" PROVE file[n].id \in damaged
  <2>1. file # <<>>
    BY <1>1, <1>5
  <2>2. Ends(file[n])
    BY <2>1 DEF FileInv, FileEnd
  <2>3. \A u \in Tasks : pc[u] # "newline"
    BY OneWriter DEF Writing, FileInv
  <2> QED
    BY <1>5, <2>2, <2>3 DEF Ends
<1>6. ASSUME NEW i \in Glued' PROVE file'[i - 1].id \in damaged'
  <2>1. /\ i \in 1..(n + 1) /\ i > 1
        /\ file'[i - 1].type # "newline" /\ file'[i].type # "newline"
    BY <1>3, <1>6 DEF Glued
  <2>2. CASE i = n + 1
    <3>1. n \in Nat /\ n + 1 > 1
      BY <1>1, <2>1, <2>2
    <3> HIDE DEF n
    <3>2. n \in 1..n /\ n # 0 /\ (n + 1) - 1 = n
      BY <3>1
    <3>3. i - 1 = n
      BY <2>2, <3>2
    <3>4. file'[i - 1] = file[n]
      BY <1>2, <3>2, <3>3
    <3> QED
      BY <1>5, <2>1, <3>2, <3>3, <3>4
  <2>3. CASE i # n + 1
    <3>1. i \in 1..n /\ i - 1 \in 1..n
      BY <1>1, <2>1, <2>3
    <3>2. file'[i] = file[i] /\ file'[i - 1] = file[i - 1]
      BY <1>2, <3>1
    <3>3. i \in Glued
      BY <1>1, <2>1, <3>1, <3>2 DEF Glued
    <3> QED
      BY <3>2, <3>3 DEF FileInv, GluedOnlyWhereCut
  <2> QED
    BY <2>2, <2>3
<1>7. GluedOnlyWhereCut'
  BY <1>6 DEF GluedOnlyWhereCut
<1> QED
  BY <1>4, <1>7

\* A newline goes to the file.
LEMMA FileNewline ==
    ASSUME TypeOK, FileInv, file' = Append(file, Newline), damaged' = damaged
    PROVE  FileEnd' /\ GluedOnlyWhereCut'
<1> DEFINE n == Len(file)
<1>1. file \in Seq(Event \union {Newline}) /\ n \in Nat /\ DOMAIN file = 1..n
  BY LenProperties DEF TypeOK
<1>2. /\ file' \in Seq(Event \union {Newline})
      /\ Len(file') = n + 1 /\ file'[n + 1] = Newline
      /\ \A i \in 1..n : file'[i] = file[i]
  <2>1. Len(file') = n + 1 /\ file'[n + 1] = Newline
    BY <1>1, AppendLast
  <2>2. \A i \in 1..n : file'[i] = file[i]
    BY <1>1, AppendOld
  <2>3. file' \in Seq(Event \union {Newline})
    BY <1>1
  <2> QED
    BY <2>1, <2>2, <2>3
<1>3. DOMAIN file' = 1..(n + 1)
  BY <1>2, LenProperties
<1>4. FileEnd'
  BY <1>2 DEF FileEnd, Ends, Newline
<1>5. ASSUME NEW i \in Glued' PROVE file'[i - 1].id \in damaged'
  <2>1. /\ i \in 1..(n + 1) /\ i > 1
        /\ file'[i - 1].type # "newline" /\ file'[i].type # "newline"
    BY <1>3, <1>5 DEF Glued
  <2>2. i # n + 1
    BY <1>2, <2>1 DEF Newline
  <2>3. i \in 1..n /\ i - 1 \in 1..n
    BY <1>1, <2>1, <2>2
  <2>4. file'[i] = file[i] /\ file'[i - 1] = file[i - 1]
    BY <1>2, <2>3
  <2>5. i \in Glued
    BY <1>1, <2>1, <2>3, <2>4 DEF Glued
  <2> QED
    BY <2>4, <2>5 DEF FileInv, GluedOnlyWhereCut
<1>6. GluedOnlyWhereCut'
  BY <1>5 DEF GluedOnlyWhereCut
<1> QED
  BY <1>4, <1>6

\* The mutex of the file.
LEMMA HeldStep ==
    ASSUME McpInv, FileHeldByWriter, [Next]_vars
    PROVE  FileHeldByWriter'
<1> USE ServerOfAssumption, NoTaskAssumption
<1>t. /\ pc \in [Tasks -> Places] /\ mutex \in [Servers -> Tasks \union {NoTask}]
  BY DEF McpInv, TypeOK
<1>1. CASE UNCHANGED <<pc, mutex>>
  BY <1>1 DEF FileHeldByWriter
<1>2. ASSUME NEW p \in Servers, Dies(p) PROVE FileHeldByWriter'
  BY <1>2, <1>t DEF Dies, FileHeldByWriter, Writing
<1>3. ASSUME NEW p \in Servers, Start(p) PROVE FileHeldByWriter'
  BY <1>1, <1>3 DEF Start, callVars, auditVars
<1>4. ASSUME NEW t \in Tasks, NEW place \in Places \ Writing,
             pc[t] \notin Writing, pc' = [pc EXCEPT ![t] = place], mutex' = mutex
      PROVE  FileHeldByWriter'
  BY <1>4, <1>t DEF FileHeldByWriter
<1>5. ASSUME NEW t \in Tasks, LockFile(t) PROVE FileHeldByWriter'
  BY <1>5, <1>t DEF LockFile, At, FileHeldByWriter, Writing
<1>6. ASSUME NEW t \in Tasks, WriteText(t) PROVE FileHeldByWriter'
  BY <1>6, <1>t DEF WriteText, At, FileHeldByWriter, Writing
<1>7. ASSUME NEW t \in Tasks, WriteNewline(t) \/ WriteFails(t) PROVE FileHeldByWriter'
  <2>1. /\ pc[t] \in Writing /\ mutex' = [mutex EXCEPT ![ServerOf[t]] = NoTask]
        /\ \A u \in Tasks \ {t} : pc'[u] = pc[u]
        /\ pc'[t] \in {"authorize", "answered"}
    BY <1>7, <1>t DEF WriteNewline, WriteFails, Emitted, At, Writing
  <2> QED
    BY <1>t, <2>1 DEF FileHeldByWriter, Writing
<1>8. ASSUME NEW t \in Tasks, NEW r \in Request, Invoked(t, r) PROVE FileHeldByWriter'
  BY <1>4, <1>8 DEF Invoked, Emit, At, auditVars, Places, Writing
<1>9. ASSUME NEW t \in Tasks, EmitStderr(t) \/ StderrFails(t) PROVE FileHeldByWriter'
  BY <1>4, <1>9 DEF EmitStderr, StderrFails, At, Places, Writing
<1>10. ASSUME NEW t \in Tasks, ToolStep(t) \/ EndStep(t) PROVE FileHeldByWriter'
  <2>1. /\ mutex' = mutex /\ pc[t] \notin Writing
        /\ \E place \in {"stderr", "window", "read", "cap", "hung", "idle"} :
              pc' = [pc EXCEPT ![t] = place]
    BY <1>10 DEF ToolStep, Authorize, CheckWindow, Read, ReadFails, ReadHangs,
                 CapResponse, EndStep, Answered, Dropped, Over, Fail, Succeed,
                 Emit, GoOn, At, auditVars, Writing
  <2> QED
    BY <1>4, <2>1 DEF Places, Writing
<1>11. CASE UNCHANGED vars
  BY <1>1, <1>11 DEF vars, callVars, auditVars
<1> QED
  BY <1>2, <1>3, <1>5, <1>6, <1>7, <1>8, <1>9, <1>10, <1>11 DEF Next, EmitStep

LEMMA FileStep ==
    ASSUME McpInv, FileInv, OneFileOwner, [Next]_vars
    PROVE  FileInv'
<1>t. TypeOK /\ pc \in [Tasks -> Places] /\ call \in [Tasks -> Request \union {NoCall}]
  BY DEF McpInv, TypeOK
<1>h. FileHeldByWriter'
  BY HeldStep DEF FileInv
<1>1. ASSUME NEW t \in Tasks, WriteText(t) PROVE FileEnd' /\ GluedOnlyWhereCut'
  <2>1. PICK e \in Event : e = event[t] /\ e.id = call[t].id /\ pc[t] = "text"
    BY <1>1, EmittedEvent DEF WriteText, Emitting, Writing
  <2>2. /\ file' = Append(file, e) /\ pc'[t] = "newline"
        /\ call' = call /\ damaged' = damaged
    BY <1>1, <1>t, <2>1 DEF WriteText, At
  <2>3. Ends(e)'
    BY <2>1, <2>2 DEF Ends
  <2> QED
    BY <1>t, <2>1, <2>2, <2>3, FileAppend
<1>2. ASSUME NEW t \in Tasks, WriteNewline(t) PROVE FileEnd' /\ GluedOnlyWhereCut'
  BY <1>2, <1>t, FileNewline DEF WriteNewline
<1>3. ASSUME NEW t \in Tasks, WriteFails(t) PROVE FileEnd' /\ GluedOnlyWhereCut'
  <2>1. /\ pc[t] \in Writing /\ damaged' = damaged \union {call[t].id} /\ call' = call
        /\ \A u \in Tasks \ {t} : pc'[u] = pc[u]
        /\ file' = file \/ (pc[t] = "text" /\ file' = Append(file, event[t]))
    BY <1>3, <1>t DEF WriteFails, Emitted, At
  <2>2. CASE file' = file
    BY <1>t, <2>1, <2>2, FileFrame
  <2>3. CASE pc[t] = "text" /\ file' = Append(file, event[t])
    <3>1. PICK e \in Event : e = event[t] /\ e.id = call[t].id
      BY <2>3, EmittedEvent DEF Emitting, Writing
    <3>2. Ends(e)'
      BY <2>1, <3>1 DEF Ends
    <3> QED
      BY <1>t, <2>1, <2>3, <3>1, <3>2, FileAppend
  <2> QED
    BY <2>1, <2>2, <2>3
<1>4. ASSUME NEW p \in Servers, Dies(p) PROVE FileEnd' /\ GluedOnlyWhereCut'
  <2> DEFINE dead(t) == ServerOf[t] = p
  <2>1. /\ damaged' = damaged \union
             {call[t].id : t \in {u \in Tasks : dead(u) /\ pc[u] \in Writing}}
        /\ pc' = [t \in Tasks |-> IF dead(t) THEN "idle" ELSE pc[t]]
        /\ call' = [t \in Tasks |-> IF dead(t) THEN NoCall ELSE call[t]]
        /\ file' = file
    BY <1>4 DEF Dies
  <2>2. ASSUME NEW u \in Tasks, pc[u] = "newline"
        PROVE  \/ pc'[u] = "newline" /\ call'[u] = call[u]
               \/ call[u].id \in damaged'
    <3>1. CASE dead(u)
      BY <2>1, <2>2, <3>1 DEF Writing
    <3>2. CASE ~dead(u)
      BY <2>1, <2>2, <3>2
    <3> QED
      BY <3>1, <3>2
  <2> QED
    BY <1>t, <2>1, <2>2, FileFrame
<1>5. ASSUME file' = file, damaged' = damaged,
             \A u \in Tasks : pc[u] = "newline" => pc'[u] = "newline" /\ call'[u] = call[u]
      PROVE  FileEnd' /\ GluedOnlyWhereCut'
  BY <1>5, <1>t, FileFrame
<1>6. ASSUME NEW t \in Tasks, NEW r \in Request, Invoked(t, r)
      PROVE  FileEnd' /\ GluedOnlyWhereCut'
  BY <1>5, <1>6, <1>t DEF Invoked, Emit, At, auditVars
<1>7. ASSUME NEW t \in Tasks, EmitStderr(t) \/ StderrFails(t) \/ LockFile(t)
      PROVE  FileEnd' /\ GluedOnlyWhereCut'
  BY <1>5, <1>7, <1>t DEF EmitStderr, StderrFails, LockFile, At
<1>8. ASSUME NEW t \in Tasks, ToolStep(t) \/ EndStep(t)
      PROVE  FileEnd' /\ GluedOnlyWhereCut'
  <2>1. /\ pc[t] # "newline" /\ UNCHANGED auditVars
        /\ \A u \in Tasks \ {t} : pc'[u] = pc[u] /\ call'[u] = call[u]
    BY <1>8, <1>t DEF ToolStep, Authorize, CheckWindow, Read, ReadFails, ReadHangs,
                 CapResponse, EndStep, Answered, Dropped, Over, Fail, Succeed, Emit, GoOn, At
  <2> QED
    BY <1>5, <2>1 DEF auditVars
<1>9. ASSUME UNCHANGED <<callVars, auditVars>> PROVE FileEnd' /\ GluedOnlyWhereCut'
  BY <1>5, <1>9 DEF callVars, auditVars
<1>10. FileEnd' /\ GluedOnlyWhereCut'
  BY <1>1, <1>2, <1>3, <1>4, <1>6, <1>7, <1>8, <1>9 DEF Next, EmitStep, Start, vars
<1> QED
  BY <1>h, <1>10 DEF FileInv

\* For any number of servers and threads, the mutex of an audit file is held only
\* by a thread that is writing a line: what CallsAnswered needs of it.
THEOREM FileMutexGivenBack == Spec => []FileHeldByWriter
<1>1. Init => FileHeldByWriter
  BY DEF Init, FileHeldByWriter, Writing
<1>2. McpInv /\ FileHeldByWriter /\ [Next]_vars => McpInv' /\ FileHeldByWriter'
  BY NextMcp, HeldStep
<1> QED
  BY <1>1, <1>2, InitMcp, PTL DEF Spec

\* Where one process has the audit file, two of its events share a line only if
\* the first was cut short, whatever its threads do (the mutex around writeln!
\* in FileAuditSink::emit).
THEOREM LinesKeptApart ==
    ASSUME OneFileOwner
    PROVE  Spec => []GluedOnlyWhereCut
<1> DEFINE Inv == McpInv /\ FileInv
<1>1. Init => FileInv
  BY DEF Init, FileInv, FileHeldByWriter, Writing, FileEnd, GluedOnlyWhereCut, Glued
<1>2. Init => Inv
  BY <1>1, InitMcp
<1>3. Inv /\ [Next]_vars => Inv'
  BY NextMcp, FileStep
<1>4. Inv => GluedOnlyWhereCut
  BY DEF FileInv
<1> QED
  BY <1>2, <1>3, <1>4, PTL DEF Spec

-----------------------------------------------------------------------------
\* What the file has of a call in progress: all that stderr has, but for the
\* event that is on its way from one sink to the other.
Filed(t) ==
    IF pc[t] \notin {"lock", "text"} THEN Trail(t)
    ELSE IF event[t].type = "invoke" THEN <<>> ELSE <<Invoke(call[t].id)>>

FiledInv(t) ==
    pc[t] \notin {"idle", "panicked"} /\ call[t].id \notin damaged =>
      InFile(call[t].id, Filed(t))

\* Calls that have not come have no lines.
Known == \A i \in DOMAIN file : file[i].type # "newline" => file[i].id \in 1..issued

TrailInv == Known /\ \A t \in Tasks : FiledInv(t)

\* What an append leaves of the file, and what it adds.
LEMMA FileGrown ==
    ASSUME TypeOK, NEW e \in Event \union {Newline}, file' = Append(file, e)
    PROVE  /\ Len(file) \in Nat /\ DOMAIN file = 1..Len(file)
           /\ DOMAIN file' = 1..(Len(file) + 1)
           /\ \A i \in 1..Len(file) : file'[i] = file[i]
           /\ file'[Len(file) + 1] = e
<1>1. file \in Seq(Event \union {Newline})
  BY DEF TypeOK
<1>2. Len(file) \in Nat /\ DOMAIN file = 1..Len(file)
  BY <1>1, LenProperties
<1>3. Len(file') = Len(file) + 1 /\ file'[Len(file) + 1] = e
  BY <1>1, AppendLast
<1>4. \A i \in 1..Len(file) : file'[i] = file[i]
  BY <1>1, AppendOld
<1>5. file' \in Seq(Event \union {Newline})
  BY <1>1
<1>6. DOMAIN file' = 1..(Len(file) + 1)
  BY <1>3, <1>5, LenProperties
<1> QED
  BY <1>2, <1>3, <1>4, <1>6

\* A newline, or an event of another call, changes nothing of a call's lines.
LEMMA OtherLines ==
    ASSUME TypeOK, NEW id, NEW trail, InFile(id, trail),
           NEW e \in Event \union {Newline}, file' = Append(file, e),
           e.type = "newline" \/ e.id # id
    PROVE  InFile(id, trail)'
<1>1. Lines(id)' = Lines(id)
  BY FileGrown DEF Lines
<1>2. \A i \in Lines(id) : file'[i] = file[i]
  BY FileGrown DEF Lines
<1>3. PICK at \in [DOMAIN trail -> Lines(id)] :
        /\ \A i \in Lines(id) : \E k \in DOMAIN trail : at[k] = i
        /\ \A k, m \in DOMAIN trail : k < m => at[k] < at[m]
        /\ \A k \in DOMAIN trail : file[at[k]] = trail[k]
  BY DEF InFile
<1>4. \A k \in DOMAIN trail : file'[at[k]] = trail[k]
  BY <1>2, <1>3
<1> QED
  BY <1>1, <1>3, <1>4 DEF InFile

\* An event of the call itself becomes its last line.
LEMMA OwnLine ==
    ASSUME TypeOK, NEW id, NEW trail \in Seq(Event), InFile(id, trail),
           NEW e \in Event, file' = Append(file, e), e.id = id
    PROVE  InFile(id, Append(trail, e))'
<1> DEFINE n == Len(file)
           more == Append(trail, e)
           last == Len(trail) + 1
<1>1. /\ n \in Nat /\ DOMAIN file = 1..n /\ DOMAIN file' = 1..(n + 1)
      /\ \A i \in 1..n : file'[i] = file[i]
      /\ file'[n + 1] = e
  BY FileGrown
<1>2. e.type # "newline"
  BY DEF Event
<1>3. Lines(id)' = Lines(id) \union {n + 1} /\ Lines(id) \subseteq 1..n
  BY <1>1, <1>2 DEF Lines
<1>4. Len(trail) \in Nat /\ DOMAIN trail = 1..Len(trail)
  BY LenProperties
<1>5. /\ DOMAIN more = 1..last /\ more[last] = e
      /\ \A k \in 1..Len(trail) : more[k] = trail[k]
  BY AppendProperties
<1>6. PICK at \in [DOMAIN trail -> Lines(id)] :
        /\ \A i \in Lines(id) : \E k \in DOMAIN trail : at[k] = i
        /\ \A k, m \in DOMAIN trail : k < m => at[k] < at[m]
        /\ \A k \in DOMAIN trail : file[at[k]] = trail[k]
  BY DEF InFile
<1> DEFINE now == [k \in 1..last |-> IF k = last THEN n + 1 ELSE at[k]]
<1> HIDE DEF n, more
<1>7. \A k \in 1..Len(trail) : k \in 1..last /\ k # last /\ at[k] \in Lines(id)
  BY <1>4, <1>6
<1>8. last \in 1..last /\ now[last] = n + 1 /\ \A k \in 1..last : k # last => k \in 1..Len(trail)
  BY <1>4
<1>9. \A k \in 1..Len(trail) : now[k] = at[k]
  BY <1>7
<1>10. now \in [DOMAIN more -> Lines(id)']
  BY <1>3, <1>5, <1>7, <1>8
<1>11. \A i \in Lines(id)' : \E k \in DOMAIN more : now[k] = i
  BY <1>3, <1>4, <1>5, <1>6, <1>7, <1>8, <1>9
<1>12. \A k, m \in DOMAIN more : k < m => now[k] < now[m]
  <2> SUFFICES ASSUME NEW k \in 1..last, NEW m \in 1..last, k < m
               PROVE  now[k] < now[m]
    BY <1>5
  <2>1. k \in 1..Len(trail) /\ now[k] = at[k] /\ at[k] \in 1..n
    BY <1>3, <1>4, <1>7, <1>8, <1>9
  <2>2. CASE m = last
    BY <1>1, <1>8, <2>1, <2>2
  <2>3. CASE m # last
    BY <1>4, <1>6, <1>8, <1>9, <2>1, <2>3
  <2> QED
    BY <2>2, <2>3
<1>13. \A k \in DOMAIN more : file'[now[k]] = more[k]
  <2> SUFFICES ASSUME NEW k \in 1..last PROVE file'[now[k]] = more[k]
    BY <1>5
  <2>1. CASE k = last
    BY <1>1, <1>5, <1>8, <2>1
  <2>2. CASE k # last
    <3>1. k \in 1..Len(trail) /\ now[k] = at[k] /\ at[k] \in 1..n
      BY <1>3, <1>7, <1>8, <1>9, <2>2
    <3> QED
      BY <1>1, <1>4, <1>5, <1>6, <3>1
  <2> QED
    BY <2>1, <2>2
<1> HIDE DEF now
<1> QED
  BY <1>10, <1>11, <1>12, <1>13 DEF InFile, more

\* A file that does not change.
LEMMA SameLines ==
    ASSUME NEW id, NEW trail, InFile(id, trail), file' = file
    PROVE  InFile(id, trail)'
<1>1. Lines(id)' = Lines(id)
  BY DEF Lines
<1> QED
  BY <1>1 DEF InFile

\* A call that is left alone, while nothing or a line of another call is written.
LEMMA FiledFrame ==
    ASSUME TypeOK, NEW u \in Tasks, FiledInv(u), damaged \subseteq damaged',
           pc'[u] \notin {"idle", "panicked"} => /\ pc[u] \notin {"idle", "panicked"}
                                                 /\ call'[u] = call[u]
                                                 /\ Filed(u)' = Filed(u),
           \/ file' = file
           \/ \E e \in Event \union {Newline} :
                /\ file' = Append(file, e)
                /\ e.type = "newline" \/ e.id # call[u].id
    PROVE  FiledInv(u)'
<1> SUFFICES ASSUME pc'[u] \notin {"idle", "panicked"}, call'[u].id \notin damaged'
             PROVE  InFile(call[u].id, Filed(u))'
  BY DEF FiledInv
<1>1. InFile(call[u].id, Filed(u))
  BY DEF FiledInv
<1> DEFINE id == call[u].id
           trail == Filed(u)
<1>2. id' = id /\ trail' = trail
  OBVIOUS
<1> HIDE DEF id, trail
<1>3. PICK i, t : i = id /\ t = trail
  OBVIOUS
<1>4. InFile(i, t)'
  BY <1>1, <1>3, SameLines, OtherLines DEF id, trail
<1>5. Lines(i)' = Lines(id)'
  BY <1>2, <1>3 DEF Lines
<1> QED
  BY <1>2, <1>3, <1>4, <1>5 DEF InFile, id, trail

\* What another thread does leaves a call's record alone.
LEMMA OthersFiled ==
    ASSUME McpInv, TrailInv, NEW t \in Tasks, NEW u \in Tasks, u # t,
           (\E r \in Request : Invoked(t, r)) \/ EmitStep(t) \/ ToolStep(t) \/ EndStep(t)
    PROVE  FiledInv(u)'
<1>t. /\ TypeOK /\ pc \in [Tasks -> Places] /\ call \in [Tasks -> Request \union {NoCall}]
      /\ event \in [Tasks -> Event \union {NoEvent}]
  BY DEF McpInv, TypeOK
<1>1. /\ pc'[u] = pc[u] /\ call'[u] = call[u] /\ event'[u] = event[u]
      /\ damaged \subseteq damaged'
  BY <1>t DEF Invoked, EmitStep, ToolStep, EmitStderr, StderrFails, LockFile, WriteText, WriteNewline,
      WriteFails, Emitted, Authorize, CheckWindow, Read, ReadFails, ReadHangs,
      CapResponse, EndStep, Answered, Dropped, Over, Fail, Succeed, Emit, GoOn, At, auditVars
<1>2. pc[u] # "idle" => Trail(u)' = Trail(u)
  <2> SUFFICES ASSUME pc[u] # "idle" PROVE Trail(u)' = Trail(u)
    OBVIOUS
  <2>1. CASE \/ EmitStderr(t)
             \/ StderrFails(t) /\ stderr' # stderr
    <3>1. event[t].id = call[t].id /\ pc[t] # "idle"
      BY <2>1, EmittedEvent DEF EmitStderr, StderrFails, Emitting
    <3>2. call[u].id # call[t].id
      BY <3>1 DEF McpInv, Distinct
    <3>3. stderr' = [stderr EXCEPT ![call[t].id] = Append(@, event[t])]
      BY <2>1, <3>1 DEF EmitStderr, StderrFails
    <3>4. stderr'[call[u].id] = stderr[call[u].id]
      BY <3>2, <3>3 DEF McpInv, TypeOK
    <3> QED
      BY <1>1, <3>4 DEF Trail
  <2>2. CASE stderr' = stderr
    BY <1>1, <2>2 DEF Trail
  <2>3. EmitStderr(t) \/ StderrFails(t) \/ stderr' = stderr
    BY DEF Invoked, EmitStep, ToolStep, LockFile, WriteText, WriteNewline,
      WriteFails, Authorize, CheckWindow, Read, ReadFails, ReadHangs,
      CapResponse, EndStep, Answered, Dropped, Over, auditVars
  <2> QED
    BY <2>1, <2>2, <2>3
<1>3. pc[u] # "idle" => Filed(u)' = Filed(u)
  BY <1>1, <1>2 DEF Filed
<1>4. CASE pc[u] = "idle"
  BY <1>1, <1>4 DEF FiledInv
<1>5. CASE pc[u] # "idle"
  <2>1. \/ file' = file
        \/ file' = Append(file, Newline)
        \/ pc[t] = "text" /\ file' = Append(file, event[t])
    BY DEF Invoked, EmitStep, ToolStep, EmitStderr, StderrFails, LockFile, WriteText, WriteNewline,
      WriteFails, Authorize, CheckWindow, Read, ReadFails, ReadHangs,
      CapResponse, EndStep, Answered, Dropped, Over, auditVars
  <2>2. ASSUME pc[t] = "text"
        PROVE  event[t] \in Event /\ event[t].id # call[u].id
    <3>1. event[t] \in Event /\ event[t].id = call[t].id
      BY <2>2, EmittedEvent DEF Emitting, Writing
    <3> QED
      BY <1>5, <2>2, <3>1 DEF McpInv, Distinct
  <2>3. \/ file' = file
        \/ \E e \in Event \union {Newline} :
             /\ file' = Append(file, e)
             /\ e.type = "newline" \/ e.id # call[u].id
    BY <2>1, <2>2 DEF Newline
  <2> QED
    BY <1>t, <1>1, <1>3, <1>5, <2>3, FiledFrame DEF TrailInv
<1> QED
  BY <1>4, <1>5

\* The record of a call that a thread is in: the line it adds is the event that
\* stderr had before.
LEMMA OwnFiled ==
    ASSUME McpInv, TrailInv, NEW t \in Tasks, EmitStep(t)
    PROVE  FiledInv(t)'
<1>t. /\ TypeOK /\ pc \in [Tasks -> Places] /\ call \in [Tasks -> Request \union {NoCall}]
      /\ event \in [Tasks -> Event \union {NoEvent}]
  BY DEF McpInv, TypeOK
<1>1. pc[t] \in Emitting /\ call' = call
  BY DEF EmitStep, EmitStderr, StderrFails, LockFile, WriteText, WriteNewline, WriteFails,
         Emitted,
         Emitting, Writing
<1>2. /\ call[t].id \in Ids /\ event[t] \in Event /\ event[t].id = call[t].id
      /\ Invoking(t) \/ Closing(t)
      /\ Invoking(t) => event[t].type = "invoke"
      /\ Closing(t) => event[t].type = "result"
  BY <1>1, EmittedEvent
<1>3. pc[t] \notin {"idle", "panicked"} /\ FiledInv(t)
  BY <1>1 DEF Emitting, Writing, TrailInv
<1>4. CASE EmitStderr(t)
  <2>1. /\ pc[t] = "stderr" /\ pc'[t] = "lock" /\ event' = event
        /\ damaged' = damaged /\ file' = file
    BY <1>4, <1>t DEF EmitStderr, At
  <2>2. Filed(t)' = Filed(t)
    BY <1>1, <1>2, <2>1 DEF Filed, Invoking, Closing, Trail
  <2> QED
    BY <1>1, <1>3, <1>t, <2>1, <2>2, FiledFrame
<1>5. CASE LockFile(t)
  <2>1. /\ pc[t] = "lock" /\ pc'[t] = "text" /\ event' = event
        /\ damaged' = damaged /\ file' = file
    BY <1>5, <1>t DEF LockFile, At
  <2>2. Filed(t)' = Filed(t)
    BY <1>1, <2>1 DEF Filed
  <2> QED
    BY <1>1, <1>3, <1>t, <2>1, <2>2, FiledFrame
<1>6. CASE WriteText(t)
  <2>1. /\ pc[t] = "text" /\ pc'[t] = "newline" /\ stderr' = stderr
        /\ damaged' = damaged /\ file' = Append(file, event[t])
    BY <1>6, <1>t DEF WriteText, At
  <2>2. Filed(t) \in Seq(Event) /\ Append(Filed(t), event[t]) = Trail(t)
    <3>1. CASE Invoking(t)
      <4>1. Filed(t) = <<>> /\ Trail(t) = <<event[t]>>
        BY <1>2, <2>1, <3>1 DEF Filed, Invoking
      <4>2. Append(<<>>, event[t]) = <<event[t]>>
        OBVIOUS
      <4> QED
        BY <4>1, <4>2
    <3>2. CASE Closing(t)
      <4>1. Filed(t) = <<Invoke(call[t].id)>>
        BY <1>2, <2>1, <3>2 DEF Filed
      <4>2. Trail(t) = <<Invoke(call[t].id), event[t]>>
        BY <2>1, <3>2 DEF Closing, Record, Result
      <4>3. Invoke(call[t].id) \in Event
        BY <1>2, EventTypes
      <4> QED
        BY <4>1, <4>2, <4>3, AppendSecond
    <3> QED
      BY <1>2, <3>1, <3>2
  <2>3. Filed(t)' = Trail(t)
    BY <1>1, <2>1 DEF Filed, Trail
  <2>4. SUFFICES ASSUME call[t].id \notin damaged PROVE InFile(call[t].id, Trail(t))'
    BY <1>1, <2>1, <2>3 DEF FiledInv, Filed
  <2>5. InFile(call[t].id, Filed(t))
    BY <1>3, <2>4 DEF FiledInv
  <2>6. PICK i, s : i = call[t].id /\ s = Filed(t)
    OBVIOUS
  <2>7. PICK e \in Event : e = event[t] /\ e.id = i
    BY <1>2, <2>6
  <2>8. InFile(i, Append(s, e))'
    BY <1>t, <2>1, <2>2, <2>5, <2>6, <2>7, OwnLine
  <2>9. Trail(t)' = Append(s, e) /\ call'[t].id = i
    BY <1>1, <2>1, <2>2, <2>6, <2>7 DEF Trail
  <2>10. Lines(call[t].id)' = Lines(i)'
    BY <2>9 DEF Lines
  <2> QED
    BY <2>8, <2>9, <2>10 DEF InFile
<1>7. CASE WriteNewline(t)
  <2>1. /\ pc[t] = "newline" /\ pc'[t] \in {"authorize", "answered"} /\ stderr' = stderr
        /\ damaged' = damaged /\ file' = Append(file, Newline) /\ Newline.type = "newline"
    BY <1>7, <1>t DEF WriteNewline, Emitted, At, Newline
  <2>2. Filed(t)' = Filed(t)
    BY <1>1, <2>1 DEF Filed, Trail
  <2> QED
    BY <1>1, <1>3, <1>t, <2>1, <2>2, FiledFrame
<1>8. CASE WriteFails(t)
  BY <1>1, <1>8 DEF WriteFails, FiledInv
<1>9. CASE StderrFails(t)
  BY <1>9, <1>t DEF StderrFails, At, FiledInv
<1> QED
  BY <1>4, <1>5, <1>6, <1>7, <1>8, <1>9 DEF EmitStep

\* Between its two events a call writes nothing, and a new call has no lines yet.
LEMMA QuietFiled ==
    ASSUME McpInv, TrailInv, NEW t \in Tasks,
           (\E r \in Request : Invoked(t, r)) \/ ToolStep(t) \/ EndStep(t)
    PROVE  FiledInv(t)'
<1>t. /\ TypeOK /\ pc \in [Tasks -> Places] /\ call \in [Tasks -> Request \union {NoCall}]
      /\ event \in [Tasks -> Event \union {NoEvent}]
  BY DEF McpInv, TypeOK
<1>1. UNCHANGED auditVars
  BY DEF Invoked, ToolStep, Authorize, CheckWindow, Read, ReadFails, ReadHangs,
      CapResponse, EndStep, Answered, Dropped, Over
<1>2. CASE EndStep(t)
  BY <1>2, <1>t DEF EndStep, Answered, Dropped, Over, At, FiledInv
<1>3. CASE ToolStep(t)
  <2>1. /\ pc[t] \in {"authorize", "window", "read", "cap"} /\ call' = call
        /\ pc'[t] \in {"stderr", "window", "read", "cap", "hung"}
    BY <1>3, <1>t DEF ToolStep, Authorize, CheckWindow, Read, ReadFails, ReadHangs,
        CapResponse, Fail, Succeed, Emit, GoOn, At
  <2>2. Filed(t)' = Filed(t)
    BY <1>1, <2>1 DEF Filed, Trail, auditVars
  <2>3. FiledInv(t)
    BY DEF TrailInv
  <2> QED
    BY <1>1, <1>t, <2>1, <2>2, <2>3, FiledFrame DEF auditVars
<1>4. ASSUME NEW r \in Request, Invoked(t, r) PROVE FiledInv(t)'
  <2>1. /\ pc'[t] = "stderr" /\ call'[t] = r /\ r.id > issued /\ r.id \in Ids
    BY <1>4, <1>t DEF Invoked, Emit, At, Request, TypeOK
  <2>2. Filed(t)' = <<>>
    BY <1>1, <2>1 DEF Filed, Trail, McpInv, Recorded, auditVars
  <2>3. Lines(r.id) = {}
    BY <1>t, <2>1 DEF TrailInv, Known, Lines, TypeOK, Ids
  <2>4. Lines(call[t].id)' = {}
    BY <1>1, <2>1, <2>3 DEF Lines, auditVars
  <2>5. DOMAIN <<>> = {} /\ <<>> \in [{} -> {}]
    OBVIOUS
  <2>6. InFile(call[t].id, Filed(t))'
    BY <2>2, <2>4, <2>5 DEF InFile
  <2> QED
    BY <2>6 DEF FiledInv
<1> QED
  BY <1>2, <1>3, <1>4

LEMMA KnownStep ==
    ASSUME McpInv, Known, [Next]_vars
    PROVE  Known'
<1>t. TypeOK /\ issued \in Nat
  BY MaxCallsAssumption DEF McpInv, TypeOK
<1>1. ASSUME issued' \in Nat, issued <= issued', file' = file PROVE Known'
  BY <1>1, <1>t DEF Known
<1>2. ASSUME NEW t \in Tasks, EmitStep(t) PROVE Known'
  <2>1. /\ pc[t] \in Emitting /\ issued' = issued
        /\ \/ file' = file
           \/ file' = Append(file, Newline)
           \/ file' = Append(file, event[t])
    BY <1>2 DEF EmitStep, EmitStderr, StderrFails, LockFile, WriteText, WriteNewline, WriteFails,
           Emitting, Writing
  <2>2. event[t] \in Event /\ event[t].id \in 1..issued
    BY <1>t, <2>1, EmittedEvent DEF Ids
  <2>3. ASSUME NEW e \in Event \union {Newline}, file' = Append(file, e),
               e.type # "newline" => e.id \in 1..issued
        PROVE  Known'
    <3>1. /\ Len(file) \in Nat /\ DOMAIN file = 1..Len(file)
          /\ DOMAIN file' = 1..(Len(file) + 1)
          /\ \A i \in 1..Len(file) : file'[i] = file[i]
          /\ file'[Len(file) + 1] = e
      BY <1>t, <2>3, FileGrown
    <3> SUFFICES ASSUME NEW i \in 1..(Len(file) + 1), file'[i].type # "newline"
                 PROVE  file'[i].id \in 1..issued
      BY <2>1, <3>1 DEF Known
    <3>2. CASE i = Len(file) + 1
      BY <2>3, <3>1, <3>2
    <3>3. CASE i # Len(file) + 1
      <4>1. i \in 1..Len(file)
        BY <3>1, <3>3
      <4> QED
        BY <3>1, <4>1 DEF Known
    <3> QED
      BY <3>2, <3>3
  <2> QED
    BY <1>1, <1>t, <2>1, <2>2, <2>3 DEF Newline
<1>3. ASSUME NEW t \in Tasks,
             (\E r \in Request : Invoked(t, r)) \/ ToolStep(t) \/ EndStep(t)
      PROVE  Known'
  <2>1. file' = file /\ (issued' = issued \/ issued' = issued + 1)
    BY <1>3 DEF Invoked, ToolStep, Authorize, CheckWindow, Read, ReadFails, ReadHangs,
           CapResponse, EndStep, Answered, Dropped, Over, auditVars
  <2> QED
    BY <1>1, <1>t, <2>1
<1>4. ASSUME NEW p \in Servers, Start(p) \/ Dies(p) PROVE Known'
  BY <1>1, <1>4, <1>t DEF Start, Dies, auditVars
<1>5. CASE UNCHANGED vars
  BY <1>1, <1>5, <1>t DEF vars, auditVars
<1> QED
  BY <1>2, <1>3, <1>4, <1>5 DEF Next

LEMMA TrailStep ==
    ASSUME McpInv, TrailInv, [Next]_vars
    PROVE  TrailInv'
<1>t. TypeOK /\ \A u \in Tasks : FiledInv(u)
  BY DEF McpInv, TrailInv
<1>1. ASSUME NEW t \in Tasks,
             \/ \E r \in Request : Invoked(t, r)
             \/ EmitStep(t) \/ ToolStep(t) \/ EndStep(t),
             NEW u \in Tasks
      PROVE  FiledInv(u)'
  BY <1>1, OwnFiled, QuietFiled, OthersFiled
<1>2. ASSUME NEW p \in Servers, Dies(p), NEW u \in Tasks PROVE FiledInv(u)'
  <2>1. /\ damaged \subseteq damaged' /\ file' = file /\ stderr' = stderr
        /\ pc'[u] # "idle" => /\ pc'[u] = pc[u] /\ call'[u] = call[u]
                               /\ event'[u] = event[u]
    BY <1>2 DEF Dies
  <2>2. pc'[u] # "idle" => Filed(u)' = Filed(u)
    BY <2>1 DEF Filed, Trail
  <2> QED
    BY <1>t, <2>1, <2>2, FiledFrame
<1>3. ASSUME UNCHANGED <<callVars, auditVars>>, NEW u \in Tasks PROVE FiledInv(u)'
  <2>1. Filed(u)' = Filed(u)
    BY <1>3 DEF Filed, Trail, callVars, auditVars
  <2> QED
    BY <1>3, <1>t, <2>1, FiledFrame DEF callVars, auditVars
<1>4. \A u \in Tasks : FiledInv(u)'
  BY <1>1, <1>2, <1>3 DEF Next, Start, vars
<1> QED
  BY <1>4, KnownStep DEF TrailInv

\* The audit file says of an answered call what stderr says, line for line and
\* in the same order, unless one of its writes failed: for any number of
\* processes on the file (MultiAuditSink emits every event to every sink).
THEOREM FileIsStderr == Spec => []FileMatchesStderr
<1> DEFINE Inv == McpInv /\ TrailInv
<1>1. Init => TrailInv
  BY DEF Init, TrailInv, Known, FiledInv
<1>2. Init => Inv
  BY <1>1, InitMcp
<1>3. Inv /\ [Next]_vars => Inv'
  BY NextMcp, TrailStep
<1>4. Inv => FileMatchesStderr
  BY DEF TrailInv, FiledInv, Filed, Trail, FileMatchesStderr
<1> QED
  BY <1>2, <1>3, <1>4, PTL DEF Spec
=============================================================================
