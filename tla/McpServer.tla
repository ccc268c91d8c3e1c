----------------------------- MODULE McpServer -----------------------------
(***************************************************************************)
(* TemperatureMcpService (src/mcp/server.rs) and its audit sinks           *)
(* (src/audit.rs): MCP servers over stdio, one process for each agent that *)
(* starts one, each running its tool calls on several threads.  A handler  *)
(* records an invoke event, checks the token, reads sensors or database,   *)
(* caps the payload and records a result event.                            *)
(*                                                                         *)
(* FileAuditSink appends an event with writeln! on an unbuffered File:     *)
(* one write for the text and one for the newline, both under a mutex of   *)
(* the process.  Several processes may append to one file.                 *)
(*                                                                         *)
(* Two calls never get a response: one whose event eprintln! cannot print, *)
(* which panics, and one whose collection waits for an nvidia-smi that     *)
(* never ends.                                                             *)
(*                                                                         *)
(* Operators introduced as a "faulty form" are not part of Next.           *)
(***************************************************************************)
EXTENDS Naturals, Sequences, FiniteSets

CONSTANTS
    Servers,        \* MCP server processes
    Tasks,          \* the threads that run tool calls
    ServerOf,       \* the process a thread belongs to
    NoTask,         \* an unlocked mutex
    TokenRequired,  \* is TEMPCHECK_MCP_TOKEN set?
    MaxBytes,       \* MAX_RESPONSE_BYTES
    Sizes,          \* payload sizes that occur
    Tokens,         \* tokens that callers present: "right", "wrong"
    Windows,        \* from and to: "bad" (no times, or not in order), "fine"
    WritesFail,     \* may a write to stderr or to the audit file fail?
    MaxCalls        \* bound of the model: tool calls

ASSUME ServerOfAssumption == ServerOf \in [Tasks -> Servers]
ASSUME NoTaskAssumption   == NoTask \notin Tasks
ASSUME BytesAssumption    == MaxBytes \in Nat /\ Sizes \subseteq Nat
ASSUME FlagsAssumption    == {TokenRequired, WritesFail} \subseteq BOOLEAN
ASSUME InputsAssumption   == /\ Tokens \subseteq {"right", "wrong"}
                             /\ Windows \subseteq {"bad", "fine"}
ASSUME MaxCallsAssumption == MaxCalls \in Nat

VARIABLES
    server,   \* [Servers -> "down" | "up"]
    pc,       \* [Tasks -> the thread's place in the handler]
    call,     \* [Tasks -> the call: its id, tool, token and window]
    event,    \* [Tasks -> the audit event being emitted]
    payload,  \* [Tasks -> size of the response read so far]
    answer,   \* [Tasks -> the handler's result]
    mutex,    \* [Servers -> the thread that holds the audit file]
    stderr,   \* [call ids -> events of the call on the servers' stderr]
    file,     \* the audit file: event texts, whole or cut short, and newlines
    damaged,  \* history: calls one of whose lines a death or an error cut short
    issued,   \* calls issued so far: ids are Uuid::new_v4, never reused
    reads     \* history: ids of calls that read sensors or the database

callVars  == <<pc, call, event, payload, answer>>
auditVars == <<mutex, stderr, file, damaged>>
vars      == <<server, callVars, auditVars, issued, reads>>

Ids     == 1..MaxCalls
Tools   == {"get_current_temperature", "analyze_temperature"}

Request == { r \in [id: Ids, tool: Tools, token: Tokens, window: Windows] :
               r.tool = "get_current_temperature" => r.window = "fine" }

Invoke(id)        == [id |-> id, type |-> "invoke", status |-> "pending", bytes |-> 0]
Success(id, size) == [id |-> id, type |-> "result", status |-> "success", bytes |-> size]
\* Faulty form of Failure: a status that no reader of the log knows.
FailureNamed(id)  == [id |-> id, type |-> "result", status |-> "failed", bytes |-> 0]

Failure(id)       == [id |-> id, type |-> "result", status |-> "error", bytes |-> 0]
Event == [id: Ids, type: {"invoke", "result"},
          status: {"pending", "success", "error"}, bytes: Nat]

NoCall   == [id |-> 0]
NoEvent  == [id |-> 0]
NoAnswer == [status |-> "none"]
Newline  == [type |-> "newline"]

\* A thread appends to the file only while it holds the mutex.
Writing == {"text", "newline"}

-----------------------------------------------------------------------------
Init ==
    /\ server = [p \in Servers |-> "down"]
    /\ pc = [t \in Tasks |-> "idle"]
    /\ call = [t \in Tasks |-> NoCall]
    /\ event = [t \in Tasks |-> NoEvent]
    /\ payload = [t \in Tasks |-> 0]
    /\ answer = [t \in Tasks |-> NoAnswer]
    /\ mutex = [p \in Servers |-> NoTask]
    /\ stderr = [id \in Ids |-> <<>>]
    /\ file = <<>>
    /\ damaged = {}
    /\ issued = 0
    /\ reads = {}

\* TemperatureMcpService::new: the database and the audit file open.  When
\* one does not, the process ends as it began.
Start(p) ==
    /\ server[p] = "down"
    /\ server' = [server EXCEPT ![p] = "up"]
    /\ UNCHANGED <<callVars, auditVars, issued, reads>>

At(t, place) == pc' = [pc EXCEPT ![t] = place]

\* Starts MultiAuditSink::emit of e.
Emit(t, e) ==
    /\ event' = [event EXCEPT ![t] = e]
    /\ At(t, "stderr")

\* Faulty form of Invoked: only the result is audited.
InvokedQuietly(t, r) ==
    /\ server[ServerOf[t]] = "up"
    /\ pc[t] = "idle"
    /\ issued < MaxCalls
    /\ r.id = issued + 1
    /\ issued' = r.id
    /\ call' = [call EXCEPT ![t] = r]
    /\ At(t, "authorize")
    /\ UNCHANGED <<server, event, payload, answer, auditVars, reads>>

\* A tool call arrives; audit_invoke runs before anything else.
Invoked(t, r) ==
    /\ server[ServerOf[t]] = "up"
    /\ pc[t] = "idle"
    /\ issued < MaxCalls
    /\ r.id = issued + 1
    /\ issued' = r.id
    /\ call' = [call EXCEPT ![t] = r]
    /\ Emit(t, Invoke(r.id))
    /\ UNCHANGED <<server, payload, answer, auditVars, reads>>

-----------------------------------------------------------------------------
\* StderrAuditSink: eprintln! holds stderr's lock for the whole line.
EmitStderr(t) ==
    /\ pc[t] = "stderr"
    /\ stderr' = [stderr EXCEPT ![event[t].id] = Append(@, event[t])]
    /\ At(t, "lock")
    /\ UNCHANGED <<server, call, event, payload, answer, mutex, file, damaged, issued, reads>>

\* eprintln! panics when stderr cannot be written (the agent has closed its end
\* of the pipe), possibly after the text; no other sink is reached.
StderrFails(t) ==
    /\ WritesFail
    /\ pc[t] = "stderr"
    /\ \/ UNCHANGED stderr
       \/ stderr' = [stderr EXCEPT ![event[t].id] = Append(@, event[t])]
    /\ event' = [event EXCEPT ![t] = NoEvent]
    /\ At(t, "panicked")
    /\ UNCHANGED <<server, call, payload, answer, mutex, file, damaged, issued, reads>>

\* Faulty form of LockFile: a File is shared without a mutex.
LockFileNot(t) ==
    /\ pc[t] = "lock"
    /\ mutex' = [mutex EXCEPT ![ServerOf[t]] = t]
    /\ At(t, "text")
    /\ UNCHANGED <<server, call, event, payload, answer, stderr, file, damaged, issued, reads>>

\* Faulty form of LockFile: try_lock, and no line when the file is busy.
LockFileTry(t) ==
    /\ pc[t] = "lock"
    /\ IF mutex[ServerOf[t]] = NoTask
       THEN /\ mutex' = [mutex EXCEPT ![ServerOf[t]] = t]
            /\ At(t, "text")
            /\ UNCHANGED event
       ELSE /\ event' = [event EXCEPT ![t] = NoEvent]
            /\ At(t, IF event[t].type = "invoke" THEN "authorize" ELSE "answered")
            /\ UNCHANGED mutex
    /\ UNCHANGED <<server, call, payload, answer, stderr, file, damaged, issued, reads>>

\* FileAuditSink: self.file.lock().
LockFile(t) ==
    /\ pc[t] = "lock"
    /\ mutex[ServerOf[t]] = NoTask
    /\ mutex' = [mutex EXCEPT ![ServerOf[t]] = t]
    /\ At(t, "text")
    /\ UNCHANGED <<server, call, event, payload, answer, stderr, file, damaged, issued, reads>>

WriteText(t) ==
    /\ pc[t] = "text"
    /\ file' = Append(file, event[t])
    /\ At(t, "newline")
    /\ UNCHANGED <<server, call, event, payload, answer, mutex, stderr, damaged, issued, reads>>

\* emit returns: the handler goes on after its invoke event, and ends after
\* its result event.
Emitted(t) ==
    /\ event' = [event EXCEPT ![t] = NoEvent]
    /\ At(t, IF event[t].type = "invoke" THEN "authorize" ELSE "answered")
    /\ mutex' = [mutex EXCEPT ![ServerOf[t]] = NoTask]

WriteNewline(t) ==
    /\ pc[t] = "newline"
    /\ file' = Append(file, Newline)
    /\ Emitted(t)
    /\ UNCHANGED <<server, call, payload, answer, stderr, damaged, issued, reads>>

\* Faulty form of WriteFails: the event is emitted again before the mutex is
\* given back.
WriteFailsRetries(t) ==
    /\ WritesFail
    /\ pc[t] \in Writing
    /\ damaged' = damaged \union {call[t].id}
    /\ At(t, "lock")
    /\ UNCHANGED <<server, call, event, payload, answer, mutex, stderr, file, issued, reads>>

\* A write fails (disk full): `let _ =` drops the error and the rest of the
\* line.  A text may have been written in part: a line cut short.
WriteFails(t) ==
    /\ WritesFail
    /\ pc[t] \in Writing
    /\ damaged' = damaged \union {call[t].id}
    /\ \/ UNCHANGED file
       \/ pc[t] = "text" /\ file' = Append(file, event[t])
    /\ Emitted(t)
    /\ UNCHANGED <<server, call, payload, answer, stderr, issued, reads>>

-----------------------------------------------------------------------------
Succeed(t, size) ==
    /\ answer' = [answer EXCEPT ![t] = [status |-> "success", bytes |-> size]]
    /\ Emit(t, Success(call[t].id, size))

Fail(t, code) ==
    /\ answer' = [answer EXCEPT ![t] = [status |-> "error", code |-> code]]
    /\ Emit(t, Failure(call[t].id))

GoOn(t, place) ==
    /\ At(t, place)
    /\ UNCHANGED <<event, answer>>

\* Faulty form of Authorize: fail open, an error is only recorded.
AuthorizeAfterwards(t) ==
    /\ pc[t] = "authorize"
    /\ GoOn(t, "window")
    /\ UNCHANGED <<server, call, payload, auditVars, issued, reads>>

Authorize(t) ==
    /\ pc[t] = "authorize"
    /\ IF TokenRequired /\ call[t].token # "right"
       THEN Fail(t, "invalid_params")
       ELSE GoOn(t, "window")
    /\ UNCHANGED <<server, call, payload, auditVars, issued, reads>>

\* parse_time and from >= to; get_current_temperature has no window.
CheckWindow(t) ==
    /\ pc[t] = "window"
    /\ IF call[t].window # "fine"
       THEN Fail(t, "invalid_params")
       ELSE GoOn(t, "read")
    /\ UNCHANGED <<server, call, payload, auditVars, issued, reads>>

\* collect or analyze returns a payload.
Read(t) ==
    /\ pc[t] = "read"
    /\ reads' = reads \union {call[t].id}
    /\ \E size \in Sizes : payload' = [payload EXCEPT ![t] = size]
    /\ GoOn(t, "cap")
    /\ UNCHANGED <<server, call, auditVars, issued>>

\* collect waits for the output of an nvidia-smi that never ends.
ReadHangs(t) ==
    /\ pc[t] = "read"
    /\ call[t].tool = "get_current_temperature"
    /\ reads' = reads \union {call[t].id}
    /\ GoOn(t, "hung")
    /\ UNCHANGED <<server, call, payload, auditVars, issued>>

\* collect or analyze fails; only the row limit is the client's mistake.
ReadFails(t) ==
    /\ pc[t] = "read"
    /\ reads' = reads \union {call[t].id}
    /\ \/ Fail(t, "internal_error")
       \/ /\ call[t].tool = "analyze_temperature"
          /\ Fail(t, "invalid_params")
    /\ UNCHANGED <<server, call, payload, auditVars, issued>>

\* Faulty form of CapResponse: success is recorded for a payload that is
\* then refused.
CapResponseLate(t) ==
    /\ pc[t] = "cap"
    /\ answer' = [answer EXCEPT ![t] = IF payload[t] > MaxBytes
                    THEN [status |-> "error", code |-> "internal_error"]
                    ELSE [status |-> "success", bytes |-> payload[t]]]
    /\ Emit(t, Success(call[t].id, payload[t]))
    /\ UNCHANGED <<server, call, payload, auditVars, issued, reads>>

\* cap_response, then the result.
CapResponse(t) ==
    /\ pc[t] = "cap"
    /\ IF payload[t] > MaxBytes
       THEN Fail(t, "internal_error")
       ELSE Succeed(t, payload[t])
    /\ UNCHANGED <<server, call, payload, auditVars, issued, reads>>

\* The handler is over and its thread is free.
Over(t) ==
    /\ At(t, "idle")
    /\ call' = [call EXCEPT ![t] = NoCall]
    /\ payload' = [payload EXCEPT ![t] = 0]
    /\ answer' = [answer EXCEPT ![t] = NoAnswer]
    /\ UNCHANGED <<server, event, auditVars, issued, reads>>

\* The response goes to the client.
Answered(t) ==
    /\ pc[t] = "answered"
    /\ Over(t)

\* The runtime catches the panic and drops the handler: no response.
Dropped(t) ==
    /\ pc[t] = "panicked"
    /\ Over(t)

\* The agent ends its server, at any point.
Dies(p) ==
    LET dead(t) == ServerOf[t] = p
    IN  /\ server[p] = "up"
        /\ server' = [server EXCEPT ![p] = "down"]
        /\ mutex' = [mutex EXCEPT ![p] = NoTask]
        /\ damaged' = damaged \union
             {call[t].id : t \in {u \in Tasks : dead(u) /\ pc[u] \in Writing}}
        /\ pc' = [t \in Tasks |-> IF dead(t) THEN "idle" ELSE pc[t]]
        /\ call' = [t \in Tasks |-> IF dead(t) THEN NoCall ELSE call[t]]
        /\ event' = [t \in Tasks |-> IF dead(t) THEN NoEvent ELSE event[t]]
        /\ payload' = [t \in Tasks |-> IF dead(t) THEN 0 ELSE payload[t]]
        /\ answer' = [t \in Tasks |-> IF dead(t) THEN NoAnswer ELSE answer[t]]
        /\ UNCHANGED <<stderr, file, issued, reads>>

-----------------------------------------------------------------------------
EmitStep(t) ==
    \/ EmitStderr(t) \/ StderrFails(t)
    \/ LockFile(t) \/ WriteText(t) \/ WriteNewline(t) \/ WriteFails(t)

ToolStep(t) ==
    \/ Authorize(t) \/ CheckWindow(t) \/ CapResponse(t)
    \/ Read(t) \/ ReadFails(t) \/ ReadHangs(t)

EndStep(t) == Answered(t) \/ Dropped(t)

Next ==
    \/ \E p \in Servers : Start(p) \/ Dies(p)
    \/ \E t \in Tasks :
         \/ \E r \in Request : Invoked(t, r)
         \/ EmitStep(t)
         \/ ToolStep(t)
         \/ EndStep(t)

Spec == Init /\ [][Next]_vars

\* The runtime runs every thread, and the client reads stdout and stderr.  A
\* collection need not end (ReadHangs is a ToolStep).  The calls are finitely
\* many: nothing orders the threads that wait for a std mutex.
FairSpec ==
    Spec /\ \A t \in Tasks : WF_vars(EmitStep(t) \/ ToolStep(t) \/ EndStep(t))

-----------------------------------------------------------------------------
Places == {"idle", "stderr", "lock", "authorize", "window", "read", "cap",
           "hung", "panicked", "answered"} \union Writing

TypeOK ==
    /\ server \in [Servers -> {"down", "up"}]
    /\ pc \in [Tasks -> Places]
    /\ call \in [Tasks -> Request \union {NoCall}]
    /\ event \in [Tasks -> Event \union {NoEvent}]
    /\ payload \in [Tasks -> Sizes \union {0}]
    /\ DOMAIN answer = Tasks
    /\ mutex \in [Servers -> Tasks \union {NoTask}]
    /\ stderr \in [Ids -> Seq(Event)]
    /\ file \in Seq(Event \union {Newline})
    /\ damaged \subseteq Ids
    /\ issued \in 0..MaxCalls
    /\ reads \subseteq Ids

\* What is on record of a call when it is answered: one invoke and one result,
\* which says what the client is told.
Record(id, a) ==
    << Invoke(id), IF a.status = "success" THEN Success(id, a.bytes) ELSE Failure(id) >>

\* Whatever fails on the way, the audit trail of an answered call is its invoke
\* and one result that agrees with the answer; what was read is the answer if it
\* is within the cap, to the byte, and refused if not (audit_invoke,
\* audit_result, cap_response).
TrailMatchesAnswer ==
    \A t \in Tasks : pc[t] = "answered" =>
      /\ stderr[call[t].id] = Record(call[t].id, answer[t])
      /\ answer[t].status = "success" => answer[t].bytes = payload[t]
      /\ payload[t] # 0 => (answer[t].status = "success" <=> payload[t] <= MaxBytes)

\* Sensors and database are read only for a call whose invoke event is on
\* record before: also calls that are over or died left a trail (audit_invoke).
ReadsAreOnRecord ==
    \A id \in reads : stderr[id] # <<>> /\ stderr[id][1] = Invoke(id)

\* Where a token is required, they are read only for a call that had it
\* (docs/features/mcp-server.md: "fail-closed per call").
FailClosed ==
    TokenRequired =>
      \A t \in Tasks : call[t].id \in reads => call[t].token = "right"

\* Where the events of a call are in the file, whole or cut short.
Lines(id) == { i \in DOMAIN file : file[i].type # "newline" /\ file[i].id = id }

\* The lines of a call are the events of `trail`, each once and in that order.
InFile(id, trail) ==
    \E at \in [DOMAIN trail -> Lines(id)] :
      /\ \A i \in Lines(id) : \E k \in DOMAIN trail : at[k] = i
      /\ \A k, m \in DOMAIN trail : k < m => at[k] < at[m]
      /\ \A k \in DOMAIN trail : file[at[k]] = trail[k]

\* The file says of an answered call what stderr says, unless a write failed.
FileMatchesStderr ==
    \A t \in Tasks : pc[t] = "answered" /\ call[t].id \notin damaged =>
      InFile(call[t].id, stderr[call[t].id])

\* Places where an event follows an event on one line.
Glued == { i \in DOMAIN file : i > 1 /\ "newline" \notin {file[i - 1].type, file[i].type} }

\* Two events share a line only where a death or an error has cut the first of
\* them short: threads never mix their lines (the mutex of FileAuditSink).
GluedOnlyWhereCut == \A i \in Glued : file[i - 1].id \in damaged

\* A newline follows every event before the next event: each line of the audit
\* file is one JSON object (docs/features/mcp-server.md: "JSONL events").
JsonLines == Glued = {}

\* Every call is answered, also when the audit file cannot be written, unless
\* its server ends or this call itself panics or hangs: no thread that panics,
\* hangs or fails to write keeps the calls of the other threads waiting.
CallsAnswered ==
    \A t \in Tasks :
      pc[t] # "idle" ~> \/ pc[t] \in {"answered", "panicked", "hung"}
                        \/ server[ServerOf[t]] = "down"
=============================================================================
