----------------------------- MODULE ReadingLog -----------------------------
(***************************************************************************)
(* What TemperatureStore promises its callers (src/storage.rs), without    *)
(* SQL, schema or mutex: a log of readings that only grows.                *)
(*                                                                         *)
(* An insertion appends its readings one at a time, so that others may see *)
(* a part of it; it may stop early, and then says so.  A query that        *)
(* succeeds is answered from the log as it is at one instant between call  *)
(* and reply.  A caller may die at any point; what it has written stays.   *)
(***************************************************************************)
EXTENDS SensorTable

CONSTANTS
    Callers,  \* the tasks that use the store
    RowLimit, \* above it an analysis may be refused
    Inserts,  \* the insertions they may ask for
    Lookups   \* the queries they may ask for

VARIABLES
    log,      \* the entries, oldest first
    phase,    \* [Callers -> "idle" | "busy" | "replied"]
    asked,    \* [Callers -> the call]
    written,  \* [Callers -> readings of the call already in the log]
    reply     \* [Callers -> the answer]

logVars == <<log, phase, asked, written, reply>>

Nothing  == [op |-> "none"]
NoReply  == [status |-> "none"]
Entry(r) == [reading |-> r]

LogInit ==
    /\ log = <<>>
    /\ phase = [c \in Callers |-> "idle"]
    /\ asked = [c \in Callers |-> Nothing]
    /\ written = [c \in Callers |-> 0]
    /\ reply = [c \in Callers |-> NoReply]

EmptyWindow(r) == r.op = "analyze" /\ r.from >= r.to

\* A call starts; an empty window is answered without looking at the log.
Begin(c, r) ==
    /\ phase[c] = "idle"
    /\ asked' = [asked EXCEPT ![c] = r]
    /\ written' = [written EXCEPT ![c] = 0]
    /\ IF EmptyWindow(r)
       THEN /\ phase' = [phase EXCEPT ![c] = "replied"]
            /\ reply' = [reply EXCEPT ![c] = [status |-> "InvalidRange"]]
       ELSE /\ phase' = [phase EXCEPT ![c] = "busy"]
            /\ UNCHANGED reply
    /\ UNCHANGED log

\* The next reading of an insertion reaches the log.
Write(c) ==
    /\ phase[c] = "busy"
    /\ asked[c].op = "insert"
    /\ written[c] < Len(asked[c].readings)
    /\ log' = Append(log, Entry(asked[c].readings[written[c] + 1]))
    /\ written' = [written EXCEPT ![c] = @ + 1]
    /\ UNCHANGED <<phase, asked, reply>>

\* The answers a call may get from the log as it is now.
InsertAnswers(c) ==
    IF written[c] = Len(asked[c].readings)
    THEN {[status |-> "Ok", count |-> written[c]]}
    ELSE {[status |-> "Db"]}

AnalyzeAnswers(c) ==
    LET ids == MatchingIds(log, asked[c].sensor, asked[c].from, asked[c].to)
    IN  { [status |-> "Ok", matched |-> ids], [status |-> "Db"] }
        \union { e \in {[status |-> "RowLimitExceeded"]} :
                   Cardinality(ids) > RowLimit }

RecentReplies(c) ==
    { [status |-> "Ok", listed |-> ids] :
        ids \in RecentAnswers(log, asked[c].sensor, asked[c].limit) }
    \union { [status |-> "Db"] }

Answers(c) ==
    CASE asked[c].op = "insert"  -> InsertAnswers(c)
      [] asked[c].op = "analyze" -> AnalyzeAnswers(c)
      [] asked[c].op = "recent"  -> RecentReplies(c)

Reply(c) ==
    /\ phase[c] = "busy"
    /\ \E ans \in Answers(c) : reply' = [reply EXCEPT ![c] = ans]
    /\ phase' = [phase EXCEPT ![c] = "replied"]
    /\ UNCHANGED <<log, asked, written>>

Finish(c) ==
    /\ phase[c] = "replied"
    /\ phase' = [phase EXCEPT ![c] = "idle"]
    /\ asked' = [asked EXCEPT ![c] = Nothing]
    /\ written' = [written EXCEPT ![c] = 0]
    /\ reply' = [reply EXCEPT ![c] = NoReply]
    /\ UNCHANGED log

\* Some callers die in the middle of what they do.
Die(dead) ==
    /\ phase' = [c \in Callers |-> IF c \in dead THEN "idle" ELSE phase[c]]
    /\ asked' = [c \in Callers |-> IF c \in dead THEN Nothing ELSE asked[c]]
    /\ written' = [c \in Callers |-> IF c \in dead THEN 0 ELSE written[c]]
    /\ reply' = [c \in Callers |-> IF c \in dead THEN NoReply ELSE reply[c]]
    /\ UNCHANGED log

LogNext ==
    \/ \E c \in Callers :
         \/ \E r \in Inserts \union Lookups : Begin(c, r)
         \/ Write(c)
         \/ Reply(c)
         \/ Finish(c)
    \/ \E dead \in SUBSET Callers : Die(dead)

LogSpec == LogInit /\ [][LogNext]_logVars
=============================================================================
