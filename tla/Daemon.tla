------------------------------- MODULE Daemon -------------------------------
(***************************************************************************)
(* `tempcheck daemon`: its start (src/app.rs, src/config.rs), the polling  *)
(* loop run_daemon (src/daemon.rs) and the Ctrl-C task beside it.          *)
(*                                                                         *)
(* The loop selects between a tokio interval and a watch channel.  Once a  *)
(* tick has been taken, collecting and storing run to their end on the     *)
(* loop's own task: nothing else in the loop happens meanwhile, but time   *)
(* passes and signals arrive.                                              *)
(*                                                                         *)
(* Time is relative, so that the loop may run for ever: grid is the time   *)
(* since the last multiple of the interval after the start, due the time   *)
(* until the next deadline (zero or less: the tick is ready).              *)
(*                                                                         *)
(* Operators introduced as a "faulty form" are not part of Next.           *)
(***************************************************************************)
EXTENDS Integers

CONSTANTS
    Intervals,  \* what --interval-secs may say
    MaxLate     \* bound of the model: how late a tick may be taken

ASSUME IntervalsAssumption == Intervals \subseteq Nat
ASSUME MaxLateAssumption   == MaxLate \in Nat

VARIABLES
    interval, \* --interval-secs
    loop,     \* "starting", "failed" (run returned Err), "select", "collecting",
              \* "storing", "hung", "stopped" or "killed"
    grid,     \* time since the current slot of the grid began
    due,      \* time until the interval's deadline
    polls,    \* history: collections begun in the current slot
    handler,  \* the Ctrl-C task
    sigint    \* has a SIGINT been delivered?

timeVars == <<grid, due, polls>>
vars     == <<interval, loop, timeVars, handler, sigint>>

\* States of the Ctrl-C task: ctrl_c() not polled yet; waiting for the signal;
\* `true` sent; ended, sender dropped; ctrl_c() failed, sender dropped unused.
HandlerStates == {"none", "installed", "sent", "done", "failed"}

Sent   == handler \in {"sent", "done"}
Closed == handler \in {"done", "failed"}

Running == loop \notin {"failed", "stopped", "killed"}
Started == Running /\ loop # "starting"

Init ==
    /\ interval \in Intervals
    /\ loop = "starting"
    /\ grid = 0 /\ due = 0 /\ polls = 0   \* the first tick is due at once
    /\ handler = "none"
    /\ sigint = FALSE

\* Config::from_cli refuses zero, on which time::interval would panic, and
\* SqliteStore::open may fail: both end the command with an error.
StartFails ==
    /\ loop = "starting"
    /\ loop' = "failed"
    /\ UNCHANGED <<interval, timeVars, handler, sigint>>

\* The store is open: the Ctrl-C task is spawned and the loop entered.
Start ==
    /\ loop = "starting" /\ interval # 0
    /\ loop' = "select"
    /\ UNCHANGED <<interval, timeVars, handler, sigint>>

TimePasses ==
    /\ Started
    /\ due > -MaxLate
    /\ due' = due - 1
    /\ grid' = (grid + 1) % interval
    /\ polls' = IF grid' = 0 THEN 0 ELSE polls
    /\ UNCHANGED <<interval, loop, handler, sigint>>

-----------------------------------------------------------------------------
\* Faulty forms of NextDue: MissedTickBehavior::Burst, the default of a tokio
\* interval; MissedTickBehavior::Delay; the lateness added, not taken off.
NextDueBurst(d)  == d + interval
NextDueDelay(d)  == interval
NextDueBehind(d) == interval - d

\* MissedTickBehavior::Skip: the next deadline is the first multiple of the
\* period, counted from the missed one, that lies ahead.
NextDue(d) == interval - ((-d) % interval)

\* Faulty form of TickBranch: `biased;` with the shutdown branch first, which
\* a closed channel wins every time.
TickBranchStarved ==
    /\ loop = "select"
    /\ due <= 0
    /\ ~Closed
    /\ loop' = "collecting"
    /\ due' = NextDue(due)
    /\ polls' = polls + 1
    /\ UNCHANGED <<interval, grid, handler, sigint>>

\* ticker.tick() is ready and select! takes it.
TickBranch ==
    /\ loop = "select"
    /\ due <= 0
    /\ loop' = "collecting"
    /\ due' = NextDue(due)
    /\ polls' = polls + 1
    /\ UNCHANGED <<interval, grid, handler, sigint>>

\* collect() returns readings, which are stored next; or none, or an error,
\* which are logged.
CollectReadings ==
    /\ loop = "collecting"
    /\ loop' = "storing"
    /\ UNCHANGED <<interval, timeVars, handler, sigint>>

CollectNothing ==
    /\ loop = "collecting"
    /\ loop' = "select"
    /\ UNCHANGED <<interval, timeVars, handler, sigint>>

\* Command::output() waits for a child that never ends: there is no timeout.
CollectHangs ==
    /\ loop = "collecting"
    /\ loop' = "hung"
    /\ UNCHANGED <<interval, timeVars, handler, sigint>>

\* insert_readings returns; Ok and Err are both only logged.
Stored ==
    /\ loop = "storing"
    /\ loop' = "select"
    /\ UNCHANGED <<interval, timeVars, handler, sigint>>

\* Faulty form of ShutdownBranch: `biased;` with the tick first.
ShutdownAfterTick ==
    /\ loop = "select"
    /\ Sent /\ due > 0
    /\ loop' = "stopped"
    /\ UNCHANGED <<interval, timeVars, handler, sigint>>

\* shutdown.changed() is Ok: the only value ever sent is true.
ShutdownBranch ==
    /\ loop = "select"
    /\ Sent
    /\ loop' = "stopped"
    /\ UNCHANGED <<interval, timeVars, handler, sigint>>

\* Faulty form of ChangedError: the loop ends when the sender is gone.
ChangedErrorStops ==
    /\ loop = "select"
    /\ Closed /\ ~Sent
    /\ loop' = "stopped"
    /\ UNCHANGED <<interval, timeVars, handler, sigint>>

\* shutdown.changed() is Err, the sender is gone and sent nothing: the branch
\* does nothing and the loop selects again, at once.
ChangedError ==
    /\ loop = "select"
    /\ Closed /\ ~Sent
    /\ UNCHANGED vars

-----------------------------------------------------------------------------
\* The spawned task: ctrl_c() installs its handler when it is first polled.
InstallHandler ==
    /\ Started /\ handler = "none"
    /\ handler' = "installed"
    /\ UNCHANGED <<interval, loop, timeVars, sigint>>

InstallFails ==
    /\ Started /\ handler = "none"
    /\ handler' = "failed"
    /\ UNCHANGED <<interval, loop, timeVars, sigint>>

\* A SIGINT arrives.  Without a handler it ends the process; with one it only
\* wakes the task, and a second SIGINT adds nothing.
Sigint ==
    /\ Running /\ ~sigint
    /\ sigint' = TRUE
    /\ loop' = IF handler \in {"none", "failed"} THEN "killed" ELSE loop
    /\ UNCHANGED <<interval, timeVars, handler>>

SendShutdown ==
    /\ Started /\ handler = "installed" /\ sigint
    /\ handler' = "sent"
    /\ UNCHANGED <<interval, loop, timeVars, sigint>>

DropSender ==
    /\ Started /\ handler = "sent"
    /\ handler' = "done"
    /\ UNCHANGED <<interval, loop, timeVars, sigint>>

-----------------------------------------------------------------------------
CtrlCTask == InstallHandler \/ InstallFails \/ SendShutdown \/ DropSender

CollectEnds == CollectReadings \/ CollectNothing

Next ==
    \/ Start
    \/ StartFails
    \/ TimePasses
    \/ TickBranch
    \/ CollectEnds
    \/ CollectHangs
    \/ Stored
    \/ ShutdownBranch
    \/ ChangedError
    \/ CtrlCTask
    \/ Sigint

Spec == Init /\ [][Next]_vars

\* The runtime runs the loop and the task.  select! polls its branches in a
\* random order, so a branch that is ready again and again is taken in the end.
FairSpec ==
    /\ Spec
    /\ WF_vars(Start \/ StartFails)
    /\ WF_vars(CtrlCTask)
    /\ WF_vars(TickBranch)
    /\ WF_vars(CollectEnds)
    /\ WF_vars(Stored)
    /\ SF_vars(ShutdownBranch)

-----------------------------------------------------------------------------
TypeOK ==
    /\ interval \in Intervals
    /\ loop \in {"starting", "failed", "select", "collecting", "storing", "hung",
                "stopped", "killed"}
    /\ grid \in Nat /\ (grid = 0 \/ grid < interval)
    /\ due \in -MaxLate..interval
    /\ polls \in Nat
    /\ handler \in HandlerStates
    /\ sigint \in BOOLEAN

\* However late ticks are taken and however long collections last, at most one
\* collection begins in each slot of the grid: a backlog of missed ticks is
\* dropped, never worked off (MissedTickBehavior::Skip).
OnePollPerSlot == polls <= 1

\* Deadlines stay on the grid that the first tick set: the poll times do not
\* drift (docs/features/daemon.md: "on a fixed interval").
NoDrift == Started => (grid + due) % interval = 0

\* The loop ends for a SIGINT and for nothing else: a Ctrl-C task that ends
\* without sending does not stop the daemon (src/daemon.rs, changed.is_ok()).
StopsOnlyOnSigint == loop = "stopped" => sigint

\* A SIGINT ends the daemon, also when ticks are always overdue, except when a
\* collection waits for a child that never ends (the branches of select!).
SigintStops == sigint ~> ~Running \/ loop = "hung"

\* The command comes to an end or to its loop, whatever the interval, and in the
\* loop a due tick is taken, also when the channel is closed and always ready.
PollsGoOn ==
    loop = "starting" \/ (loop = "select" /\ due <= 0)
      ~> loop \notin {"starting", "select"}
=============================================================================
