---------------------------- MODULE DaemonProof ----------------------------
(***************************************************************************)
(* The polling loop keeps its grid, for every interval and however late a  *)
(* tick is taken: the theorem PollsOnGrid.  Its invariant, DaemonInv, says *)
(* where the deadline is once a slot has had its collection: at the next   *)
(* slot's begin, not earlier (a second collection in the slot) and not     *)
(* later.  What the code needs for it is that Skip computes the deadline   *)
(* from the one that was missed.                                           *)
(***************************************************************************)
EXTENDS Daemon, TLAPS

-----------------------------------------------------------------------------
\* Quotient and remainder.
LEMMA DivMod ==
    ASSUME NEW N \in Nat \ {0}, NEW x \in Int
    PROVE  /\ x = N * (x \div N) + (x % N)
           /\ x \div N \in Int
           /\ (x % N) \in 0..(N - 1)
  OBVIOUS

\* A number has one quotient and one remainder.
LEMMA DivModUnique ==
    ASSUME NEW N \in Nat \ {0}, NEW q \in Int, NEW r \in 0..(N - 1),
           NEW p \in Int, NEW s \in 0..(N - 1), N * q + r = N * p + s
    PROVE  r = s
<1>1. N * (q - p) = s - r
  OBVIOUS
<1>2. CASE q > p
  <2>1. N * (q - p) >= N
    BY <1>2
  <2> QED
    BY <1>1, <2>1
<1>3. CASE p > q
  <2>1. N * (p - q) >= N
    BY <1>3
  <2>2. N * (p - q) = r - s
    OBVIOUS
  <2> QED
    BY <2>1, <2>2
<1> QED
  BY <1>2, <1>3

\* How a remainder is found in what follows.
LEMMA Remainder ==
    ASSUME NEW N \in Nat \ {0}, NEW x \in Int,
           NEW q \in Int, NEW r \in 0..(N - 1), x = N * q + r
    PROVE  x % N = r
<1> DEFINE p == x \div N
           s == x % N
<1>1. x = N * p + s /\ p \in Int /\ s \in 0..(N - 1)
  BY DivMod
<1> HIDE DEF p, s
<1> QED
  BY <1>1, DivModUnique DEF s

\* Multiples of N stay multiples when N is taken off.
LEMMA Wraps ==
    ASSUME NEW N \in Nat \ {0}, NEW x \in Int, x % N = 0
    PROVE  (x - N) % N = 0
<1> DEFINE q == x \div N
<1>1. x = N * q + 0 /\ q \in Int
  BY DivMod
<1> HIDE DEF q
<1>2. x - N = N * (q - 1) + 0 /\ q - 1 \in Int /\ x - N \in Int
  BY <1>1
<1> QED
  BY <1>2, Remainder

\* What is missing to a multiple of N is the remainder of the negated number.
LEMMA Opposite ==
    ASSUME NEW N \in Nat \ {0}, NEW g \in 0..(N - 1), NEW d \in Int, (g + d) % N = 0
    PROVE  (-d) % N = g
<1> DEFINE q == (g + d) \div N
<1>1. g + d = N * q + 0 /\ q \in Int
  BY DivMod
<1> HIDE DEF q
<1>2. -d = N * (-q) + g /\ -q \in Int /\ -d \in Int
  BY <1>1
<1> QED
  BY <1>2, Remainder

-----------------------------------------------------------------------------
\* For the interval n, g after the slot began, with p collections in the slot:
\* the deadline, d from now, is where a slot begins, and where the next one
\* begins once this slot has had its collection.
OnGrid(n, g, d, p) ==
    /\ n \in Nat \ {0}
    /\ g \in 0..(n - 1)
    /\ d \in -MaxLate..n
    /\ (g + d) % n = 0
    /\ p = 0 \/ (p = 1 /\ d = n - g)

TimeInv ==
    \/ interval = 0 /\ grid = 0 /\ due = 0 /\ polls = 0
    \/ OnGrid(interval, grid, due, polls)

StateInv ==
    /\ interval \in Intervals
    /\ loop \in {"starting", "failed", "select", "collecting", "storing", "hung",
                "stopped", "killed"}
    /\ handler \in HandlerStates
    /\ sigint \in BOOLEAN
    /\ Sent => sigint
    /\ loop = "stopped" => sigint
    /\ loop \in {"select", "collecting", "storing", "hung"} => interval # 0

DaemonInv == StateInv /\ TimeInv

\* Time passes inside a slot, or into the next one.
LEMMA GridTicks ==
    ASSUME NEW n, NEW g, NEW d, NEW p, OnGrid(n, g, d, p), d > -MaxLate,
           NEW gg, NEW pp, gg = (g + 1) % n, pp = IF gg = 0 THEN 0 ELSE p
    PROVE  OnGrid(n, gg, d - 1, pp)
<1>1. /\ n \in Nat \ {0} /\ g \in 0..(n - 1) /\ d \in -MaxLate..n
      /\ (g + d) % n = 0
      /\ p = 0 \/ (p = 1 /\ d = n - g)
  BY DEF OnGrid
<1>2. MaxLate \in Nat
  BY MaxLateAssumption
<1>3. d - 1 \in -MaxLate..n
  BY <1>1, <1>2
<1>4. CASE g + 1 < n
  <2>1. g + 1 = n * 0 + (g + 1) /\ g + 1 \in 0..(n - 1)
    BY <1>1, <1>4
  <2>2. (g + 1) % n = g + 1
    BY <1>1, <2>1, Remainder
  <2>3. gg = g + 1 /\ gg # 0 /\ pp = p
    BY <1>1, <2>2
  <2>4. gg + (d - 1) = g + d
    BY <1>1, <2>3
  <2>5. (gg + (d - 1)) % n = 0
    BY <1>1, <2>4
  <2>6. p = 1 /\ d = n - g => d - 1 = n - gg
    BY <1>1, <2>3
  <2> QED
    BY <1>1, <1>3, <2>1, <2>3, <2>5, <2>6 DEF OnGrid
<1>5. CASE ~(g + 1 < n)
  <2>1. g + 1 = n * 1 + 0 /\ 0 \in 0..(n - 1)
    BY <1>1, <1>5
  <2>2. (g + 1) % n = 0
    BY <1>1, <2>1, Remainder
  <2>3. gg = 0 /\ pp = 0
    BY <2>2
  <2>4. gg + (d - 1) = (g + d) - n
    BY <1>1, <2>1, <2>3
  <2>5. ((g + d) - n) % n = 0
    <3> DEFINE x == g + d
    <3>1. x \in Int /\ x % n = 0
      BY <1>1, <1>2
    <3> HIDE DEF x
    <3>2. (x - n) % n = 0
      BY <1>1, <3>1, Wraps
    <3> QED
      BY <3>2 DEF x
  <2>6. (gg + (d - 1)) % n = 0
    BY <2>4, <2>5
  <2> QED
    BY <1>1, <1>3, <2>1, <2>3, <2>6 DEF OnGrid
<1> QED
  BY <1>4, <1>5

\* A deadline that was reached lies in a slot without a collection, and Skip
\* sets the next one to the begin of the next slot.
LEMMA GridPolled ==
    ASSUME NEW n, NEW g, NEW d, NEW p, OnGrid(n, g, d, p), d <= 0
    PROVE  p = 0 /\ OnGrid(n, g, n - ((-d) % n), 1)
<1>1. /\ n \in Nat \ {0} /\ g \in 0..(n - 1) /\ d \in -MaxLate..n
      /\ (g + d) % n = 0
      /\ p = 0 \/ (p = 1 /\ d = n - g)
  BY DEF OnGrid
<1>2. MaxLate \in Nat /\ d \in Int
  BY <1>1, MaxLateAssumption
<1>3. (-d) % n = g
  BY <1>1, <1>2, Opposite
<1>4. p = 0
  BY <1>1
<1>5. n - g \in -MaxLate..n
  BY <1>1, <1>2
<1>6. (g + (n - g)) % n = 0
  <2>1. g + (n - g) = n * 1 + 0 /\ 0 \in 0..(n - 1) /\ g + (n - g) \in Int
    BY <1>1
  <2> QED
    BY <1>1, <2>1, Remainder
<1>7. OnGrid(n, g, n - g, 1)
  BY <1>1, <1>5, <1>6 DEF OnGrid
<1> QED
  BY <1>3, <1>4, <1>7

\* DaemonInv holds before the command has read its configuration.
LEMMA InitInv == Init => DaemonInv
<1> SUFFICES ASSUME Init PROVE DaemonInv
  OBVIOUS
<1>1. StateInv
  BY DEF Init, StateInv, HandlerStates, Sent
<1>2. interval \in Nat /\ grid = 0 /\ due = 0 /\ polls = 0
  BY IntervalsAssumption DEF Init
<1>3. CASE interval # 0
  <2>1. 0 % interval = 0
    <3>1. 0 = interval * 0 + 0 /\ 0 \in 0..(interval - 1)
      BY <1>2, <1>3
    <3> QED
      BY <1>2, <1>3, <3>1, Remainder
  <2>2. 0 \in -MaxLate..interval
    BY <1>2, MaxLateAssumption
  <2> QED
    BY <1>1, <1>2, <1>3, <2>1, <2>2 DEF DaemonInv, TimeInv, OnGrid
<1> QED
  BY <1>1, <1>2, <1>3 DEF DaemonInv, TimeInv

\* Every step keeps DaemonInv; only two touch the time.
LEMMA NextInv == DaemonInv /\ [Next]_vars => DaemonInv'
<1> SUFFICES ASSUME DaemonInv, [Next]_vars PROVE DaemonInv'
  OBVIOUS
<1> USE DEF DaemonInv, Sent
<1>1. ASSUME UNCHANGED timeVars, interval' = interval PROVE TimeInv'
  BY <1>1 DEF timeVars, TimeInv, OnGrid
<1>2. CASE Start
  BY <1>1, <1>2 DEF Start, StateInv
<1>3. CASE StartFails
  BY <1>1, <1>3 DEF StartFails, StateInv
<1>4. CASE TimePasses
  <2>1. StateInv'
    BY <1>4 DEF TimePasses, StateInv
  <2>2. interval # 0
    BY <1>4 DEF TimePasses, Started, Running, StateInv
  <2>3. OnGrid(interval, grid, due, polls)
    BY <2>2 DEF TimeInv
  <2>4. /\ due > -MaxLate /\ due' = due - 1 /\ grid' = (grid + 1) % interval
        /\ polls' = IF grid' = 0 THEN 0 ELSE polls
        /\ interval' = interval
    BY <1>4 DEF TimePasses
  <2>5. OnGrid(interval, grid', due - 1, polls')
    BY <2>3, <2>4, GridTicks
  <2>6. OnGrid(interval', grid', due', polls')
    BY <2>4, <2>5
  <2> QED
    BY <2>1, <2>6 DEF TimeInv, OnGrid
<1>5. CASE TickBranch
  <2>1. StateInv'
    BY <1>5 DEF TickBranch, StateInv
  <2>2. interval # 0
    BY <1>5 DEF TickBranch, StateInv
  <2>3. OnGrid(interval, grid, due, polls)
    BY <2>2 DEF TimeInv
  <2>4. /\ due <= 0 /\ due' = interval - ((-due) % interval)
        /\ polls' = polls + 1 /\ interval' = interval /\ grid' = grid
    BY <1>5 DEF TickBranch, NextDue
  <2>5. polls = 0 /\ OnGrid(interval, grid, interval - ((-due) % interval), 1)
    BY <2>3, <2>4, GridPolled
  <2>6. OnGrid(interval', grid', due', polls')
    BY <2>4, <2>5
  <2> QED
    BY <2>1, <2>6 DEF TimeInv, OnGrid
<1>6. CASE CollectEnds
  BY <1>1, <1>6 DEF CollectEnds, CollectReadings, CollectNothing, StateInv
<1>7. CASE CollectHangs
  BY <1>1, <1>7 DEF CollectHangs, StateInv
<1>8. CASE Stored
  BY <1>1, <1>8 DEF Stored, StateInv
<1>9. CASE ShutdownBranch
  BY <1>1, <1>9 DEF ShutdownBranch, StateInv
<1>10. CASE ChangedError
  BY <1>1, <1>10 DEF ChangedError, vars, timeVars, StateInv
<1>11. CASE CtrlCTask
  BY <1>1, <1>11 DEF CtrlCTask, InstallHandler, InstallFails, SendShutdown,
                     DropSender, StateInv, HandlerStates
<1>12. CASE Sigint
  BY <1>1, <1>12 DEF Sigint, StateInv
<1>13. CASE UNCHANGED vars
  BY <1>1, <1>13 DEF vars, timeVars, StateInv
<1> QED
  BY <1>2, <1>3, <1>4, <1>5, <1>6, <1>7, <1>8, <1>9, <1>10, <1>11, <1>12, <1>13
  DEF Next

\* DaemonInv is more than what the runs check.
LEMMA InvImplies ==
    ASSUME DaemonInv
    PROVE  TypeOK /\ OnePollPerSlot /\ NoDrift /\ StopsOnlyOnSigint
<1>1. CASE interval = 0 /\ grid = 0 /\ due = 0 /\ polls = 0
  <2>1. 0 \in -MaxLate..0
    BY MaxLateAssumption
  <2>2. ~Started
    BY <1>1 DEF DaemonInv, StateInv, Started, Running
  <2> QED
    BY <1>1, <2>1, <2>2 DEF DaemonInv, StateInv, TypeOK, OnePollPerSlot, NoDrift,
                            StopsOnlyOnSigint
<1>2. CASE OnGrid(interval, grid, due, polls)
  BY <1>2 DEF OnGrid, DaemonInv, StateInv, TypeOK, OnePollPerSlot, NoDrift,
              StopsOnlyOnSigint
<1> QED
  BY <1>1, <1>2 DEF DaemonInv, TimeInv

-----------------------------------------------------------------------------
\* The state of the daemon has its type, whatever the interval and however late
\* a tick is taken; the deadline is never more than one interval ahead.
THEOREM DaemonTypeOK == Spec => []TypeOK
  BY InitInv, NextInv, InvImplies, PTL DEF Spec

\* At most one collection begins in each slot of the grid that the first tick
\* set, and deadlines stay on that grid: for every interval, and for every time
\* that collecting and storing take (MissedTickBehavior::Skip in src/daemon.rs).
THEOREM PollsOnGrid == Spec => [](OnePollPerSlot /\ NoDrift)
  BY InitInv, NextInv, InvImplies, PTL DEF Spec

\* The loop ends only when a SIGINT has been delivered, also when the Ctrl-C task
\* fails or ends and leaves the channel closed (src/daemon.rs, changed.is_ok()).
THEOREM StopsForSigint == Spec => []StopsOnlyOnSigint
  BY InitInv, NextInv, InvImplies, PTL DEF Spec
=============================================================================
