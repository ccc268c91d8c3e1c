----------------------------- MODULE WebUiProof -----------------------------
(***************************************************************************)
(* Proofs about WebUi, for any number of loads in flight, any windows, any *)
(* row limit and a daemon that polls as often as it likes.                 *)
(***************************************************************************)
EXTENDS WebUi, TLAPS

\* The second await comes after both responses: a load in its body has current
\* readings.
HasReadings(l) == stage[l] \in {"live body", "history body"} => current[l] # Awaited

PageInv ==
    /\ TypeOK
    /\ \A l \in Loads : HasReadings(l)
    /\ PanelsAgree
    /\ LoadingEnds

LEMMA PageInit == Init => PageInv
<1> SUFFICES ASSUME Init PROVE PageInv
  OBVIOUS
<1>1. PICK first \in Loads :
        /\ stage = [l \in Loads |-> IF l = first THEN "responses" ELSE "over"]
        /\ asked = [l \in Loads |-> FirstWindow]
        /\ current = [l \in Loads |-> Awaited]
        /\ table = [l \in Loads |-> Awaited]
  BY DEF Init
<1>2. /\ polls = 0 /\ selected = FirstWindow /\ live = NoLoad /\ history = NoLoad
      /\ status = "loading" /\ changes = 0
  BY DEF Init
<1>3. TypeOK
  BY <1>1, <1>2, WindowsAssumption, BoundsAssumption DEF TypeOK, Seen, Panels
<1>4. \A l \in Loads : HasReadings(l)
  BY <1>1 DEF HasReadings
<1>5. first \in Flying
  BY <1>1 DEF Flying
<1> QED
  BY <1>2, <1>3, <1>4, <1>5 DEF PageInv, PanelsAgree, LoadingEnds

-----------------------------------------------------------------------------
\* Steps that leave the page alone.

LEMMA LoadAllKeeps ==
    ASSUME PageInv, NEW l \in Loads, NEW h \in Windows, LoadAll(l, h),
           selected' \in Windows, changes' \in 0..MaxChanges
    PROVE  PageInv'
<1>1. /\ stage[l] = "over"
      /\ stage' = [stage EXCEPT ![l] = "responses"]
      /\ asked' = [asked EXCEPT ![l] = h]
      /\ status' = "loading"
      /\ UNCHANGED <<polls, current, table, live, history>>
  BY DEF LoadAll
<1>2. TypeOK'
  BY <1>1 DEF PageInv, TypeOK, Seen, Panels, NoLoad
<1>3. \A k \in Loads : HasReadings(k)'
  BY <1>1 DEF PageInv, TypeOK, HasReadings
<1>4. l \in Flying'
  BY <1>1 DEF PageInv, TypeOK, Flying
<1> QED
  BY <1>1, <1>2, <1>3, <1>4 DEF PageInv, PanelsAgree, LoadingEnds

\* A load moves on, the page stays as it is.
LEMMA LoadMoves ==
    ASSUME PageInv, NEW l \in Loads,
           CurrentResponds(l) \/ HistoryResponds(l) \/ AwaitResponses(l) \/ AwaitLive(l)
    PROVE  PageInv'
<1>1. /\ polls' = polls /\ selected' = selected /\ asked' = asked
      /\ live' = live /\ history' = history /\ status' = status /\ changes' = changes
  BY DEF CurrentResponds, HistoryResponds, AwaitResponses, AwaitLive, pageVars
<1>2. /\ stage[l] # "over"
      /\ \/ stage' = stage
         \/ stage' = [stage EXCEPT ![l] = "live body"]
         \/ stage' = [stage EXCEPT ![l] = "history body"]
  BY DEF CurrentResponds, HistoryResponds, AwaitResponses, AwaitLive
<1>3. /\ current' = current \/ current' = [current EXCEPT ![l] = polls]
      /\ \/ table' = table
         \/ table' = [table EXCEPT ![l] = "ok"]
         \/ table' = [table EXCEPT ![l] = "refused"]
  BY DEF CurrentResponds, HistoryResponds, AwaitResponses, AwaitLive
<1>4. TypeOK'
  <2>1. stage' \in [Loads -> {"over", "responses", "live body", "history body"}]
    BY <1>2 DEF PageInv, TypeOK
  <2>2. current' \in [Loads -> Seen \union {Awaited}]
    BY <1>3 DEF PageInv, TypeOK
  <2>3. table' \in [Loads -> {"ok", "refused", Awaited}]
    BY <1>3 DEF PageInv, TypeOK
  <2> QED
    BY <1>1, <2>1, <2>2, <2>3 DEF PageInv, TypeOK, Seen, Panels, NoLoad
<1>5. \A k \in Loads : HasReadings(k)'
  <2> TAKE k \in Loads
  <2>1. HasReadings(k) /\ DOMAIN stage = Loads /\ DOMAIN current = Loads
    BY DEF PageInv, TypeOK
  <2>2. CASE CurrentResponds(l)
    BY <2>1, <2>2 DEF CurrentResponds, HasReadings
  <2>3. CASE HistoryResponds(l)
    BY <2>1, <2>3 DEF HistoryResponds, HasReadings
  <2>4. CASE AwaitResponses(l)
    BY <2>1, <2>4 DEF AwaitResponses, Answered, HasReadings
  <2>5. CASE AwaitLive(l)
    BY <2>1, <2>5 DEF AwaitLive, HasReadings
  <2> QED
    BY <2>2, <2>3, <2>4, <2>5
<1>6. l \in Flying'
  <2>1. stage'[l] # "over"
    BY <1>2 DEF PageInv, TypeOK
  <2> QED
    BY <2>1 DEF Flying
<1> QED
  BY <1>1, <1>4, <1>5, <1>6 DEF PageInv, PanelsAgree, LoadingEnds

-----------------------------------------------------------------------------
\* Steps that end a load.  Each sets the status.

LEMMA OverKeeps ==
    ASSUME PageInv, NEW l \in Loads, Over(l), status' \in {"updated", "failed"},
           live' = history', live' \in Panels
    PROVE  PageInv'
<1>1. /\ stage' = [stage EXCEPT ![l] = "over"]
      /\ asked' = [asked EXCEPT ![l] = FirstWindow]
      /\ current' = [current EXCEPT ![l] = Awaited]
      /\ table' = [table EXCEPT ![l] = Awaited]
      /\ UNCHANGED <<polls, selected, changes>>
  BY DEF Over
<1>2. TypeOK'
  BY <1>1, WindowsAssumption DEF PageInv, TypeOK, Seen, Panels, NoLoad
<1>3. \A k \in Loads : HasReadings(k)'
  BY <1>1 DEF PageInv, TypeOK, HasReadings
<1> QED
  BY <1>2, <1>3 DEF PageInv, PanelsAgree, LoadingEnds

LEMMA RenderKeeps ==
    ASSUME PageInv, NEW l \in Loads, Render(l)
    PROVE  PageInv'
<1>1. current[l] \in Seen /\ asked[l] \in Windows
  BY DEF Render, PageInv, TypeOK, HasReadings
<1>2. Shown(l) \in Panels
  BY <1>1 DEF Shown, Panels
<1>3. Over(l) /\ live' = Shown(l) /\ history' = Shown(l) /\ status' = "updated"
  BY DEF Render
<1> QED
  BY <1>2, <1>3, OverKeeps

LEMMA ThrowsKeeps ==
    ASSUME PageInv, NEW l \in Loads, Throws(l)
    PROVE  PageInv'
<1>1. Over(l) /\ live' = live /\ history' = history /\ status' = "failed"
  BY DEF Throws
<1>2. live = history /\ live \in Panels
  BY DEF PageInv, TypeOK, PanelsAgree
<1> QED
  BY <1>1, <1>2, OverKeeps

-----------------------------------------------------------------------------
LEMMA PageStep == PageInv /\ [Next]_vars => PageInv'
<1> SUFFICES ASSUME PageInv, [Next]_vars PROVE PageInv'
  OBVIOUS
<1>1. CASE DaemonPolls
  <2>1. polls' \in Seen
    <3>1. polls \in 0..MaxPolls /\ MaxPolls \in Nat
      BY BoundsAssumption DEF PageInv, TypeOK, Seen
    <3>2. polls < MaxPolls /\ polls' = polls + 1
      BY <1>1 DEF DaemonPolls
    <3> QED
      BY <3>1, <3>2 DEF Seen
  <2>2. /\ selected' = selected /\ changes' = changes
        /\ stage' = stage /\ asked' = asked /\ current' = current /\ table' = table
        /\ live' = live /\ history' = history /\ status' = status
    BY <1>1 DEF DaemonPolls, loadVars, pageVars
  <2>3. Seen' = Seen /\ Panels' = Panels
    BY DEF Seen, Panels, NoLoad
  <2>4. TypeOK'
    BY <2>1, <2>2, <2>3 DEF PageInv, TypeOK
  <2> QED
    BY <2>2, <2>4 DEF PageInv, HasReadings, PanelsAgree, LoadingEnds, Flying
<1>2. ASSUME NEW l \in Loads, Refresh(l) PROVE PageInv'
  <2>1. selected \in Windows /\ selected' = selected
        /\ changes' \in 0..MaxChanges /\ LoadAll(l, selected)
    BY <1>2 DEF Refresh, PageInv, TypeOK
  <2> QED
    BY <2>1, LoadAllKeeps
<1>3. ASSUME NEW l \in Loads, NEW h \in Windows, Select(l, h) PROVE PageInv'
  <2>1. selected' = h /\ LoadAll(l, h)
    BY <1>3 DEF Select
  <2>2. changes' \in 0..MaxChanges
    <3>1. changes \in 0..MaxChanges /\ MaxChanges \in Nat
      BY BoundsAssumption DEF PageInv, TypeOK
    <3>2. changes < MaxChanges /\ changes' = changes + 1
      BY <1>3 DEF Select
    <3> QED
      BY <3>1, <3>2
  <2> QED
    BY <2>1, <2>2, LoadAllKeeps
<1>4. ASSUME NEW l \in Loads, LoadStep(l) PROVE PageInv'
  BY <1>4, LoadMoves, RenderKeeps, ThrowsKeeps DEF LoadStep, HistoryRefused, LoadFails
<1>5. CASE UNCHANGED vars
  BY <1>5 DEF vars, loadVars, pageVars, PageInv, TypeOK, HasReadings, PanelsAgree,
              LoadingEnds, Flying, Seen, Panels, NoLoad
<1> QED
  BY <1>1, <1>2, <1>3, <1>4, <1>5 DEF Next

\* What is on the page was fetched for one of the windows, and a load renders
\* only what both its responses brought.
THEOREM PageTypeOK == Spec => []TypeOK
<1>1. PageInv => TypeOK
  BY DEF PageInv
<1> QED
  BY PageInit, PageStep, <1>1, PTL DEF Spec

\* Both panels show one and the same load, however many are in flight and in
\* whatever order they end (loadAll in src/web.rs renders after its last await).
THEOREM OneLoadOnPage == Spec => []PanelsAgree
<1>1. PageInv => PanelsAgree
  BY DEF PageInv
<1> QED
  BY PageInit, PageStep, <1>1, PTL DEF Spec

\* "Loading..." is only shown while a load is in flight, for any number of loads:
\* the last of them to end has changed the status.
THEOREM LoadingHasLoad == Spec => []LoadingEnds
<1>1. PageInv => LoadingEnds
  BY DEF PageInv
<1> QED
  BY PageInit, PageStep, <1>1, PTL DEF Spec
=============================================================================
