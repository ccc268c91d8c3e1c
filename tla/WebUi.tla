------------------------------- MODULE WebUi -------------------------------
(***************************************************************************)
(* The page's script (INDEX_HTML in src/web.rs) in front of a server whose *)
(* daemon polls on.  loadAll fetches the current readings and the history  *)
(* of the selected window, awaits both responses and both bodies, and      *)
(* renders them in one turn of the event loop.  A click, a new selection   *)
(* and a timer each start a load of their own; nothing cancels the loads   *)
(* already in flight.                                                      *)
(*                                                                         *)
(* Of the server the page sees how far the daemon has come and whether the *)
(* window holds more rows than an analysis may read: WebApi.HistoryComplete *)
(* and WebApi.PageIsCurrent say that its handlers answer so.               *)
(*                                                                         *)
(* Operators introduced as a "faulty form" are not part of Next.           *)
(***************************************************************************)
EXTENDS Naturals

CONSTANTS
    Loads,       \* bound of the model: loads in flight at once
    Windows,     \* the options of the history window
    FirstWindow, \* the option selected when the page opens
    PollsIn,     \* [Windows -> the daemon's polls within the window]
    SensorCount, \* rows that a poll stores
    RowLimit,    \* MAX_ANALYSIS_ROWS
    Awaited,     \* a response that has not arrived
    Outages,     \* may requests fail for other reasons than the row limit?
    MaxPolls,    \* bound of the model: polls of the daemon
    MaxChanges   \* bound of the model: new selections

ASSUME WindowsAssumption == FirstWindow \in Windows /\ PollsIn \in [Windows -> Nat]
ASSUME RowsAssumption    == SensorCount \in Nat /\ RowLimit \in Nat
ASSUME OutagesAssumption == Outages \in BOOLEAN
ASSUME BoundsAssumption  == MaxPolls \in Nat /\ MaxChanges \in Nat

VARIABLES
    polls,    \* how often the daemon has stored a poll
    selected, \* hoursEl.value
    stage,    \* [Loads -> where the load awaits]
    asked,    \* [Loads -> the window the load was started for]
    current,  \* [Loads -> response of /api/current: the newest poll in it]
    table,    \* [Loads -> response of /api/history: "ok" or "refused"]
    live,     \* the load whose readings are on the page
    history,  \* the load whose history is on the page
    status,   \* "loading", "updated" or "failed"
    changes   \* new selections so far

loadVars == <<stage, asked, current, table>>
pageVars == <<live, history, status>>
vars     == <<polls, selected, loadVars, pageVars, changes>>

Seen     == 0..MaxPolls
NoLoad   == [window |-> Awaited, seen |-> 0]
Shown(l) == [window |-> asked[l], seen |-> current[l]]
Flying   == {l \in Loads : stage[l] # "over"}
Answered(l) == current[l] # Awaited /\ table[l] # Awaited

\* Rows in window h: the daemon polls on, so the newest polls fill it.
RowsIn(h) == SensorCount * (IF polls < PollsIn[h] THEN polls ELSE PollsIn[h])
Fits(h)   == RowsIn(h) <= RowLimit

SelectionFits == \E h \in Windows : h = selected /\ Fits(h)

\* The script has started its first load, which `first` stands for.
Init ==
    \E first \in Loads :
      /\ polls = 0
      /\ selected = FirstWindow
      /\ stage = [l \in Loads |-> IF l = first THEN "responses" ELSE "over"]
      /\ asked = [l \in Loads |-> FirstWindow]
      /\ current = [l \in Loads |-> Awaited]
      /\ table = [l \in Loads |-> Awaited]
      /\ live = NoLoad
      /\ history = NoLoad
      /\ status = "loading"
      /\ changes = 0

DaemonPolls ==
    /\ polls < MaxPolls
    /\ polls' = polls + 1
    /\ UNCHANGED <<selected, loadVars, pageVars, changes>>

-----------------------------------------------------------------------------
\* loadAll up to its first await, for window h.
LoadAll(l, h) ==
    /\ stage[l] = "over"
    /\ stage' = [stage EXCEPT ![l] = "responses"]
    /\ asked' = [asked EXCEPT ![l] = h]
    /\ status' = "loading"
    /\ UNCHANGED <<polls, current, table, live, history>>

\* Faulty form of Refresh: the timer keeps the window it was created with.
RefreshFixed(l) ==
    /\ LoadAll(l, FirstWindow)
    /\ UNCHANGED <<selected, changes>>

\* The Refresh button or the timer of 15 seconds.
Refresh(l) ==
    /\ LoadAll(l, selected)
    /\ UNCHANGED <<selected, changes>>

\* The user selects another window.
Select(l, h) ==
    /\ changes < MaxChanges /\ h # selected
    /\ changes' = changes + 1
    /\ selected' = h
    /\ LoadAll(l, h)

\* The server answers the two requests, in either order.
CurrentResponds(l) ==
    /\ stage[l] = "responses" /\ current[l] = Awaited
    /\ current' = [current EXCEPT ![l] = polls]
    /\ UNCHANGED <<polls, selected, stage, asked, table, pageVars, changes>>

HistoryResponds(l) ==
    /\ stage[l] = "responses" /\ table[l] = Awaited
    /\ table' = [table EXCEPT ![l] = IF Fits(asked[l]) THEN "ok" ELSE "refused"]
    /\ UNCHANGED <<polls, selected, stage, asked, current, pageVars, changes>>

\* Promise.all is fulfilled and both responses are ok.
AwaitResponses(l) ==
    /\ stage[l] = "responses" /\ Answered(l) /\ table[l] = "ok"
    /\ stage' = [stage EXCEPT ![l] = "live body"]
    /\ UNCHANGED <<polls, selected, asked, current, table, pageVars, changes>>

\* Faulty form of AwaitLive: the readings are rendered as soon as they are there.
AwaitLiveRenders(l) ==
    /\ stage[l] = "live body"
    /\ stage' = [stage EXCEPT ![l] = "history body"]
    /\ live' = Shown(l)
    /\ UNCHANGED <<polls, selected, asked, current, table, history, status, changes>>

AwaitLive(l) ==
    /\ stage[l] = "live body"
    /\ stage' = [stage EXCEPT ![l] = "history body"]
    /\ UNCHANGED <<polls, selected, asked, current, table, pageVars, changes>>

\* The load is over and its responses are forgotten.
Over(l) ==
    /\ stage' = [stage EXCEPT ![l] = "over"]
    /\ asked' = [asked EXCEPT ![l] = FirstWindow]
    /\ current' = [current EXCEPT ![l] = Awaited]
    /\ table' = [table EXCEPT ![l] = Awaited]
    /\ UNCHANGED <<polls, selected, changes>>

\* The last body is there: renderLive, renderHistory and setStatus in one turn.
Render(l) ==
    /\ stage[l] = "history body"
    /\ live' = Shown(l)
    /\ history' = Shown(l)
    /\ status' = "updated"
    /\ Over(l)

\* Faulty forms of Throws: an error without a message, a call without its catch.
ThrowsBlank(l) ==
    /\ status' = ""
    /\ Over(l)
    /\ UNCHANGED <<live, history>>

ThrowsUncaught(l) ==
    /\ Over(l)
    /\ UNCHANGED pageVars

\* The catch of every call shows the message and leaves the panels alone.
Throws(l) ==
    /\ status' = "failed"
    /\ Over(l)
    /\ UNCHANGED <<live, history>>

\* `!histResp.ok`: the readings that came with it are not rendered either.
HistoryRefused(l) ==
    /\ stage[l] = "responses" /\ Answered(l) /\ table[l] = "refused"
    /\ Throws(l)

\* A fetch is rejected, an answer is a 500 or a body breaks off.
LoadFails(l) ==
    /\ Outages
    /\ stage[l] # "over" /\ ~(stage[l] = "responses" /\ Answered(l))
    /\ Throws(l)

-----------------------------------------------------------------------------
LoadStep(l) ==
    \/ CurrentResponds(l) \/ HistoryResponds(l)
    \/ AwaitResponses(l) \/ HistoryRefused(l)
    \/ AwaitLive(l) \/ Render(l)
    \/ LoadFails(l)

Next ==
    \/ DaemonPolls
    \/ \E l \in Loads :
         \/ Refresh(l)
         \/ \E h \in Windows : Select(l, h)
         \/ LoadStep(l)

Spec == Init /\ [][Next]_vars

\* Every load ends: the browser rejects a fetch that finds no server.  The
\* timer fires for ever.
FairSpec ==
    /\ Spec
    /\ WF_vars(\E l \in Loads : Refresh(l))
    /\ \A l \in Loads : WF_vars(LoadStep(l))

-----------------------------------------------------------------------------
Panels == [window: Windows, seen: Seen] \union {NoLoad}

TypeOK ==
    /\ polls \in Seen
    /\ selected \in Windows
    /\ stage \in [Loads -> {"over", "responses", "live body", "history body"}]
    /\ asked \in [Loads -> Windows]
    /\ current \in [Loads -> Seen \union {Awaited}]
    /\ table \in [Loads -> {"ok", "refused", Awaited}]
    /\ {live, history} \subseteq Panels
    /\ status \in {"loading", "updated", "failed"}
    /\ changes \in 0..MaxChanges

\* The two panels always show one and the same load, whatever other loads end,
\* fail or overtake it (loadAll renders after its last await).
PanelsAgree == live = history

\* The page says "Loading..." only while a load is in flight: every way a load
\* ends changes the status.
LoadingEnds == status = "loading" => Flying # {}

\* When nothing is in flight and the page says it is updated, it shows the
\* selected window (src/web.rs: "No historical data found for selected window.").
SelectionShown ==
    Flying = {} /\ status = "updated" => history.window = selected

\* Once requests fail no more, and unless the selected window holds more rows
\* than an analysis may read, the page comes to show the newest poll and the
\* last selection for good, although a late load of an earlier one may have
\* overwritten them: the timer goes on to start loads for the current selection.
PageCatchesUp ==
    \/ []<><<\E l \in Loads : LoadFails(l)>>_vars
    \/ []<>~SelectionFits
    \/ <>[](history.window = selected /\ live.seen = polls)

\* A load that has fetched current readings leaves a page that is as new, when
\* requests do not fail (README.md: "`Refresh`: fetches updated data").
LoadsRefreshLive ==
    [][ \A l \in Loads :
          stage[l] # "over" /\ stage'[l] = "over" /\ current[l] # Awaited
            => live'.seen >= current[l] ]_vars
=============================================================================
