------------------------------- MODULE WebApi -------------------------------
(***************************************************************************)
(* The HTTP handlers get_current and get_history (src/web.rs) and the      *)
(* daemon that polls beside them (src/daemon.rs), over the store as        *)
(* ReadingLog describes it; StorageRefinement shows that SqliteStore is    *)
(* such a store.  A handler never awaits, so a request that its client     *)
(* abandons still runs to its end.                                         *)
(*                                                                         *)
(* Operators introduced as a "faulty form" are not part of Next.           *)
(***************************************************************************)
EXTENDS ReadingLog

CONSTANTS
    Web,          \* the web server's request tasks
    Daemons,      \* the polling daemons on the same database: none or one
    RowWindow,    \* rows get_current looks at: 512
    MaxHours,     \* longest window of get_history: 720
    Hours,        \* the values of ?hours= that occur
    Collections,  \* the sets of sensors that a collection may return
    ClockSteady,  \* is the wall clock never set back?
    MaxUptime     \* bound of the model: hours the machine is up

ASSUME CallersAssumption     == Callers = Web \union Daemons /\ Web \intersect Daemons = {}
ASSUME SensorsAssumption     == IsFiniteSet(Sensors)
ASSUME WindowAssumption      == RowWindow \in Nat \ {0}
ASSUME LimitAssumption       == RowLimit \in Nat
ASSUME HoursAssumption       == MaxHours \in Nat \ {0} /\ Hours \subseteq Nat
ASSUME CollectionsAssumption == Collections \subseteq SUBSET Sensors
ASSUME TempsAssumption       == Temps # {}
ASSUME UptimeAssumption      == MaxUptime \in Nat \ {0}

VARIABLES
    now,     \* the wall clock, in hours
    uptime,  \* the monotonic clock by which the daemon polls
    polled,  \* [Daemons -> uptime of the daemon's last poll]
    stage,   \* [Web -> the handler's place in its request]
    answer,  \* [Web -> the response]
    came,    \* history: [Web -> the log's length, time, ?hours= and ?sensor= of the
             \* request]
    shown    \* history: [Web -> newest reading of the last page delivered]

webVars == <<stage, answer, came, shown>>
vars    == <<logVars, now, uptime, polled, webVars>>

Stages == {"idle", "current", "collect", "store", "history", "answered"}

\* What ?sensor= may say.
Filters == Sensors \union {AnySensor}

NotCome        == [entries |-> 0, at |-> 0, hours |-> 0, sensor |-> AnySensor]
NoAnswer       == [code |-> 0]
Page(readings) == [code |-> 200, readings |-> readings]
Table(ids)     == [code |-> 200, covered |-> ids]
Failed(code)   == [code |-> code]

\* What collect returns now: one reading of each sensor that answers.
Collected(on) ==
    LET order == CHOOSE f \in [1..Cardinality(on) -> on] :
                   \A s \in on : \E i \in DOMAIN f : f[i] = s
    IN  [ i \in DOMAIN order |->
            [sensor |-> order[i], temp |-> CHOOSE t \in Temps : TRUE, at |-> now] ]

RangeOf(f) == {f[x] : x \in DOMAIN f}

-----------------------------------------------------------------------------
Init ==
    /\ LogInit
    /\ now = MaxHours
    /\ uptime = 1
    /\ polled = [d \in Daemons |-> 0]
    /\ stage = [w \in Web |-> "idle"]
    /\ answer = [w \in Web |-> NoAnswer]
    /\ came = [w \in Web |-> NotCome]
    /\ shown = [w \in Web |-> 0]

\* An hour passes; the wall clock shows it, unless it is set back meanwhile.
ClockTicks ==
    /\ uptime < MaxUptime
    /\ uptime' = uptime + 1
    /\ \/ now' = now + 1
       \/ ~ClockSteady /\ now' \in MaxHours..now
    /\ UNCHANGED <<logVars, polled, webVars>>

\* The store works on somebody's call.
StoreWorks ==
    /\ \E c \in Callers : Write(c) \/ Reply(c)
    /\ UNCHANGED <<now, uptime, polled, webVars>>

Respond(w, a) ==
    /\ stage' = [stage EXCEPT ![w] = "answered"]
    /\ answer' = [answer EXCEPT ![w] = a]

GoTo(w, s) ==
    /\ stage' = [stage EXCEPT ![w] = s]
    /\ UNCHANGED answer

Arrives(w, h, s) ==
    /\ stage[w] = "idle"
    /\ came' = [came EXCEPT ![w] =
                  [entries |-> Len(log), at |-> now, hours |-> h, sensor |-> s]]
    /\ UNCHANGED shown

-----------------------------------------------------------------------------
\* GET /api/current.
GetCurrent(w) ==
    /\ Arrives(w, 0, AnySensor)
    /\ Begin(w, [op |-> "recent", sensor |-> AnySensor, limit |-> RowWindow])
    /\ GoTo(w, "current")
    /\ UNCHANGED <<now, uptime, polled>>

\* Faulty form of LatestOf: the last reading of a sensor in the listing.
LatestOfLast(ids) ==
    { log[ids[m]].reading :
        m \in { k \in DOMAIN ids : \A n \in DOMAIN ids :
                  log[ids[n]].reading.sensor = log[ids[k]].reading.sensor
                    => n <= k } }

\* latest_sensor_readings: the first reading of each sensor in the listing,
\* which comes newest first.
LatestOf(ids) ==
    { log[ids[m]].reading :
        m \in { k \in DOMAIN ids : \A n \in DOMAIN ids :
                  log[ids[n]].reading.sensor = log[ids[k]].reading.sensor
                    => k <= n } }

\* Faulty form of CurrentRead: a failed query counts as an empty store.
CurrentReadDefaults(w) ==
    /\ stage[w] = "current"
    /\ Finish(w)
    /\ IF reply[w].status = "Db" \/ reply[w].listed = <<>>
       THEN GoTo(w, "collect")
       ELSE Respond(w, Page(LatestOf(reply[w].listed)))
    /\ UNCHANGED <<now, uptime, polled, came, shown>>

\* recent_readings has returned; an empty store is filled from the sensors.
CurrentRead(w) ==
    /\ stage[w] = "current"
    /\ Finish(w)
    /\ CASE reply[w].status = "Db" -> Respond(w, Failed(500))
         [] reply[w].status = "Ok" ->
              LET latest == LatestOf(reply[w].listed)
              IN  IF latest = {} THEN GoTo(w, "collect")
                                 ELSE Respond(w, Page(latest))
    /\ UNCHANGED <<now, uptime, polled, came, shown>>

\* The collector finds sensors, or fails: it never returns an empty list.
Collect(w) ==
    /\ stage[w] = "collect"
    /\ \E on \in Collections \ {{}} :
         Begin(w, [op |-> "insert", readings |-> Collected(on)])
    /\ GoTo(w, "store")
    /\ UNCHANGED <<now, uptime, polled, came, shown>>

CollectFails(w) ==
    /\ stage[w] = "collect"
    /\ Respond(w, Failed(500))
    /\ UNCHANGED <<logVars, now, uptime, polled, came, shown>>

\* Faulty form of CurrentStored: the page does not wait for the insertion's result.
CurrentStoredAnyway(w) ==
    /\ stage[w] = "store"
    /\ Finish(w)
    /\ Respond(w, Page(RangeOf(asked[w].readings)))
    /\ UNCHANGED <<now, uptime, polled, came, shown>>

\* insert_readings has returned: the page shows the readings as collected.
CurrentStored(w) ==
    /\ stage[w] = "store"
    /\ Finish(w)
    /\ Respond(w, IF reply[w].status = "Ok"
                  THEN Page(RangeOf(asked[w].readings))
                  ELSE Failed(500))
    /\ UNCHANGED <<now, uptime, polled, came, shown>>

-----------------------------------------------------------------------------
\* Faulty form of Window: one hour short.
WindowShort(h, s) ==
    [op |-> "analyze", sensor |-> s, from |-> now - h + 1, to |-> now]

\* The window of get_history and its optional sensor.
Window(h, s) == [op |-> "analyze", sensor |-> s, from |-> now - h, to |-> now]

\* GET /api/history?hours=h&sensor=s.
GetHistory(w, h, s) ==
    /\ Arrives(w, h, s)
    /\ IF h \in 1..MaxHours
       THEN /\ Begin(w, Window(h, s))
            /\ GoTo(w, "history")
       ELSE /\ Respond(w, Failed(400))
            /\ UNCHANGED logVars
    /\ UNCHANGED <<now, uptime, polled>>

\* Faulty form of HistoryRead: a refused analysis has a code of its own.
HistoryReadUnprocessable(w) ==
    /\ stage[w] = "history"
    /\ Finish(w)
    /\ Respond(w, CASE reply[w].status = "Ok" -> Table(reply[w].matched)
                    [] reply[w].status = "Db" -> Failed(500)
                    [] OTHER -> Failed(422))
    /\ UNCHANGED <<now, uptime, polled, came, shown>>

\* analyze has returned; map_store_error chooses the code.
HistoryRead(w) ==
    /\ stage[w] = "history"
    /\ Finish(w)
    /\ Respond(w, CASE reply[w].status = "Ok" -> Table(reply[w].matched)
                    [] reply[w].status = "Db" -> Failed(500)
                    [] OTHER -> Failed(400))
    /\ UNCHANGED <<now, uptime, polled, came, shown>>

Newest(readings) == CHOOSE t \in {r.at : r \in readings} :
                      \A r \in readings : r.at <= t

\* The client has the response.
Delivered(w) ==
    /\ stage[w] = "answered"
    /\ stage' = [stage EXCEPT ![w] = "idle"]
    /\ answer' = [answer EXCEPT ![w] = NoAnswer]
    /\ shown' = [shown EXCEPT ![w] = IF "readings" \in DOMAIN answer[w]
                                     THEN Newest(answer[w].readings) ELSE @]
    /\ came' = [came EXCEPT ![w] = NotCome]
    /\ UNCHANGED <<logVars, now, uptime, polled>>

-----------------------------------------------------------------------------
\* The daemon polls, at most once an hour (Daemon.OnePollPerSlot), and stores
\* what it collected; the result of the insertion is only logged.
Poll(d) ==
    /\ polled[d] < uptime
    /\ polled' = [polled EXCEPT ![d] = uptime]
    /\ \E on \in Collections \ {{}} :
         Begin(d, [op |-> "insert", readings |-> Collected(on)])
    /\ UNCHANGED <<now, uptime, webVars>>

Polled(d) ==
    /\ Finish(d)
    /\ UNCHANGED <<now, uptime, polled, webVars>>

\* The web server, or the daemon, dies and is started again.
WebDies ==
    /\ Die(Web)
    /\ stage' = [w \in Web |-> "idle"]
    /\ answer' = [w \in Web |-> NoAnswer]
    /\ came' = [w \in Web |-> NotCome]
    /\ UNCHANGED <<now, uptime, polled, shown>>

DaemonDies(d) ==
    /\ Die({d})
    /\ UNCHANGED <<now, uptime, polled, webVars>>

Next ==
    \/ ClockTicks
    \/ StoreWorks
    \/ WebDies
    \/ \E w \in Web :
         \/ GetCurrent(w)
         \/ CurrentRead(w)
         \/ Collect(w)
         \/ CollectFails(w)
         \/ CurrentStored(w)
         \/ \E h \in Hours, s \in Filters : GetHistory(w, h, s)
         \/ HistoryRead(w)
         \/ Delivered(w)
    \/ \E d \in Daemons : Poll(d) \/ Polled(d) \/ DaemonDies(d)

Spec == Init /\ [][Next]_vars

-----------------------------------------------------------------------------
TypeOK ==
    /\ log \in Seq([reading: Reading])
    /\ phase \in [Callers -> {"idle", "busy", "replied"}]
    /\ now \in MaxHours..(MaxHours + MaxUptime)
    /\ uptime \in 1..MaxUptime
    /\ polled \in [Daemons -> 0..MaxUptime]
    /\ stage \in [Web -> Stages]
    /\ \A w \in Web : answer[w].code \in IF stage[w] = "answered"
                                         THEN {200, 400, 500} ELSE {0}
    /\ came \in [Web -> [entries: Nat, at: Nat, hours: Nat, sensor: Filters]]
    /\ shown \in [Web -> Nat]

CurrentPage(w) == answer[w].code = 200 /\ "readings" \in DOMAIN answer[w]
HistoryPage(w) == answer[w].code = 200 /\ "covered" \in DOMAIN answer[w]

Entries(w) == 1..came[w].entries

\* Every reading a page of get_current shows is in the store, also when the
\* handler collected it itself and others write meanwhile.
PageIsStored ==
    \A w \in Web : CurrentPage(w) =>
      \A r \in answer[w].readings : \E i \in DOMAIN log : log[i].reading = r

\* For every reading that was stored when the request came, the page shows its
\* sensor as it was then or later.  There are two exceptions: the sensor has
\* fallen out of the RowWindow rows that bear the latest times
\* (latest_sensor_readings), or, after the wall clock was set back, the sensor
\* has a row from before with a time no earlier, which the page may prefer
\* (ORDER BY recorded_at DESC).
PageIsCurrent ==
    \A w \in Web : CurrentPage(w) =>
      \A i \in Entries(w) :
        LET stored == log[i].reading
            Rivals == { j \in DOMAIN log : log[j].reading.at >= stored.at }
        IN  \/ \E r \in answer[w].readings :
                 /\ r.sensor = stored.sensor
                 /\ \E j \in Rivals : j >= i /\ log[j].reading = r
            \/ \E j \in Rivals : j < i /\ log[j].reading.sensor = stored.sensor
            \/ Cardinality({ j \in Rivals :
                   log[j].reading.sensor # stored.sensor }) >= RowWindow

\* A history page leaves out no reading of the last hours, of the sensor that was
\* asked for, that was stored when the request came, and covers no other; a window
\* the handler allows is refused only when it holds more rows of that sensor than
\* an analysis may read (get_history).
HistoryComplete ==
    \A w \in Web :
      LET start    == came[w].at - came[w].hours
          window   == { i \in DOMAIN log : /\ Selects(came[w].sensor, log[i].reading)
                                          /\ log[i].reading.at \in start..came[w].at }
      IN  /\ HistoryPage(w) => /\ window \intersect Entries(w) \subseteq answer[w].covered
                               /\ answer[w].covered \subseteq window
          /\ answer[w].code = 400 /\ came[w].hours \in 1..MaxHours
               => Cardinality(window) > RowLimit

\* The web server writes to the store only for a request that came when the
\* store was empty (get_current: "no daemon writes yet"): a failing query or a
\* daemon that starts in between does not make it collect again.
OnlyBootstraps ==
    \A w \in Web : stage[w] \in {"collect", "store"} => came[w].entries = 0

\* A request made after the clock has moved on shows something newer than the
\* page before (README.md: "Refresh: fetches updated data").
RefreshUpdates ==
    \A w \in Web : CurrentPage(w) /\ came[w].at > shown[w] /\ shown[w] > 0
      => \E r \in answer[w].readings : r.at > shown[w]
=============================================================================
