---------------------------- MODULE WebApiProof ----------------------------
(***************************************************************************)
(* Proofs about WebApi, for any number of request tasks, daemons, sensors, *)
(* collections, rows and instants: simultaneous first requests included.   *)
(***************************************************************************)
EXTENDS WebApi, SequenceTheorems, FiniteSetTheorems, WellFoundedInduction, TLAPS

IsSequence(s) == \E S : s \in Seq(S)

Stored(r) == \E i \in DOMAIN log : log[i].reading = r

\* get_current waits for recent_readings: an answer lists rows of the log, and
\* at least one if the log had an entry when the request came.
Listing(w) ==
    /\ asked[w] = [op |-> "recent", sensor |-> AnySensor, limit |-> RowWindow]
    /\ phase[w] = "replied" => reply[w].status \in {"Ok", "Db"}
    /\ phase[w] = "replied" /\ reply[w].status = "Ok" =>
         \E n \in Nat : /\ reply[w].listed \in [1..n -> DOMAIN log]
                        /\ came[w].entries > 0 => n > 0

\* get_current waits for insert_readings: the readings written are stored, all
\* of them when the answer is Ok.
Storing(w) ==
    /\ asked[w].op = "insert"
    /\ IsSequence(asked[w].readings)
    /\ written[w] \in 0..Len(asked[w].readings)
    /\ \A k \in 1..written[w] : Stored(asked[w].readings[k])
    /\ phase[w] = "replied" /\ reply[w].status = "Ok"
         => written[w] = Len(asked[w].readings)

RequestInv(w) ==
    /\ came[w].entries \in 0..Len(log)
    /\ stage[w] \in {"collect", "store"} => came[w].entries = 0
    /\ stage[w] = "current" => Listing(w)
    /\ stage[w] = "store" => Storing(w)
    /\ CurrentPage(w) => \A r \in answer[w].readings : Stored(r)

Functions ==
    /\ DOMAIN phase = Callers
    /\ DOMAIN asked = Callers
    /\ DOMAIN written = Callers
    /\ DOMAIN reply = Callers
    /\ DOMAIN stage = Web
    /\ DOMAIN answer = Web
    /\ DOMAIN came = Web

WebInv ==
    /\ IsSequence(log)
    /\ Functions
    /\ \A w \in Web : RequestInv(w)

-----------------------------------------------------------------------------
LEMMA WebInit == Init => WebInv
<1> SUFFICES ASSUME Init PROVE WebInv
  OBVIOUS
<1>1. log \in Seq({}) /\ Len(log) = 0
  BY DEF Init, LogInit
<1>2. Functions
  BY DEF Init, LogInit, Functions
<1>3. ASSUME NEW w \in Web PROVE RequestInv(w)
  BY <1>1 DEF Init, RequestInv, NotCome, NoAnswer, CurrentPage
<1> QED
  BY <1>1, <1>2, <1>3 DEF WebInv, IsSequence

\* The log only grows.
LogGrows ==
    /\ IsSequence(log')
    /\ Len(log) \in Nat /\ Len(log') \in Nat /\ Len(log) <= Len(log')
    /\ DOMAIN log = 1..Len(log) /\ DOMAIN log' = 1..Len(log')
    /\ \A i \in DOMAIN log : log'[i] = log[i]

LEMMA SequenceShape ==
    ASSUME NEW s, IsSequence(s)
    PROVE  Len(s) \in Nat /\ DOMAIN s = 1..Len(s)
<1> PICK S : s \in Seq(S)
  BY DEF IsSequence
<1> QED
  BY LenProperties

LEMMA AppendGrows ==
    ASSUME IsSequence(log), NEW e, log' = Append(log, e)
    PROVE  LogGrows /\ Len(log') = Len(log) + 1 /\ log'[Len(log')] = e
<1>1. PICK S : log \in Seq(S)
  BY DEF IsSequence
<1>2. log \in Seq(S \union {e})
  BY <1>1
<1>3. /\ log' \in Seq(S \union {e})
      /\ Len(log') = Len(log) + 1
      /\ \A i \in 1..Len(log) : log'[i] = log[i]
      /\ log'[Len(log) + 1] = e
  BY <1>2, AppendProperties
<1>4. Len(log) \in Nat /\ DOMAIN log = 1..Len(log) /\ DOMAIN log' = 1..Len(log')
  BY <1>2, <1>3, LenProperties
<1>5. IsSequence(log')
  BY <1>3 DEF IsSequence
<1> QED
  BY <1>3, <1>4, <1>5 DEF LogGrows

LEMMA SameGrows ==
    ASSUME IsSequence(log), log' = log
    PROVE  LogGrows
  BY SequenceShape DEF LogGrows

\* What was stored stays stored.
LEMMA StoredStays ==
    ASSUME LogGrows, NEW r, Stored(r)
    PROVE  Stored(r)'
<1> PICK i \in DOMAIN log : log[i].reading = r
  BY DEF Stored
<1>1. i \in DOMAIN log' /\ log'[i].reading = r
  BY DEF LogGrows
<1> QED
  BY <1>1 DEF Stored

-----------------------------------------------------------------------------
\* A step that leaves a request alone keeps what is known of it.
LEMMA RequestFrame ==
    ASSUME LogGrows, NEW w \in Web, RequestInv(w),
           stage'[w] = stage[w], answer'[w] = answer[w], came'[w] = came[w],
           phase'[w] = phase[w], asked'[w] = asked[w],
           written'[w] = written[w], reply'[w] = reply[w]
    PROVE  RequestInv(w)'
<1>1. came'[w].entries \in 0..Len(log')
  BY DEF LogGrows, RequestInv
<1>2. ASSUME Listing(w) PROVE Listing(w)'
  <2>1. ASSUME NEW n \in Nat, reply[w].listed \in [1..n -> DOMAIN log]
        PROVE  reply[w].listed \in [1..n -> DOMAIN log']
    <3>1. DOMAIN log \subseteq DOMAIN log'
      BY DEF LogGrows
    <3> QED
      BY <2>1, <3>1
  <2> QED
    BY <1>2, <2>1 DEF Listing
<1>3. ASSUME Storing(w) PROVE Storing(w)'
  <2>1. \A k \in 1..written[w] : Stored(asked[w].readings[k])'
    BY <1>3, StoredStays DEF Storing
  <2> QED
    BY <1>3, <2>1 DEF Storing, Stored
<1>4. CurrentPage(w)' => \A r \in answer'[w].readings : Stored(r)'
  BY StoredStays DEF CurrentPage, RequestInv
<1> QED
  BY <1>1, <1>2, <1>3, <1>4 DEF RequestInv, Stored

-----------------------------------------------------------------------------
\* The operators of the handlers.

LEMMA LatestStored ==
    ASSUME NEW n \in Nat, NEW ids \in [1..n -> DOMAIN log], NEW r \in LatestOf(ids)
    PROVE  Stored(r)
  BY DEF LatestOf, Stored

LEMMA LatestSome ==
    ASSUME NEW n \in Nat, n > 0, NEW ids \in [1..n -> DOMAIN log]
    PROVE  LatestOf(ids) # {}
<1>1. 1 \in DOMAIN ids /\ \A m \in DOMAIN ids : 1 <= m
  OBVIOUS
<1>2. log[ids[1]].reading \in LatestOf(ids)
  BY <1>1 DEF LatestOf
<1> QED
  BY <1>2

\* A collection finds finitely many sensors, in some order.
LEMMA CollectionOrder ==
    ASSUME NEW on \in Collections
    PROVE  LET order == CHOOSE f \in [1..Cardinality(on) -> on] :
                          \A s \in on : \E i \in DOMAIN f : f[i] = s
           IN  /\ Cardinality(on) \in Nat
               /\ order \in [1..Cardinality(on) -> on]
               /\ \A s \in on : \E i \in DOMAIN order : order[i] = s
<1> DEFINE Lists(f) == \A s \in on : \E i \in DOMAIN f : f[i] = s
<1>1. IsFiniteSet(on)
  BY FS_Subset, SensorsAssumption, CollectionsAssumption
<1>2. Cardinality(on) \in Nat /\ ExistsBijection(1..Cardinality(on), on)
  BY <1>1, FS_CardinalityType
<1>3. \E f \in [1..Cardinality(on) -> on] : Lists(f)
  BY <1>2 DEF ExistsBijection, Bijection, Surjection
<1> QED
  BY <1>2, <1>3

LEMMA CollectedSequence ==
    ASSUME NEW on \in Collections
    PROVE  /\ IsSequence(Collected(on))
           /\ on # {} => Len(Collected(on)) > 0
<1> DEFINE order == CHOOSE f \in [1..Cardinality(on) -> on] :
                       \A s \in on : \E i \in DOMAIN f : f[i] = s
           R(s) == [sensor |-> s, temp |-> CHOOSE t \in Temps : TRUE, at |-> now]
<1>1. /\ Cardinality(on) \in Nat
      /\ order \in [1..Cardinality(on) -> on]
      /\ \A s \in on : \E i \in DOMAIN order : order[i] = s
  BY CollectionOrder
<1>2. Collected(on) = [i \in DOMAIN order |-> R(order[i])]
  BY DEF Collected
<1> HIDE DEF order, R
<1>3. Collected(on) \in [1..Cardinality(on) -> {R(s) : s \in on}]
  BY <1>1, <1>2
<1>4. Collected(on) \in Seq({R(s) : s \in on})
  BY <1>1, <1>3, SeqDef
<1>5. Len(Collected(on)) = Cardinality(on)
  BY <1>1, <1>3, <1>4, LenProperties
<1>6. on # {} => Cardinality(on) > 0
  BY <1>1
<1> QED
  BY <1>1, <1>4, <1>5, <1>6 DEF IsSequence

\* recent_readings without a filter answers with rows of the log, and with at
\* least one if there is one.
LEMMA RecentLists ==
    ASSUME IsSequence(log), NEW limit \in Nat, limit > 0,
           NEW ids \in RecentAnswers(log, AnySensor, limit)
    PROVE  \E n \in Nat : /\ ids \in [1..n -> DOMAIN log]
                          /\ Len(log) > 0 => n > 0
<1> DEFINE all == { i \in DOMAIN log : Selects(AnySensor, log[i].reading) }
           size == IF Cardinality(all) <= limit THEN Cardinality(all) ELSE limit
<1>1. Len(log) \in Nat /\ DOMAIN log = 1..Len(log)
  BY SequenceShape
<1>2. all = 1..Len(log)
  BY <1>1 DEF Selects
<1>3. Cardinality(all) \in Nat /\ (Cardinality(all) = 0 => Len(log) = 0)
  <2>1. IsFiniteSet(1..Len(log))
    BY <1>1, FS_Interval
  <2>2. 1..Len(log) = {} => Len(log) = 0
    BY <1>1
  <2> HIDE DEF all
  <2> QED
    BY <1>2, <2>1, <2>2, FS_CardinalityType, FS_EmptySet
<1>4. ids \in [1..size -> all]
  BY DEF RecentAnswers
<1>5. size \in Nat /\ (Len(log) > 0 => size > 0)
  BY <1>1, <1>3
<1> HIDE DEF size, all
<1>6. ids \in [1..size -> DOMAIN log]
  BY <1>1, <1>2, <1>4
<1> QED
  BY <1>5, <1>6

-----------------------------------------------------------------------------
LEMMA WriteKeeps ==
    ASSUME WebInv, NEW w \in Web, NEW c \in Callers, Write(c), UNCHANGED webVars
    PROVE  LogGrows /\ RequestInv(w)'
<1> DEFINE e == Entry(asked[c].readings[written[c] + 1])
<1>1. log' = Append(log, e)
  BY DEF Write
<1>2. LogGrows /\ Len(log') = Len(log) + 1 /\ log'[Len(log')] = e
  BY <1>1, AppendGrows DEF WebInv
<1>3. CASE c # w
  BY <1>2, <1>3, RequestFrame DEF WebInv, Functions, Write, webVars
<1>4. CASE c = w
  <2>1. RequestInv(w) /\ w \in DOMAIN written
    BY CallersAssumption DEF WebInv, Functions
  <2>2. came'[w].entries \in 0..Len(log')
    BY <1>2, <2>1 DEF LogGrows, RequestInv, webVars
  <2>3. ASSUME stage[w] = "store" PROVE Storing(w)'
    <3>1. Storing(w)
      BY <2>1, <2>3 DEF RequestInv
    <3>2. written'[w] = written[w] + 1 /\ written[w] < Len(asked[w].readings)
          /\ asked' = asked /\ phase' = phase /\ reply' = reply /\ phase[w] = "busy"
      BY <1>4, <2>1 DEF Write
    <3>3. Len(asked[w].readings) \in Nat /\ written[w] \in Nat
      <4>1. Len(asked[w].readings) \in Nat
        BY <3>1, SequenceShape DEF Storing
      <4> QED
        BY <3>1, <4>1 DEF Storing
    <3>5. written'[w] \in 0..Len(asked[w].readings)
      BY <3>2, <3>3
    <3>4. ASSUME NEW k \in 1..written'[w] PROVE Stored(asked[w].readings[k])'
      <4>1. CASE k \in 1..written[w]
        BY <1>2, <3>1, <3>2, <4>1, StoredStays DEF Storing
      <4>2. CASE k = written[w] + 1
        <5>1. e.reading = asked[w].readings[k]
          BY <1>4, <4>2 DEF Entry
        <5>2. Len(log') \in DOMAIN log'
          BY <1>2 DEF LogGrows
        <5>3. log'[Len(log')].reading = asked'[w].readings[k]
          BY <1>2, <3>2, <5>1
        <5> HIDE DEF e
        <5> QED
          BY <5>2, <5>3 DEF Stored
      <4> QED
        BY <3>2, <3>3, <4>1, <4>2
    <3> QED
      BY <3>1, <3>2, <3>4, <3>5 DEF Storing, Stored
  <2>4. stage[w] # "current"
    BY <1>4, <2>1 DEF Write, RequestInv, Listing
  <2>5. CurrentPage(w)' => \A r \in answer'[w].readings : Stored(r)'
    BY <1>2, <2>1, StoredStays DEF CurrentPage, RequestInv, webVars
  <2> QED
    BY <1>2, <2>1, <2>2, <2>3, <2>4, <2>5 DEF RequestInv, webVars, Stored
<1> QED
  BY <1>2, <1>3, <1>4

LEMMA ReplyKeeps ==
    ASSUME WebInv, NEW w \in Web, NEW c \in Callers, Reply(c), UNCHANGED webVars
    PROVE  LogGrows /\ RequestInv(w)'
<1>1. LogGrows
  BY SameGrows DEF WebInv, Reply
<1>2. CASE c # w
  BY <1>1, <1>2, RequestFrame DEF WebInv, Functions, Reply, webVars
<1>3. CASE c = w
  <2>1. RequestInv(w) /\ w \in DOMAIN reply /\ w \in DOMAIN phase
    BY CallersAssumption DEF WebInv, Functions
  <2>2. PICK ans \in Answers(w) : reply' = [reply EXCEPT ![w] = ans]
    BY <1>3 DEF Reply
  <2>3. reply'[w] = ans /\ phase'[w] = "replied" /\ log' = log /\ asked' = asked
        /\ written' = written /\ stage' = stage /\ answer' = answer /\ came' = came
    BY <1>3, <2>1, <2>2 DEF Reply, webVars
  <2>4. ASSUME stage[w] = "current" PROVE Listing(w)'
    <3>1. asked[w] = [op |-> "recent", sensor |-> AnySensor, limit |-> RowWindow]
      BY <2>1, <2>4 DEF RequestInv, Listing
    <3>2. ans \in RecentReplies(w)
      BY <3>1 DEF Answers
    <3>3. CASE ans = [status |-> "Db"]
      BY <2>3, <3>1, <3>3 DEF Listing
    <3>4. ASSUME NEW ids \in RecentAnswers(log, AnySensor, RowWindow),
                 ans = [status |-> "Ok", listed |-> ids]
          PROVE  Listing(w)'
      <4>1. PICK n \in Nat : /\ ids \in [1..n -> DOMAIN log]
                             /\ Len(log) > 0 => n > 0
        BY RecentLists, WindowAssumption DEF WebInv
      <4>2. came[w].entries > 0 => n > 0
        BY <1>1, <2>1, <4>1 DEF RequestInv, LogGrows
      <4> QED
        BY <2>3, <3>1, <3>4, <4>1, <4>2 DEF Listing
    <3> QED
      BY <3>1, <3>2, <3>3, <3>4 DEF RecentReplies
  <2>5. ASSUME stage[w] = "store" PROVE Storing(w)'
    <3>1. Storing(w)
      BY <2>1, <2>5 DEF RequestInv
    <3>2. ans \in InsertAnswers(w)
      BY <3>1 DEF Answers, Storing
    <3>3. ans.status = "Ok" => written[w] = Len(asked[w].readings)
      BY <3>2 DEF InsertAnswers
    <3> QED
      BY <2>3, <3>1, <3>3 DEF Storing, Stored
  <2> QED
    BY <1>1, <2>1, <2>3, <2>4, <2>5 DEF RequestInv, CurrentPage, Stored
<1> QED
  BY <1>1, <1>2, <1>3

-----------------------------------------------------------------------------
\* The steps of a request itself.  Each leaves the log alone.

LEMMA GetCurrentKeeps ==
    ASSUME WebInv, NEW w \in Web, GetCurrent(w)
    PROVE  RequestInv(w)'
<1>1. /\ RequestInv(w) /\ IsSequence(log) /\ w \in DOMAIN asked
      /\ w \in DOMAIN phase /\ w \in DOMAIN stage /\ w \in DOMAIN came
  BY CallersAssumption DEF WebInv, Functions
<1>2. /\ asked'[w] = [op |-> "recent", sensor |-> AnySensor, limit |-> RowWindow]
      /\ phase'[w] = "busy" /\ log' = log
      /\ stage'[w] = "current" /\ answer' = answer
      /\ came'[w].entries = Len(log)
  BY <1>1 DEF GetCurrent, Arrives, Begin, EmptyWindow, GoTo
<1>3. Len(log) \in Nat
  BY <1>1, SequenceShape
<1>4. Listing(w)'
  BY <1>2 DEF Listing
<1> QED
  BY <1>1, <1>2, <1>3, <1>4 DEF RequestInv, CurrentPage, Stored

LEMMA CurrentReadKeeps ==
    ASSUME WebInv, NEW w \in Web, CurrentRead(w)
    PROVE  RequestInv(w)'
<1>1. /\ RequestInv(w) /\ w \in DOMAIN stage /\ w \in DOMAIN answer
      /\ IsSequence(log)
  BY DEF WebInv, Functions
<1>2. Listing(w) /\ phase[w] = "replied" /\ log' = log /\ came' = came
  BY <1>1 DEF CurrentRead, Finish, RequestInv
<1>3. CASE reply[w].status = "Db"
  <2>1. stage'[w] = "answered" /\ answer'[w] = Failed(500)
    BY <1>1, <1>3 DEF CurrentRead, Respond
  <2> QED
    BY <1>1, <1>2, <2>1 DEF RequestInv, CurrentPage, Failed
<1>4. CASE reply[w].status = "Ok"
  <2> DEFINE latest == LatestOf(reply[w].listed)
  <2>1. PICK n \in Nat : /\ reply[w].listed \in [1..n -> DOMAIN log]
                         /\ came[w].entries > 0 => n > 0
    BY <1>2, <1>4 DEF Listing
  <2>2. \A r \in latest : Stored(r)
    BY <2>1, LatestStored
  <2>3. IF latest = {} THEN GoTo(w, "collect") ELSE Respond(w, Page(latest))
    BY <1>4 DEF CurrentRead
  <2>4. latest = {} => came[w].entries = 0
    <3>1. came[w].entries \in Nat
      BY <1>1, SequenceShape DEF RequestInv
    <3> QED
      BY <2>1, <3>1, LatestSome
  <2> HIDE DEF latest
  <2>5. CASE latest = {}
    BY <1>1, <1>2, <2>3, <2>4, <2>5 DEF GoTo, RequestInv, CurrentPage, Stored
  <2>6. CASE latest # {}
    <3>1. stage'[w] = "answered" /\ answer'[w] = [code |-> 200, readings |-> latest]
      BY <1>1, <2>3, <2>6 DEF Respond, Page
    <3> QED
      BY <1>1, <1>2, <2>2, <3>1 DEF RequestInv, Stored
  <2> QED
    BY <2>5, <2>6
<1> QED
  BY <1>2, <1>3, <1>4 DEF Listing

LEMMA CollectKeeps ==
    ASSUME WebInv, NEW w \in Web, Collect(w)
    PROVE  RequestInv(w)'
<1>1. /\ RequestInv(w) /\ w \in DOMAIN asked /\ w \in DOMAIN written
      /\ w \in DOMAIN phase /\ w \in DOMAIN stage
  BY CallersAssumption DEF WebInv, Functions
<1>2. PICK on \in Collections :
        Begin(w, [op |-> "insert", readings |-> Collected(on)])
  BY DEF Collect
<1>3. IsSequence(Collected(on))
  BY CollectedSequence
<1>4. /\ asked'[w] = [op |-> "insert", readings |-> Collected(on)]
      /\ phase'[w] = "busy" /\ written'[w] = 0 /\ log' = log
  BY <1>1, <1>2 DEF Begin, EmptyWindow
<1>5. stage[w] = "collect" /\ stage'[w] = "store" /\ answer' = answer /\ came' = came
  BY <1>1 DEF Collect, GoTo
<1>6. Len(Collected(on)) \in Nat
  BY <1>3, SequenceShape
<1>7. Storing(w)'
  BY <1>3, <1>4, <1>6 DEF Storing
<1> QED
  BY <1>1, <1>4, <1>5, <1>7 DEF RequestInv, CurrentPage, Stored

LEMMA CurrentStoredKeeps ==
    ASSUME WebInv, NEW w \in Web, CurrentStored(w)
    PROVE  RequestInv(w)'
<1>1. RequestInv(w) /\ w \in DOMAIN stage /\ w \in DOMAIN answer
  BY DEF WebInv, Functions
<1>2. Storing(w) /\ phase[w] = "replied" /\ log' = log /\ came' = came
  BY <1>1 DEF CurrentStored, Finish, RequestInv
<1>3. stage'[w] = "answered"
      /\ answer'[w] = IF reply[w].status = "Ok"
                      THEN Page(RangeOf(asked[w].readings)) ELSE Failed(500)
  BY <1>1 DEF CurrentStored, Respond
<1>4. CASE reply[w].status = "Ok"
  <2>1. DOMAIN asked[w].readings = 1..written[w]
    BY <1>2, <1>4, SequenceShape DEF Storing
  <2>2. \A r \in RangeOf(asked[w].readings) : Stored(r)
    BY <1>2, <2>1 DEF RangeOf, Storing
  <2> QED
    BY <1>1, <1>2, <1>3, <1>4, <2>2 DEF RequestInv, Page, Stored
<1>5. CASE reply[w].status # "Ok"
  BY <1>1, <1>2, <1>3, <1>5 DEF RequestInv, CurrentPage, Failed
<1> QED
  BY <1>4, <1>5

LEMMA GetHistoryKeeps ==
    ASSUME WebInv, NEW w \in Web, NEW h \in Hours, NEW s \in Filters, GetHistory(w, h, s)
    PROVE  RequestInv(w)'
<1>1. /\ RequestInv(w) /\ IsSequence(log) /\ w \in DOMAIN stage
      /\ w \in DOMAIN answer /\ w \in DOMAIN came
  BY DEF WebInv, Functions
<1>2. log' = log /\ came'[w].entries = Len(log)
  BY <1>1 DEF GetHistory, Arrives, Begin, logVars
<1>3. \/ stage'[w] = "history" /\ answer' = answer
      \/ stage'[w] = "answered" /\ answer'[w] = Failed(400)
  BY <1>1 DEF GetHistory, GoTo, Respond
<1>4. Len(log) \in Nat
  BY <1>1, SequenceShape
<1> QED
  BY <1>1, <1>2, <1>3, <1>4 DEF RequestInv, CurrentPage, Failed, Stored

LEMMA AnsweredKeeps ==
    ASSUME WebInv, NEW w \in Web,
           CollectFails(w) \/ HistoryRead(w) \/ Delivered(w)
    PROVE  RequestInv(w)'
<1>1. /\ RequestInv(w) /\ IsSequence(log) /\ w \in DOMAIN stage
      /\ w \in DOMAIN answer /\ w \in DOMAIN came
  BY DEF WebInv, Functions
<1>2. log' = log /\ Len(log) \in Nat
  BY <1>1, SequenceShape DEF CollectFails, HistoryRead, Delivered, Finish, logVars
<1>3. CASE CollectFails(w)
  <2>1. stage'[w] = "answered" /\ answer'[w] = Failed(500) /\ came' = came
    BY <1>1, <1>3 DEF CollectFails, Respond
  <2> QED
    BY <1>1, <1>2, <2>1 DEF RequestInv, CurrentPage, Failed
<1>4. CASE HistoryRead(w)
  <2>1. stage'[w] = "answered" /\ came' = came
        /\ answer'[w] = CASE reply[w].status = "Ok" -> Table(reply[w].matched)
                          [] reply[w].status = "Db" -> Failed(500)
                          [] OTHER -> Failed(400)
    BY <1>1, <1>4 DEF HistoryRead, Respond
  <2>2. answer'[w] \in {Table(reply[w].matched), Failed(500), Failed(400)}
    BY <2>1
  <2>3. ~CurrentPage(w)'
    BY <2>2 DEF CurrentPage, Table, Failed
  <2> QED
    BY <1>1, <1>2, <2>1, <2>3 DEF RequestInv
<1>5. CASE Delivered(w)
  <2>1. stage'[w] = "idle" /\ answer'[w] = NoAnswer /\ came'[w] = NotCome
    BY <1>1, <1>5 DEF Delivered
  <2> QED
    BY <1>2, <2>1 DEF RequestInv, CurrentPage, NoAnswer, NotCome
<1> QED
  BY <1>3, <1>4, <1>5

-----------------------------------------------------------------------------
RequestStep(w) ==
    \/ GetCurrent(w)
    \/ CurrentRead(w)
    \/ Collect(w)
    \/ CollectFails(w)
    \/ CurrentStored(w)
    \/ \E h \in Hours, s \in Filters : GetHistory(w, h, s)
    \/ HistoryRead(w)
    \/ Delivered(w)

LEMMA RequestKeeps ==
    ASSUME WebInv, NEW w \in Web, RequestStep(w)
    PROVE  RequestInv(w)'
  BY GetCurrentKeeps, CurrentReadKeeps, CollectKeeps, CurrentStoredKeeps,
     GetHistoryKeeps, AnsweredKeeps
     DEF RequestStep

\* The step of one request changes nothing of another.
LEMMA OtherUntouched ==
    ASSUME WebInv, NEW w \in Web, NEW u \in Web, u # w, RequestStep(u)
    PROVE  /\ log' = log /\ phase'[w] = phase[w] /\ asked'[w] = asked[w]
           /\ written'[w] = written[w] /\ reply'[w] = reply[w]
           /\ stage'[w] = stage[w] /\ answer'[w] = answer[w] /\ came'[w] = came[w]
<1>1. /\ RequestInv(w) /\ IsSequence(log) /\ w \in Callers /\ Functions
  BY CallersAssumption DEF WebInv
<1>2. /\ log' = log /\ phase'[w] = phase[w] /\ asked'[w] = asked[w]
      /\ written'[w] = written[w] /\ reply'[w] = reply[w]
  <2>1. ASSUME NEW r, Begin(u, r) PROVE <1>2
    BY <1>1, <2>1 DEF Begin, Functions
  <2>2. ASSUME Finish(u) PROVE <1>2
    BY <1>1, <2>2 DEF Finish, Functions
  <2>3. ASSUME UNCHANGED logVars PROVE <1>2
    BY <2>3 DEF logVars
  <2> QED
    BY <2>1, <2>2, <2>3 DEF RequestStep, GetCurrent, CurrentRead, Collect, CollectFails,
       CurrentStored, GetHistory, HistoryRead, Delivered
<1>3. stage'[w] = stage[w] /\ answer'[w] = answer[w] /\ came'[w] = came[w]
  <2>1. ASSUME NEW s, GoTo(u, s) PROVE stage'[w] = stage[w] /\ answer'[w] = answer[w]
    BY <1>1, <2>1 DEF GoTo, Functions
  <2>2. ASSUME NEW a, Respond(u, a) PROVE stage'[w] = stage[w] /\ answer'[w] = answer[w]
    BY <1>1, <2>2 DEF Respond, Functions
  <2>3. ASSUME NEW h, NEW s, Arrives(u, h, s) PROVE came'[w] = came[w]
    BY <1>1, <2>3 DEF Arrives, Functions
  <2>4. ASSUME Delivered(u) PROVE <1>3
    BY <1>1, <2>4 DEF Delivered, Functions
  <2>5. ASSUME CurrentRead(u) PROVE <1>3
    <3>1. reply[u].status \in {"Ok", "Db"}
      BY <2>5 DEF WebInv, RequestInv, Listing, CurrentRead, Finish
    <3> QED
      BY <2>1, <2>2, <2>5, <3>1 DEF CurrentRead
  <2> QED
    BY <2>1, <2>2, <2>3, <2>4, <2>5 DEF RequestStep, GetCurrent, Collect, CollectFails,
       CurrentStored, GetHistory, HistoryRead
<1> QED
  BY <1>2, <1>3

LEMMA OtherRequest ==
    ASSUME WebInv, NEW w \in Web, NEW u \in Web, u # w, RequestStep(u)
    PROVE  RequestInv(w)'
  BY OtherUntouched, RequestFrame, SameGrows DEF WebInv

LEMMA DaemonUntouched ==
    ASSUME WebInv, NEW w \in Web, NEW d \in Daemons,
           Poll(d) \/ Polled(d) \/ DaemonDies(d)
    PROVE  /\ log' = log /\ phase'[w] = phase[w] /\ asked'[w] = asked[w]
           /\ written'[w] = written[w] /\ reply'[w] = reply[w]
           /\ stage'[w] = stage[w] /\ answer'[w] = answer[w] /\ came'[w] = came[w]
<1>1. /\ RequestInv(w) /\ IsSequence(log) /\ w \in Callers /\ Functions /\ d # w
  BY CallersAssumption DEF WebInv
<1>2. /\ log' = log /\ phase'[w] = phase[w] /\ asked'[w] = asked[w]
      /\ written'[w] = written[w] /\ reply'[w] = reply[w]
  <2>1. ASSUME NEW r, Begin(d, r) PROVE <1>2
    BY <1>1, <2>1 DEF Begin, Functions
  <2>2. ASSUME Finish(d) PROVE <1>2
    BY <1>1, <2>2 DEF Finish, Functions
  <2>3. ASSUME Die({d}) PROVE <1>2
    BY <1>1, <2>3 DEF Die
  <2> QED
    BY <2>1, <2>2, <2>3 DEF Poll, Polled, DaemonDies
<1>3. UNCHANGED webVars
  BY DEF Poll, Polled, DaemonDies
<1> QED
  BY <1>2, <1>3 DEF webVars

LEMMA DaemonKeeps ==
    ASSUME WebInv, NEW w \in Web, NEW d \in Daemons,
           Poll(d) \/ Polled(d) \/ DaemonDies(d)
    PROVE  RequestInv(w)'
  BY DaemonUntouched, RequestFrame, SameGrows DEF WebInv

LEMMA WebDiesKeeps ==
    ASSUME WebInv, NEW w \in Web, WebDies
    PROVE  RequestInv(w)'
<1>1. stage'[w] = "idle" /\ answer'[w] = NoAnswer /\ came'[w] = NotCome /\ log' = log
  BY DEF WebDies, Die
<1>2. Len(log) \in Nat
  BY SequenceShape DEF WebInv
<1> QED
  BY <1>1, <1>2 DEF RequestInv, CurrentPage, NoAnswer, NotCome

\* What a step does to the functions' domains and to the log.
LEMMA ShapeStep ==
    ASSUME WebInv, Next
    PROVE  Functions' /\ IsSequence(log')
<1>1. Functions /\ IsSequence(log)
  BY DEF WebInv
<1> DEFINE LogShape == /\ DOMAIN phase' = Callers /\ DOMAIN asked' = Callers
                       /\ DOMAIN written' = Callers /\ DOMAIN reply' = Callers
                       /\ IsSequence(log')
           WebShape == DOMAIN stage' = Web /\ DOMAIN answer' = Web /\ DOMAIN came' = Web
<1>2. LogShape
  <2>1. ASSUME NEW c, NEW r, Begin(c, r) PROVE LogShape
    BY <1>1, <2>1 DEF Begin, Functions
  <2>2. ASSUME NEW c, Finish(c) PROVE LogShape
    BY <1>1, <2>2 DEF Finish, Functions
  <2>3. ASSUME NEW dead, Die(dead) PROVE LogShape
    BY <1>1, <2>3 DEF Die
  <2>4. ASSUME UNCHANGED logVars PROVE LogShape
    BY <1>1, <2>4 DEF logVars, Functions
  <2>5. ASSUME NEW c, Write(c) PROVE LogShape
    BY <1>1, <2>5, AppendGrows DEF Write, Functions, LogGrows
  <2>6. ASSUME NEW c, Reply(c) PROVE LogShape
    BY <1>1, <2>6 DEF Reply, Functions
  <2> HIDE DEF LogShape
  <2> QED
    BY <2>1, <2>2, <2>3, <2>4, <2>5, <2>6
       DEF Next, ClockTicks, StoreWorks, WebDies, GetCurrent, CurrentRead, Collect,
           CollectFails, CurrentStored, GetHistory, HistoryRead, Delivered, Poll,
           Polled, DaemonDies
<1>3. WebShape
  <2>1. ASSUME NEW w, NEW s, GoTo(w, s) PROVE DOMAIN stage' = Web /\ DOMAIN answer' = Web
    BY <1>1, <2>1 DEF GoTo, Functions
  <2>2. ASSUME NEW w, NEW a, Respond(w, a) PROVE DOMAIN stage' = Web /\ DOMAIN answer' = Web
    BY <1>1, <2>2 DEF Respond, Functions
  <2>3. ASSUME NEW w, NEW h, NEW s, Arrives(w, h, s) PROVE DOMAIN came' = Web
    BY <1>1, <2>3 DEF Arrives, Functions
  <2>4. ASSUME UNCHANGED came PROVE DOMAIN came' = Web
    BY <1>1, <2>4 DEF Functions
  <2>5. ASSUME UNCHANGED webVars PROVE WebShape
    BY <1>1, <2>5 DEF webVars, Functions
  <2>6. ASSUME NEW w \in Web, Delivered(w) PROVE WebShape
    BY <1>1, <2>6 DEF Delivered, Functions
  <2>7. ASSUME WebDies PROVE WebShape
    BY <2>7 DEF WebDies
  <2>8. ASSUME NEW w \in Web, CurrentRead(w) PROVE WebShape
    <3>1. reply[w].status \in {"Ok", "Db"}
      BY <2>8 DEF WebInv, RequestInv, Listing, CurrentRead, Finish
    <3> QED
      BY <2>1, <2>2, <2>4, <2>8, <3>1 DEF CurrentRead
  <2>9. ASSUME NEW w \in Web, RequestStep(w) PROVE WebShape
    BY <2>1, <2>2, <2>3, <2>4, <2>6, <2>8, <2>9
       DEF RequestStep, GetCurrent, Collect, CollectFails, CurrentStored, GetHistory,
           HistoryRead
  <2> HIDE DEF WebShape
  <2> QED
    BY <2>5, <2>7, <2>9
       DEF Next, RequestStep, ClockTicks, StoreWorks, Poll, Polled, DaemonDies
<1> QED
  BY <1>2, <1>3 DEF Functions

LEMMA WebStep == WebInv /\ [Next]_vars => WebInv'
<1> SUFFICES ASSUME WebInv, [Next]_vars PROVE WebInv'
  OBVIOUS
<1>1. CASE Next
  <2>1. ASSUME NEW w \in Web PROVE RequestInv(w)'
    <3>1. CASE ClockTicks
      BY <3>1, RequestFrame, SameGrows DEF WebInv, ClockTicks, logVars, webVars
    <3>2. CASE StoreWorks
      BY <3>2, WriteKeeps, ReplyKeeps DEF StoreWorks
    <3>3. CASE WebDies
      BY <3>3, WebDiesKeeps
    <3>4. ASSUME NEW u \in Web, RequestStep(u) PROVE RequestInv(w)'
      BY <3>4, RequestKeeps, OtherRequest
    <3>5. ASSUME NEW d \in Daemons, Poll(d) \/ Polled(d) \/ DaemonDies(d)
          PROVE  RequestInv(w)'
      BY <3>5, DaemonKeeps
    <3> QED
      BY <1>1, <3>1, <3>2, <3>3, <3>4, <3>5 DEF Next, RequestStep
  <2> QED
    BY <1>1, <2>1, ShapeStep DEF WebInv, IsSequence
<1>2. CASE UNCHANGED vars
  <2>1. ASSUME NEW w \in Web PROVE RequestInv(w)'
    BY <1>2, RequestFrame, SameGrows DEF WebInv, vars, logVars, webVars
  <2>2. Functions'
    BY <1>2 DEF WebInv, Functions, vars, logVars, webVars
  <2> QED
    BY <1>2, <2>1, <2>2 DEF WebInv, IsSequence, vars, logVars
<1> QED
  BY <1>1, <1>2

-----------------------------------------------------------------------------
\* Pages show stored readings only, and the web server collects only for
\* requests that came when the store was empty: for any number of
\* simultaneous requests and daemons (get_current).
THEOREM PagesAndBootstrap == Spec => [](PageIsStored /\ OnlyBootstraps)
<1>1. WebInv => PageIsStored /\ OnlyBootstraps
  BY DEF WebInv, RequestInv, PageIsStored, OnlyBootstraps, Stored
<1> QED
  BY WebInit, WebStep, <1>1, PTL DEF Spec
-----------------------------------------------------------------------------
(***************************************************************************)
(* Pages are current and histories complete.  Besides WebInv this needs    *)
(* what readings are, when they were taken, and what a request knows once  *)
(* its query is answered.                                                  *)
(***************************************************************************)
Taken == [sensor: Sensors, temp: Temps, at: 0..(MaxHours + MaxUptime)]

CallTimed(c) ==
    /\ written[c] \in Nat
    /\ asked[c].op = "insert" =>
         /\ IsSequence(asked[c].readings)
         /\ \A k \in DOMAIN asked[c].readings : asked[c].readings[k] \in Taken

\* The wall clock is never ahead of the hours that have passed.
ClockOK ==
    /\ uptime \in 1..MaxUptime
    /\ now \in MaxHours..(MaxHours + uptime)

Timed ==
    /\ ClockOK
    /\ \A i \in DOMAIN log : log[i] \in [reading: Taken]
    /\ \A c \in Callers : CallTimed(c)

LEMMA ClockNat == ClockOK => now \in 0..(MaxHours + MaxUptime)
  BY HoursAssumption, UptimeAssumption DEF ClockOK

LEMMA TimedTimes ==
    ASSUME Timed
    PROVE  now \in Nat /\ \A i \in DOMAIN log : log[i].reading.at \in Nat
<1>1. now \in Nat
  BY ClockNat DEF Timed
<1>2. \A x \in Taken : x.at \in Nat
  BY DEF Taken
<1> QED
  BY <1>1, <1>2 DEF Timed

Rows(w) ==
    { i \in DOMAIN log :
        /\ Selects(came[w].sensor, log[i].reading)
        /\ log[i].reading.at \in (came[w].at - came[w].hours)..came[w].at }

\* HistoryComplete, of one response.
HistoryTold(w) ==
    /\ HistoryPage(w) => /\ Rows(w) \intersect Entries(w) \subseteq answer[w].covered
                         /\ answer[w].covered \subseteq Rows(w)
    /\ answer[w].code = 400 /\ came[w].hours \in 1..MaxHours
         => Cardinality(Rows(w)) > RowLimit

\* The answer of analyze, for as long as the log only grows.
Analyzed(w) ==
    /\ reply[w].status = "Ok" => /\ Rows(w) \intersect Entries(w) \subseteq reply[w].matched
                                 /\ reply[w].matched \subseteq Rows(w)
    /\ reply[w].status \notin {"Ok", "Db"} => Cardinality(Rows(w)) > RowLimit

\* get_history waits for analyze.
Analyzing(w) ==
    /\ came[w].at \in Nat
    /\ asked[w] = [op |-> "analyze", sensor |-> came[w].sensor,
                   from |-> came[w].at - came[w].hours, to |-> came[w].at]
    /\ phase[w] = "replied" => Analyzed(w)

HistoryInv(w) ==
    /\ stage[w] = "history" => Analyzing(w)
    /\ stage[w] # "answered" => answer[w] = NoAnswer
    /\ HistoryTold(w)

\* PageIsCurrent, of entry i and a page that shows R.
Fresh(i, R) ==
    LET stored == log[i].reading
        Rivals == { j \in DOMAIN log : log[j].reading.at >= stored.at }
    IN  \/ \E r \in R :
             /\ r.sensor = stored.sensor
             /\ \E j \in Rivals : j >= i /\ log[j].reading = r
        \/ \E j \in Rivals : j < i /\ log[j].reading.sensor = stored.sensor
        \/ Cardinality({ j \in Rivals :
               log[j].reading.sensor # stored.sensor }) >= RowWindow

CurrentInv(w) ==
    /\ stage[w] = "current" /\ phase[w] = "replied" /\ reply[w].status = "Ok"
         => \A i \in Entries(w) : Fresh(i, LatestOf(reply[w].listed))
    /\ CurrentPage(w) => \A i \in Entries(w) : Fresh(i, answer[w].readings)

KnowsInv ==
    /\ WebInv
    /\ Timed
    /\ \A w \in Web : HistoryInv(w) /\ CurrentInv(w)

LEMMA KnowsInit == Init => KnowsInv
<1> SUFFICES ASSUME Init PROVE KnowsInv
  OBVIOUS
<1>1. log \in Seq({}) /\ Len(log) = 0 /\ DOMAIN log = {}
  BY DEF Init, LogInit
<1>2. ASSUME NEW w \in Web PROVE HistoryInv(w) /\ CurrentInv(w)
  <2>1. stage[w] = "idle" /\ answer[w] = NoAnswer
    BY DEF Init
  <2> QED
    BY <2>1 DEF HistoryInv, HistoryTold, HistoryPage, CurrentInv, CurrentPage, NoAnswer
<1>3. Timed
  <2>1. ClockOK
    BY HoursAssumption, UptimeAssumption DEF Init, ClockOK
  <2>2. \A c \in Callers : CallTimed(c)
    BY DEF Init, LogInit, CallTimed, Nothing
  <2> QED
    BY <1>1, <2>1, <2>2 DEF Timed
<1> QED
  BY <1>2, <1>3, WebInit DEF KnowsInv

-----------------------------------------------------------------------------
\* Readings bear the time at which they are collected.

LEMMA ClockStep ==
    ASSUME ClockOK, Next
    PROVE  ClockOK'
<1>1. CASE ClockTicks
  <2>1. uptime \in 1..MaxUptime /\ now \in MaxHours..(MaxHours + uptime)
        /\ MaxHours \in Nat /\ MaxUptime \in Nat
    BY HoursAssumption, UptimeAssumption DEF ClockOK
  <2>2. /\ uptime < MaxUptime /\ uptime' = uptime + 1
        /\ now' = now + 1 \/ now' \in MaxHours..now
    BY <1>1 DEF ClockTicks
  <2> QED
    BY <2>1, <2>2 DEF ClockOK
<1>2. CASE ~ClockTicks
  <2>1. now' = now /\ uptime' = uptime
    BY <1>2 DEF Next, StoreWorks, WebDies, GetCurrent, CurrentRead, Collect,
       CollectFails, CurrentStored, GetHistory, HistoryRead, Delivered, Poll,
       Polled, DaemonDies
  <2> QED
    BY <2>1 DEF ClockOK
<1> QED
  BY <1>1, <1>2

LEMMA CollectedTaken ==
    ASSUME ClockOK, NEW on \in Collections, NEW k \in DOMAIN Collected(on)
    PROVE  Collected(on)[k] \in Taken
<1> DEFINE order == CHOOSE f \in [1..Cardinality(on) -> on] :
                       \A s \in on : \E i \in DOMAIN f : f[i] = s
           heat == CHOOSE t \in Temps : TRUE
<1>1. order \in [1..Cardinality(on) -> on]
  BY CollectionOrder
<1>2. Collected(on) = [i \in DOMAIN order |-> [sensor |-> order[i], temp |-> heat, at |-> now]]
  BY DEF Collected
<1>3. heat \in Temps
  BY TempsAssumption
<1> HIDE DEF order, heat
<1>4. order[k] \in Sensors
  BY <1>1, <1>2, CollectionsAssumption
<1> QED
  BY <1>2, <1>3, <1>4, ClockNat DEF Taken

LEMMA BeginTimed ==
    ASSUME WebInv, Timed, NEW c \in Callers, NEW d \in Callers, NEW r, Begin(d, r),
           r.op = "insert" => /\ IsSequence(r.readings)
                              /\ \A k \in DOMAIN r.readings : r.readings[k] \in Taken
    PROVE  CallTimed(c)'
<1>1. CallTimed(c) /\ c \in DOMAIN asked /\ c \in DOMAIN written
  BY DEF Timed, WebInv, Functions
<1>2. CASE c = d
  <2>1. asked'[c] = r /\ written'[c] = 0
    BY <1>1, <1>2 DEF Begin
  <2> QED
    BY <2>1 DEF CallTimed, IsSequence
<1>3. CASE c # d
  <2>1. asked'[c] = asked[c] /\ written'[c] = written[c]
    BY <1>1, <1>3 DEF Begin
  <2> QED
    BY <1>1, <2>1 DEF CallTimed, IsSequence
<1> QED
  BY <1>2, <1>3

LEMMA TimedStep ==
    ASSUME WebInv, Timed, Next
    PROVE  Timed'
<1>1. ClockOK'
  BY ClockStep DEF Timed
<1> DEFINE LogTimed == \A i \in DOMAIN log' : log'[i] \in [reading: Taken]
           CallsTimed == \A c \in Callers : CallTimed(c)'
<1>2. /\ WebInv /\ Functions /\ ClockOK /\ IsSequence(log)
      /\ \A i \in DOMAIN log : log[i] \in [reading: Taken]
      /\ \A c \in Callers : CallTimed(c)
  BY DEF WebInv, Timed
<1>3. ASSUME NEW d \in Callers, NEW on \in Collections,
             Begin(d, [op |-> "insert", readings |-> Collected(on)])
      PROVE  LogTimed /\ CallsTimed
  <2>1. LogTimed
    BY <1>2, <1>3 DEF Begin
  <2>2. \A k \in DOMAIN Collected(on) : Collected(on)[k] \in Taken
    BY <1>2, CollectedTaken
  <2>3. CallsTimed
    BY <1>3, <2>2, CollectedSequence, BeginTimed
  <2> QED
    BY <2>1, <2>3
<1>4. ASSUME NEW d \in Callers, NEW r, Begin(d, r), r.op # "insert"
      PROVE  LogTimed /\ CallsTimed
  <2>1. LogTimed
    BY <1>2, <1>4 DEF Begin
  <2>2. CallsTimed
    BY <1>4, BeginTimed
  <2> QED
    BY <2>1, <2>2
<1>5. ASSUME NEW d \in Callers, Write(d) PROVE LogTimed /\ CallsTimed
  <2> DEFINE e == Entry(asked[d].readings[written[d] + 1])
  <2>1. LogGrows /\ Len(log') = Len(log) + 1 /\ log'[Len(log')] = e
    BY <1>2, <1>5, AppendGrows DEF Write
  <2>2. CallTimed(d) /\ d \in DOMAIN written /\ asked[d].op = "insert"
        /\ written[d] < Len(asked[d].readings)
    BY <1>2, <1>5 DEF Write, Functions
  <2>3. Len(asked[d].readings) \in Nat /\ written[d] \in Nat
        /\ DOMAIN asked[d].readings = 1..Len(asked[d].readings)
    BY <2>2, SequenceShape DEF CallTimed
  <2>4. written[d] + 1 \in DOMAIN asked[d].readings
    BY <2>2, <2>3
  <2>5. e \in [reading: Taken]
    BY <2>2, <2>4 DEF CallTimed, Entry
  <2> HIDE DEF e
  <2>6. LogTimed
    BY <1>2, <2>1, <2>5 DEF LogGrows
  <2>7. ASSUME NEW c \in Callers PROVE CallTimed(c)'
    <3>1. asked' = asked /\ written' = [written EXCEPT ![d] = @ + 1]
      BY <1>5 DEF Write
    <3>2. written'[c] \in Nat
      BY <1>2, <2>3, <3>1 DEF CallTimed, Functions
    <3> QED
      BY <1>2, <3>1, <3>2 DEF CallTimed, IsSequence
  <2> QED
    BY <2>6, <2>7
<1>6. ASSUME NEW d \in Callers, Reply(d) PROVE LogTimed /\ CallsTimed
  BY <1>2, <1>6 DEF Reply, CallTimed, IsSequence
<1>7. ASSUME NEW d \in Callers, Finish(d) PROVE LogTimed /\ CallsTimed
  <2>1. LogTimed
    BY <1>2, <1>7 DEF Finish
  <2>2. ASSUME NEW c \in Callers PROVE CallTimed(c)'
    <3>1. CASE c = d
      <4>1. asked'[c] = Nothing /\ written'[c] = 0
        BY <1>2, <1>7, <3>1 DEF Finish, Functions
      <4> QED
        BY <4>1 DEF CallTimed, Nothing
    <3>2. CASE c # d
      <4>1. asked'[c] = asked[c] /\ written'[c] = written[c]
        BY <1>2, <1>7, <3>2 DEF Finish, Functions
      <4> QED
        BY <1>2, <4>1 DEF CallTimed, IsSequence
    <3> QED
      BY <3>1, <3>2
  <2> QED
    BY <2>1, <2>2
<1>8. ASSUME NEW dead, Die(dead) PROVE LogTimed /\ CallsTimed
  <2>1. LogTimed
    BY <1>2, <1>8 DEF Die
  <2>2. ASSUME NEW c \in Callers PROVE CallTimed(c)'
    <3>1. CASE c \in dead
      <4>1. asked'[c] = Nothing /\ written'[c] = 0
        BY <1>8, <3>1 DEF Die
      <4> QED
        BY <4>1 DEF CallTimed, Nothing
    <3>2. CASE c \notin dead
      <4>1. asked'[c] = asked[c] /\ written'[c] = written[c]
        BY <1>8, <3>2 DEF Die
      <4> QED
        BY <1>2, <4>1 DEF CallTimed, IsSequence
    <3> QED
      BY <3>1, <3>2
  <2> QED
    BY <2>1, <2>2
<1>9. ASSUME UNCHANGED logVars PROVE LogTimed /\ CallsTimed
  BY <1>2, <1>9 DEF logVars, CallTimed, IsSequence
<1> HIDE DEF LogTimed, CallsTimed
<1>10. LogTimed /\ CallsTimed
  <2>1. CASE ClockTicks
    BY <1>9, <2>1 DEF ClockTicks
  <2>2. CASE StoreWorks
    BY <1>5, <1>6, <2>2 DEF StoreWorks
  <2>3. CASE WebDies
    BY <1>8, <2>3 DEF WebDies
  <2>4. ASSUME NEW w \in Web, RequestStep(w) PROVE LogTimed /\ CallsTimed
    <3>1. w \in Callers
      BY CallersAssumption
    <3>2. CASE GetCurrent(w)
      BY <1>4, <3>1, <3>2 DEF GetCurrent
    <3>3. CASE CurrentRead(w) \/ CurrentStored(w) \/ HistoryRead(w)
      BY <1>7, <3>1, <3>3 DEF CurrentRead, CurrentStored, HistoryRead
    <3>4. CASE Collect(w)
      BY <1>3, <3>1, <3>4 DEF Collect
    <3>5. CASE CollectFails(w) \/ Delivered(w)
      BY <1>9, <3>5 DEF CollectFails, Delivered
    <3>6. ASSUME NEW h \in Hours, NEW s \in Filters, GetHistory(w, h, s) PROVE LogTimed /\ CallsTimed
      BY <1>4, <1>9, <3>1, <3>6 DEF GetHistory, Window
    <3> QED
      BY <2>4, <3>2, <3>3, <3>4, <3>5, <3>6 DEF RequestStep
  <2>5. ASSUME NEW d \in Daemons, Poll(d) \/ Polled(d) \/ DaemonDies(d)
        PROVE  LogTimed /\ CallsTimed
    BY <1>3, <1>7, <1>8, <2>5, CallersAssumption DEF Poll, Polled, DaemonDies
  <2> QED
    BY <2>1, <2>2, <2>3, <2>4, <2>5 DEF Next, RequestStep
<1> QED
  BY <1>1, <1>10 DEF Timed, LogTimed, CallsTimed

-----------------------------------------------------------------------------
\* What is known of an answer stays true while the log grows.

LEMMA RowsGrow ==
    ASSUME LogGrows, NEW w \in Web, came'[w] = came[w]
    PROVE  /\ Rows(w) \subseteq Rows(w)'
           /\ Rows(w)' \intersect DOMAIN log \subseteq Rows(w)
           /\ Cardinality(Rows(w)) > RowLimit => Cardinality(Rows(w)') > RowLimit
<1>1. Rows(w) \subseteq Rows(w)'
  BY DEF Rows, LogGrows
<1>2. Rows(w)' \intersect DOMAIN log \subseteq Rows(w)
  BY DEF Rows, LogGrows
<1>3. IsFiniteSet(Rows(w)')
  <2>1. IsFiniteSet(1..Len(log'))
    BY FS_Interval DEF LogGrows
  <2>2. Rows(w)' \subseteq 1..Len(log')
    BY DEF Rows, LogGrows
  <2> QED
    BY <2>1, <2>2, FS_Subset
<1>4. /\ Cardinality(Rows(w)) <= Cardinality(Rows(w)')
      /\ Cardinality(Rows(w)) \in Nat /\ Cardinality(Rows(w)') \in Nat
  BY <1>1, <1>3, FS_Subset, FS_CardinalityType
<1> QED
  BY <1>1, <1>2, <1>4, LimitAssumption

LEMMA ToldFrame ==
    ASSUME LogGrows, NEW w \in Web, came[w].entries \in 0..Len(log),
           came'[w] = came[w], answer'[w] = answer[w], HistoryTold(w)
    PROVE  HistoryTold(w)'
<1>1. Entries(w)' = Entries(w) /\ Entries(w) \subseteq DOMAIN log
  BY DEF Entries, LogGrows
<1>2. ASSUME HistoryPage(w)'
      PROVE  /\ Rows(w)' \intersect Entries(w)' \subseteq answer'[w].covered
             /\ answer'[w].covered \subseteq Rows(w)'
  <2>1. HistoryPage(w)
    BY <1>2 DEF HistoryPage
  <2> QED
    BY <1>1, <2>1, RowsGrow DEF HistoryTold
<1>3. answer'[w].code = 400 /\ came'[w].hours \in 1..MaxHours
        => Cardinality(Rows(w)') > RowLimit
  BY RowsGrow DEF HistoryTold
<1> QED
  BY <1>2, <1>3 DEF HistoryTold

LEMMA AnalyzingFrame ==
    ASSUME LogGrows, NEW w \in Web, came[w].entries \in 0..Len(log),
           came'[w] = came[w], phase'[w] = phase[w], asked'[w] = asked[w],
           reply'[w] = reply[w], Analyzing(w)
    PROVE  Analyzing(w)'
<1>1. Entries(w)' = Entries(w) /\ Entries(w) \subseteq DOMAIN log
  BY DEF Entries, LogGrows
<1>2. Analyzed(w) => Analyzed(w)'
  BY <1>1, RowsGrow DEF Analyzed
<1> QED
  BY <1>2 DEF Analyzing

LEMMA HistoryFrame ==
    ASSUME LogGrows, NEW w \in Web, RequestInv(w), HistoryInv(w),
           stage'[w] = stage[w], answer'[w] = answer[w], came'[w] = came[w],
           phase'[w] = phase[w], asked'[w] = asked[w], reply'[w] = reply[w]
    PROVE  HistoryInv(w)'
<1>1. came[w].entries \in 0..Len(log)
  BY DEF RequestInv
<1> QED
  BY <1>1, ToldFrame, AnalyzingFrame DEF HistoryInv

LEMMA FreshStays ==
    ASSUME LogGrows, NEW i \in DOMAIN log, NEW R, Fresh(i, R)
    PROVE  Fresh(i, R)'
<1> DEFINE stored == log[i].reading
           Rivals == { j \in DOMAIN log : log[j].reading.at >= stored.at }
           Others == { j \in Rivals : log[j].reading.sensor # stored.sensor }
<1>1. log'[i].reading = stored /\ i \in DOMAIN log'
  BY DEF LogGrows
<1>2. Rivals \subseteq Rivals'
  BY <1>1 DEF LogGrows
<1>3. Others \subseteq Others'
  BY <1>1, <1>2 DEF LogGrows
<1>4. CASE \E r \in R : /\ r.sensor = stored.sensor
                        /\ \E j \in Rivals : j >= i /\ log[j].reading = r
  <2>1. PICK r \in R, j \in Rivals :
          r.sensor = stored.sensor /\ j >= i /\ log[j].reading = r
    BY <1>4
  <2>2. j \in Rivals' /\ log'[j].reading = r /\ stored' = stored
    BY <1>1, <1>2, <2>1 DEF LogGrows
  <2> QED
    BY <2>1, <2>2 DEF Fresh
<1>5. CASE \E j \in Rivals : j < i /\ log[j].reading.sensor = stored.sensor
  <2>1. PICK j \in Rivals : j < i /\ log[j].reading.sensor = stored.sensor
    BY <1>5
  <2>2. j \in Rivals' /\ log'[j].reading.sensor = stored.sensor /\ stored' = stored
    BY <1>1, <1>2, <2>1 DEF LogGrows
  <2> QED
    BY <2>1, <2>2 DEF Fresh
<1>6. CASE Cardinality(Others) >= RowWindow
  <2>1. IsFiniteSet(Others')
    <3>1. IsFiniteSet(1..Len(log')) /\ Others' \subseteq 1..Len(log')
      BY FS_Interval DEF LogGrows
    <3> QED
      BY <3>1, FS_Subset
  <2>2. /\ Cardinality(Others) <= Cardinality(Others')
        /\ Cardinality(Others) \in Nat /\ Cardinality(Others') \in Nat
    BY <1>3, <2>1, FS_Subset, FS_CardinalityType
  <2>3. Cardinality(Others') >= RowWindow
    BY <1>6, <2>2, WindowAssumption
  <2> QED
    BY <2>3 DEF Fresh
<1> QED
  BY <1>4, <1>5, <1>6 DEF Fresh

LEMMA CurrentFrame ==
    ASSUME LogGrows, NEW w \in Web, RequestInv(w), CurrentInv(w),
           stage'[w] = stage[w], answer'[w] = answer[w], came'[w] = came[w],
           phase'[w] = phase[w], reply'[w] = reply[w]
    PROVE  CurrentInv(w)'
<1>1. Entries(w)' = Entries(w) /\ Entries(w) \subseteq DOMAIN log
  BY DEF Entries, LogGrows, RequestInv
<1>2. ASSUME stage[w] = "current", phase[w] = "replied", reply[w].status = "Ok"
      PROVE  \A i \in Entries(w) : Fresh(i, LatestOf(reply[w].listed))'
  <2>1. PICK ids : reply[w].listed = ids
    OBVIOUS
  <2> \E n \in Nat : ids \in [1..n -> DOMAIN log]
    BY <1>2, <2>1 DEF RequestInv, Listing
  <2>2. PICK R : R = LatestOf(ids)
    OBVIOUS
  <2>3. LatestOf(reply[w].listed)' = R
    <3>1. LatestOf(ids)' = R
      <4>1. \A k \in DOMAIN ids : log'[ids[k]] = log[ids[k]]
        BY DEF LogGrows
      <4> QED
        BY <2>2, <4>1 DEF LatestOf
    <3> QED
      BY <2>1, <3>1 DEF LatestOf
  <2>4. \A i \in Entries(w) : Fresh(i, R)
    BY <1>2, <2>1, <2>2 DEF CurrentInv
  <2>5. \A i \in Entries(w) : Fresh(i, R)'
    BY <1>1, <2>4, FreshStays
  <2> QED
    BY <2>3, <2>5 DEF Fresh
<1>3. ASSUME CurrentPage(w)'
      PROVE  \A i \in Entries(w) : Fresh(i, answer[w].readings)'
  <2>1. CurrentPage(w)
    BY <1>3 DEF CurrentPage
  <2> QED
    BY <1>1, <2>1, FreshStays DEF CurrentInv
<1>4. ASSUME CurrentPage(w)'
      PROVE  \A i \in Entries(w)' : Fresh(i, answer[w].readings)'
  BY <1>1, <1>3, <1>4
<1> QED
  BY <1>1, <1>2, <1>4 DEF CurrentInv, Fresh

-----------------------------------------------------------------------------
\* What the store answers to get_current.

LEMMA Least ==
    ASSUME NEW S \in SUBSET Nat, S # {}
    PROVE  \E m \in S : \A k \in S : m <= k
<1>1. PICK m \in S : \A k \in S : ~ (<<k, m>> \in OpToRel(<, Nat))
  BY NatLessThanWellFounded, WFMin
<1>2. ASSUME NEW k \in S PROVE ~ (k < m)
  <2>1. <<k, m>> \in Nat \X Nat
    OBVIOUS
  <2> QED
    BY <1>1, <2>1, Zenon DEF OpToRel
<1>3. \A k \in S : m <= k
  BY <1>2
<1> QED
  BY <1>3

\* The rows listed are the newest ones.
NewestRows(ids, size) ==
    /\ ids \in [1..size -> DOMAIN log]
    /\ \A m, n \in 1..size :
         m < n => /\ ids[m] # ids[n]
                  /\ log[ids[m]].reading.at >= log[ids[n]].reading.at
    /\ \A i \in DOMAIN log :
         (\A m \in 1..size : ids[m] # i) =>
           /\ \A m \in 1..size : log[ids[m]].reading.at >= log[i].reading.at
           /\ size = RowWindow

LEMMA RecentNewest ==
    ASSUME IsSequence(log), NEW ids \in RecentAnswers(log, AnySensor, RowWindow)
    PROVE  \E size \in Nat : NewestRows(ids, size)
<1> DEFINE all == { i \in DOMAIN log : Selects(AnySensor, log[i].reading) }
           size == IF Cardinality(all) <= RowWindow THEN Cardinality(all) ELSE RowWindow
<1>1. Len(log) \in Nat /\ DOMAIN log = 1..Len(log)
  BY SequenceShape
<1>2. all = DOMAIN log
  BY DEF Selects
<1>3. IsFiniteSet(DOMAIN log) /\ Cardinality(DOMAIN log) \in Nat
  BY <1>1, FS_Interval, FS_CardinalityType
<1>4. /\ ids \in [1..size -> all]
      /\ \A m, n \in 1..size :
           m < n => /\ ids[m] # ids[n]
                    /\ log[ids[m]].reading.at >= log[ids[n]].reading.at
      /\ \A i \in all : (\A m \in 1..size : ids[m] # i)
           => \A m \in 1..size : log[ids[m]].reading.at >= log[i].reading.at
  BY DEF RecentAnswers
<1>5. size \in Nat /\ (size = Cardinality(DOMAIN log) \/ size = RowWindow)
  BY <1>2, <1>3, WindowAssumption
<1> HIDE DEF size, all
<1>6. ASSUME NEW i \in DOMAIN log, \A m \in 1..size : ids[m] # i, size # RowWindow
      PROVE  FALSE
  <2>1. size = Cardinality(DOMAIN log)
    BY <1>5, <1>6
  <2>2. ids \in Injection(1..size, DOMAIN log)
    <3>1. ASSUME NEW m \in 1..size, NEW n \in 1..size, ids[m] = ids[n] PROVE m = n
      BY <1>4, <1>5, <3>1
    <3> QED
      BY <1>2, <1>4, <3>1 DEF Injection, IsInjective
  <2>3. Cardinality(1..size) = size
    BY <1>5, FS_Interval
  <2>4. ids \in Surjection(1..size, DOMAIN log)
    BY <1>3, <2>1, <2>2, <2>3, FS_Injection
  <2> QED
    BY <1>6, <2>4 DEF Surjection
<1>7. NewestRows(ids, size)
  BY <1>2, <1>4, <1>6 DEF NewestRows
<1> QED
  BY <1>5, <1>7

LEMMA RecentFresh ==
    ASSUME IsSequence(log), \A i \in DOMAIN log : log[i].reading.at \in Nat,
           NEW ids \in RecentAnswers(log, AnySensor, RowWindow),
           NEW i \in DOMAIN log
    PROVE  Fresh(i, LatestOf(ids))
<1>1. PICK size \in Nat : NewestRows(ids, size)
  BY RecentNewest
<1>2. Len(log) \in Nat /\ DOMAIN log = 1..Len(log)
  BY SequenceShape
<1> DEFINE at(j) == log[j].reading.at
           sensor(j) == log[j].reading.sensor
           Rivals == { j \in DOMAIN log : at(j) >= at(i) }
           Others == { j \in Rivals : sensor(j) # sensor(i) }
           Own == { m \in 1..size : sensor(ids[m]) = sensor(i) }
<1>3. ids \in [1..size -> DOMAIN log]
  BY <1>1 DEF NewestRows
<1>4. CASE Own # {}
  <2>1. PICK m \in Own : \A k \in Own : m <= k
    <3>1. Own \in SUBSET Nat
      OBVIOUS
    <3> HIDE DEF Own
    <3> QED
      BY <1>4, <3>1, Least
  <2>2. m \in 1..size /\ ids[m] \in DOMAIN log /\ sensor(ids[m]) = sensor(i)
    BY <1>3, <2>1
  <2>3. log[ids[m]].reading \in LatestOf(ids)
    BY <1>3, <2>1, <2>2 DEF LatestOf
  <2>4. at(ids[m]) >= at(i)
    <3>1. CASE \E p \in 1..size : ids[p] = i
      <4>1. PICK p \in 1..size : ids[p] = i
        BY <3>1
      <4>2. p \in Own /\ m <= p
        BY <2>1, <4>1
      <4>3. CASE m = p
        BY <4>1, <4>3
      <4>4. CASE m < p
        BY <1>1, <2>2, <4>1, <4>4 DEF NewestRows
      <4> QED
        BY <2>2, <4>2, <4>3, <4>4
    <3>2. CASE \A p \in 1..size : ids[p] # i
      BY <1>1, <2>2, <3>2 DEF NewestRows
    <3> QED
      BY <3>1, <3>2
  <2>5. CASE ids[m] >= i
    BY <2>2, <2>3, <2>4, <2>5 DEF Fresh
  <2>6. CASE ids[m] < i
    BY <2>2, <2>4, <2>6 DEF Fresh
  <2> QED
    BY <1>2, <2>2, <2>5, <2>6
<1>5. CASE Own = {}
  <2>1. \A m \in 1..size : ids[m] # i
    BY <1>5
  <2>2. size = RowWindow /\ \A m \in 1..size : at(ids[m]) >= at(i)
    BY <1>1, <2>1 DEF NewestRows
  <2>3. ids \in Injection(1..size, Others)
    <3>1. ASSUME NEW m \in 1..size, NEW n \in 1..size, ids[m] = ids[n] PROVE m = n
      BY <1>1, <3>1 DEF NewestRows
    <3>2. \A m \in 1..size : ids[m] \in Others
      BY <1>3, <1>5, <2>2
    <3> HIDE DEF Others
    <3> QED
      BY <1>3, <3>1, <3>2 DEF Injection, IsInjective
  <2>4. IsFiniteSet(Others)
    <3>1. IsFiniteSet(1..Len(log)) /\ Others \subseteq 1..Len(log)
      BY <1>2, FS_Interval
    <3> QED
      BY <3>1, FS_Subset
  <2>5. Cardinality(1..size) = size
    BY FS_Interval
  <2>6. Cardinality(Others) >= RowWindow
    <3>1. Cardinality(1..size) <= Cardinality(Others) /\ Cardinality(Others) \in Nat
      BY <2>3, <2>4, FS_Injection, FS_CardinalityType
    <3> QED
      BY <2>2, <2>5, <3>1
  <2> QED
    BY <2>6 DEF Fresh
<1> QED
  BY <1>4, <1>5

-----------------------------------------------------------------------------
\* The steps.

LEMMA WriteKnows ==
    ASSUME KnowsInv, NEW w \in Web, NEW c \in Callers, Write(c), UNCHANGED webVars
    PROVE  HistoryInv(w)' /\ CurrentInv(w)'
<1>1. /\ WebInv /\ RequestInv(w) /\ HistoryInv(w) /\ CurrentInv(w)
      /\ w \in DOMAIN phase /\ w \in DOMAIN asked /\ w \in DOMAIN reply
  BY CallersAssumption DEF KnowsInv, WebInv, Functions
<1>2. LogGrows
  BY AppendGrows DEF Write, KnowsInv, WebInv
<1>3. /\ phase' = phase /\ asked' = asked /\ reply' = reply
      /\ stage' = stage /\ answer' = answer /\ came' = came
  BY DEF Write, webVars
<1> QED
  BY <1>1, <1>2, <1>3, HistoryFrame, CurrentFrame

LEMMA ReplyKnows ==
    ASSUME KnowsInv, NEW w \in Web, NEW c \in Callers, Reply(c), UNCHANGED webVars
    PROVE  HistoryInv(w)' /\ CurrentInv(w)'
<1>1. /\ WebInv /\ Timed /\ RequestInv(w) /\ HistoryInv(w) /\ CurrentInv(w)
      /\ IsSequence(log) /\ w \in DOMAIN phase /\ w \in DOMAIN reply
  BY CallersAssumption DEF KnowsInv, WebInv, Functions
<1>2. LogGrows
  BY <1>1, SameGrows DEF Reply
<1>3. log' = log /\ asked' = asked /\ stage' = stage /\ answer' = answer /\ came' = came
  BY DEF Reply, webVars
<1>4. CASE c # w
  <2>1. phase'[w] = phase[w] /\ reply'[w] = reply[w]
    BY <1>1, <1>4 DEF Reply
  <2> QED
    BY <1>1, <1>2, <1>3, <2>1, HistoryFrame, CurrentFrame
<1>5. CASE c = w
  <2>1. PICK ans \in Answers(w) : reply' = [reply EXCEPT ![w] = ans]
    BY <1>5 DEF Reply
  <2>2. reply'[w] = ans /\ phase[w] = "busy"
    BY <1>1, <1>5, <2>1 DEF Reply
  <2>3. ASSUME stage[w] = "history" PROVE Analyzing(w)'
    <3>1. Analyzing(w)
      BY <1>1, <2>3 DEF HistoryInv
    <3>2. ans \in AnalyzeAnswers(w)
      BY <3>1 DEF Answers, Analyzing
    <3> DEFINE found == MatchingIds(log, asked[w].sensor, asked[w].from, asked[w].to)
    <3>3. found = Rows(w)
      BY <1>1, <3>1, TimedTimes DEF Analyzing, MatchingIds, Selects, Rows, RequestInv
    <3>4. \/ ans = [status |-> "Ok", matched |-> Rows(w)]
          \/ ans = [status |-> "Db"]
          \/ ans = [status |-> "RowLimitExceeded"] /\ Cardinality(Rows(w)) > RowLimit
      BY <3>2, <3>3 DEF AnalyzeAnswers
    <3>5. Rows(w)' = Rows(w) /\ Entries(w)' = Entries(w)
      BY <1>3 DEF Rows, Entries
    <3>6. Analyzed(w)'
      BY <2>2, <3>4, <3>5 DEF Analyzed
    <3> QED
      BY <1>3, <3>1, <3>6 DEF Analyzing
  <2>4. HistoryInv(w)'
    BY <1>1, <1>2, <1>3, <2>3, ToldFrame DEF HistoryInv, RequestInv
  <2>5. ASSUME stage[w] = "current", ans.status = "Ok", NEW i \in Entries(w)
        PROVE  Fresh(i, LatestOf(reply[w].listed))'
    <3>1. asked[w] = [op |-> "recent", sensor |-> AnySensor, limit |-> RowWindow]
      BY <1>1, <2>5 DEF RequestInv, Listing
    <3>2. ans \in RecentReplies(w)
      BY <3>1 DEF Answers
    <3>3. PICK ids \in RecentAnswers(log, AnySensor, RowWindow) :
            ans = [status |-> "Ok", listed |-> ids]
      BY <2>5, <3>1, <3>2 DEF RecentReplies
    <3>4. i \in DOMAIN log
      BY <1>1, <1>2 DEF RequestInv, Entries, LogGrows
    <3>5. PICK R : R = LatestOf(ids)
      OBVIOUS
    <3>6. Fresh(i, R)'
      BY <1>1, <1>2, <3>4, <3>5, TimedTimes, RecentFresh, FreshStays
    <3>7. LatestOf(reply[w].listed)' = R
      BY <1>3, <2>2, <3>3, <3>5 DEF LatestOf
    <3> QED
      BY <3>6, <3>7 DEF Fresh
  <2>6. CurrentPage(w)' =>
          \A i \in Entries(w)' : Fresh(i, answer[w].readings)'
    BY <1>1, <1>3 DEF CurrentInv, CurrentPage, Entries, Fresh
  <2>7. CurrentInv(w)'
    BY <1>3, <2>2, <2>5, <2>6 DEF CurrentInv, Entries, Fresh
  <2> QED
    BY <2>4, <2>7
<1> QED
  BY <1>4, <1>5

LEMMA GetHistoryKnows ==
    ASSUME KnowsInv, NEW w \in Web, NEW h \in Hours, NEW s \in Filters, GetHistory(w, h, s)
    PROVE  HistoryInv(w)' /\ CurrentInv(w)'
<1>1. /\ HistoryInv(w) /\ now \in Nat /\ stage[w] = "idle" /\ answer[w] = NoAnswer
      /\ w \in DOMAIN stage /\ w \in DOMAIN answer /\ w \in DOMAIN came
      /\ w \in DOMAIN phase /\ w \in DOMAIN asked
  BY CallersAssumption, TimedTimes DEF KnowsInv, WebInv, Functions, GetHistory, Arrives, HistoryInv
<1>2. came'[w].at = now /\ came'[w].hours = h /\ came'[w].sensor = s
  BY <1>1 DEF GetHistory, Arrives
<1>3. CASE h \in 1..MaxHours
  <2>1. ~EmptyWindow(Window(h, s))
    BY <1>1, <1>3, HoursAssumption DEF EmptyWindow, Window
  <2>2. asked'[w] = Window(h, s) /\ phase'[w] = "busy"
    BY <1>1, <1>3, <2>1 DEF GetHistory, Begin
  <2>3. stage'[w] = "history" /\ answer'[w] = NoAnswer
    BY <1>1, <1>3 DEF GetHistory, GoTo
  <2>4. Analyzing(w)'
    BY <1>1, <1>2, <2>2 DEF Analyzing, Window
  <2>5. HistoryTold(w)' /\ CurrentInv(w)'
    BY <2>3 DEF HistoryTold, HistoryPage, CurrentInv, CurrentPage, NoAnswer
  <2> QED
    BY <2>3, <2>4, <2>5 DEF HistoryInv
<1>4. CASE h \notin 1..MaxHours
  <2>1. stage'[w] = "answered" /\ answer'[w] = Failed(400)
    BY <1>1, <1>4 DEF GetHistory, Respond
  <2>2. HistoryTold(w)' /\ CurrentInv(w)'
    BY <1>2, <1>4, <2>1
       DEF HistoryTold, HistoryPage, CurrentInv, CurrentPage, Failed
  <2> QED
    BY <2>1, <2>2 DEF HistoryInv
<1> QED
  BY <1>3, <1>4

LEMMA HistoryReadKnows ==
    ASSUME KnowsInv, NEW w \in Web, HistoryRead(w)
    PROVE  HistoryInv(w)' /\ CurrentInv(w)'
<1>1. /\ HistoryInv(w) /\ stage[w] = "history" /\ phase[w] = "replied"
      /\ w \in DOMAIN stage /\ w \in DOMAIN answer
  BY DEF KnowsInv, WebInv, Functions, HistoryRead, Finish
<1>2. Analyzed(w)
  BY <1>1 DEF HistoryInv, Analyzing
<1>3. log' = log /\ came' = came /\ stage'[w] = "answered"
      /\ answer'[w] = CASE reply[w].status = "Ok" -> Table(reply[w].matched)
                        [] reply[w].status = "Db" -> Failed(500)
                        [] OTHER -> Failed(400)
  BY <1>1 DEF HistoryRead, Finish, Respond
<1>4. Rows(w)' = Rows(w) /\ Entries(w)' = Entries(w)
  BY <1>3 DEF Rows, Entries
<1>5. CASE reply[w].status = "Ok"
  <2>1. answer'[w] = Table(reply[w].matched)
    BY <1>3, <1>5
  <2> QED
    BY <1>2, <1>3, <1>4, <1>5, <2>1
       DEF Analyzed, HistoryInv, HistoryTold, HistoryPage, CurrentInv, CurrentPage, Table
<1>6. CASE reply[w].status = "Db"
  <2>1. answer'[w] = Failed(500)
    BY <1>3, <1>6
  <2> QED
    BY <1>3, <2>1
       DEF HistoryInv, HistoryTold, HistoryPage, CurrentInv, CurrentPage, Failed
<1>7. CASE reply[w].status \notin {"Ok", "Db"}
  <2>1. answer'[w] = Failed(400)
    BY <1>3, <1>7
  <2> QED
    BY <1>2, <1>3, <1>4, <1>7, <2>1
       DEF Analyzed, HistoryInv, HistoryTold, HistoryPage, CurrentInv, CurrentPage, Failed
<1> QED
  BY <1>5, <1>6, <1>7

LEMMA CurrentReadKnows ==
    ASSUME KnowsInv, NEW w \in Web, CurrentRead(w)
    PROVE  HistoryInv(w)' /\ CurrentInv(w)'
<1>1. /\ HistoryInv(w) /\ CurrentInv(w) /\ Listing(w) /\ stage[w] = "current"
      /\ phase[w] = "replied" /\ answer[w] = NoAnswer
      /\ w \in DOMAIN stage /\ w \in DOMAIN answer
  BY DEF KnowsInv, WebInv, RequestInv, Functions, CurrentRead, Finish, HistoryInv
<1>2. log' = log /\ came' = came
  BY DEF CurrentRead, Finish
<1>3. CASE reply[w].status = "Db"
  <2>1. stage'[w] = "answered" /\ answer'[w] = Failed(500)
    BY <1>1, <1>3 DEF CurrentRead, Respond
  <2> QED
    BY <2>1 DEF HistoryInv, HistoryTold, HistoryPage, CurrentInv, CurrentPage, Failed
<1>4. CASE reply[w].status = "Ok"
  <2>1. PICK R : R = LatestOf(reply[w].listed)
    OBVIOUS
  <2>2. IF R = {} THEN GoTo(w, "collect") ELSE Respond(w, Page(R))
    BY <1>4, <2>1 DEF CurrentRead
  <2>3. CASE R = {}
    <3>1. stage'[w] = "collect" /\ answer'[w] = NoAnswer
      BY <1>1, <2>2, <2>3 DEF GoTo
    <3> QED
      BY <3>1 DEF HistoryInv, HistoryTold, HistoryPage, CurrentInv, CurrentPage, NoAnswer
  <2>4. CASE R # {}
    <3>1. stage'[w] = "answered" /\ answer'[w] = [code |-> 200, readings |-> R]
      BY <1>1, <2>2, <2>4 DEF Respond, Page
    <3>2. \A i \in Entries(w) : Fresh(i, R)
      BY <1>1, <1>4, <2>1 DEF CurrentInv
    <3>3. CurrentInv(w)'
      BY <1>2, <3>1, <3>2 DEF CurrentInv, Entries, Fresh
    <3> QED
      BY <3>1, <3>3 DEF HistoryInv, HistoryTold, HistoryPage
  <2> QED
    BY <2>3, <2>4
<1> QED
  BY <1>1, <1>3, <1>4 DEF Listing

\* The other steps of a request: no history is asked for, and what
\* get_current shows that it has collected itself is of a store that was empty.
LEMMA OtherStepsKnow ==
    ASSUME KnowsInv, NEW w \in Web,
           \/ GetCurrent(w)
           \/ Collect(w)
           \/ CollectFails(w)
           \/ CurrentStored(w)
           \/ Delivered(w)
    PROVE  HistoryInv(w)' /\ CurrentInv(w)'
<1>1. /\ RequestInv(w) /\ HistoryInv(w) /\ w \in DOMAIN phase
      /\ w \in DOMAIN stage /\ w \in DOMAIN answer /\ w \in DOMAIN came
  BY CallersAssumption DEF KnowsInv, WebInv, Functions
<1>2. CASE GetCurrent(w)
  <2>1. stage'[w] = "current" /\ answer'[w] = NoAnswer /\ phase'[w] = "busy"
    BY <1>1, <1>2 DEF GetCurrent, Arrives, GoTo, HistoryInv, Begin, EmptyWindow
  <2> QED
    BY <2>1 DEF HistoryInv, HistoryTold, HistoryPage, CurrentInv, CurrentPage, NoAnswer
<1>3. CASE Collect(w)
  <2>1. stage'[w] = "store" /\ answer'[w] = NoAnswer
    BY <1>1, <1>3 DEF Collect, GoTo, HistoryInv
  <2> QED
    BY <2>1 DEF HistoryInv, HistoryTold, HistoryPage, CurrentInv, CurrentPage, NoAnswer
<1>4. CASE CollectFails(w)
  <2>1. stage'[w] = "answered" /\ answer'[w] = Failed(500)
    BY <1>1, <1>4 DEF CollectFails, Respond
  <2> QED
    BY <2>1 DEF HistoryInv, HistoryTold, HistoryPage, CurrentInv, CurrentPage, Failed
<1>5. CASE Delivered(w)
  <2>1. stage'[w] = "idle" /\ answer'[w] = NoAnswer
    BY <1>1, <1>5 DEF Delivered
  <2> QED
    BY <2>1 DEF HistoryInv, HistoryTold, HistoryPage, CurrentInv, CurrentPage, NoAnswer
<1>6. CASE CurrentStored(w)
  <2>1. stage[w] = "store" /\ came' = came /\ came[w].entries = 0
    BY <1>1, <1>6 DEF CurrentStored, RequestInv
  <2>2. Entries(w)' = {}
    BY <2>1 DEF Entries
  <2>3. stage'[w] = "answered"
        /\ \/ answer'[w] = [code |-> 200, readings |-> RangeOf(asked[w].readings)]
           \/ answer'[w] = [code |-> 500]
    BY <1>1, <1>6 DEF CurrentStored, Respond, Page, Failed
  <2> QED
    BY <2>2, <2>3 DEF HistoryInv, HistoryTold, HistoryPage, CurrentInv
<1> QED
  BY <1>2, <1>3, <1>4, <1>5, <1>6

\* A step that leaves the store's calls of a request alone.
LEMMA UntouchedKnows ==
    ASSUME KnowsInv, NEW w \in Web, log' = log,
           phase'[w] = phase[w], asked'[w] = asked[w], reply'[w] = reply[w],
           stage'[w] = stage[w], answer'[w] = answer[w], came'[w] = came[w]
    PROVE  HistoryInv(w)' /\ CurrentInv(w)'
  BY SameGrows, HistoryFrame, CurrentFrame DEF KnowsInv, WebInv

LEMMA WebDiesKnows ==
    ASSUME NEW w \in Web, WebDies
    PROVE  HistoryInv(w)' /\ CurrentInv(w)'
<1>1. stage'[w] = "idle" /\ answer'[w] = NoAnswer
  BY DEF WebDies
<1> QED
  BY <1>1 DEF HistoryInv, HistoryTold, HistoryPage, CurrentInv, CurrentPage, NoAnswer

LEMMA KnowsStep == KnowsInv /\ [Next]_vars => KnowsInv'
<1> SUFFICES ASSUME KnowsInv, [Next]_vars PROVE KnowsInv'
  OBVIOUS
<1>1. WebInv /\ Timed /\ WebInv'
  BY WebStep DEF KnowsInv
<1>2. CASE Next
  <2>1. ASSUME NEW w \in Web PROVE HistoryInv(w)' /\ CurrentInv(w)'
    <3>1. CASE ClockTicks
      BY <3>1, UntouchedKnows DEF ClockTicks, logVars, webVars
    <3>2. CASE StoreWorks
      BY <3>2, WriteKnows, ReplyKnows DEF StoreWorks
    <3>3. CASE WebDies
      BY <3>3, WebDiesKnows
    <3>4. ASSUME RequestStep(w) PROVE HistoryInv(w)' /\ CurrentInv(w)'
      BY <3>4, GetHistoryKnows, HistoryReadKnows, CurrentReadKnows, OtherStepsKnow
         DEF RequestStep
    <3>5. ASSUME NEW u \in Web, u # w, RequestStep(u)
          PROVE  HistoryInv(w)' /\ CurrentInv(w)'
      BY <1>1, <3>5, OtherUntouched, UntouchedKnows
    <3>6. ASSUME NEW d \in Daemons, Poll(d) \/ Polled(d) \/ DaemonDies(d)
          PROVE  HistoryInv(w)' /\ CurrentInv(w)'
      BY <1>1, <3>6, DaemonUntouched, UntouchedKnows
    <3> QED
      BY <1>2, <3>1, <3>2, <3>3, <3>4, <3>5, <3>6 DEF Next, RequestStep
  <2> QED
    BY <1>1, <1>2, <2>1, TimedStep DEF KnowsInv
<1>3. CASE UNCHANGED vars
  <2>1. ASSUME NEW w \in Web PROVE HistoryInv(w)' /\ CurrentInv(w)'
    BY <1>3, UntouchedKnows DEF vars, logVars, webVars
  <2>2. Timed'
    BY <1>1, <1>3 DEF Timed, ClockOK, CallTimed, IsSequence, vars, logVars
  <2> QED
    BY <1>1, <2>1, <2>2 DEF KnowsInv
<1> QED
  BY <1>2, <1>3

-----------------------------------------------------------------------------
\* For every reading that was stored when a request of get_current came, the
\* page shows its sensor as it was then or later, but for the two exceptions
\* that PageIsCurrent names; also while others write and the clock is set back.
THEOREM CurrentIsCurrent == Spec => []PageIsCurrent
<1>1. KnowsInv => PageIsCurrent
  BY DEF KnowsInv, CurrentInv, PageIsCurrent, Fresh
<1> QED
  BY KnowsInit, KnowsStep, <1>1, PTL DEF Spec

\* A history covers the readings of its window that were stored when the
\* request came and none outside it, and is refused only above the row limit:
\* for any number of requests, daemons and rows (get_history).
THEOREM HistoryIsComplete == Spec => []HistoryComplete
<1>1. KnowsInv => HistoryComplete
  BY DEF KnowsInv, HistoryInv, HistoryTold, HistoryComplete, Rows
<1> QED
  BY KnowsInit, KnowsStep, <1>1, PTL DEF Spec
-----------------------------------------------------------------------------
(***************************************************************************)
(* Types.  What a page shows must not be empty, for the newest reading of  *)
(* an empty page would be no time.                                         *)
(***************************************************************************)
AnswerTyped(w) ==
    \/ stage[w] # "answered" /\ answer[w] = NoAnswer
    \/ /\ stage[w] = "answered"
       /\ \/ answer[w] \in {Failed(400), Failed(500)}
          \/ \E ids : answer[w] = Table(ids)
          \/ \E R : R # {} /\ answer[w] = Page(R)

RequestTyped(w) ==
    /\ stage[w] \in Stages
    /\ came[w] \in [entries: Nat, at: Nat, hours: Nat, sensor: Filters]
    /\ shown[w] \in Nat
    /\ AnswerTyped(w)
    /\ stage[w] = "store" => Len(asked[w].readings) > 0

PhaseTyped == phase \in [Callers -> {"idle", "busy", "replied"}]

PolledTyped == polled \in [Daemons -> 0..MaxUptime]

IsMap(f) == f = [w \in Web |-> f[w]]

MapsTyped == IsMap(stage) /\ IsMap(came) /\ IsMap(shown)

TypesInv ==
    /\ KnowsInv
    /\ PhaseTyped
    /\ PolledTyped
    /\ MapsTyped
    /\ \A w \in Web : RequestTyped(w)

LEMMA AnswerShapes ==
    /\ NoAnswer.code = 0
    /\ \A c : Failed(c).code = c /\ "readings" \notin DOMAIN Failed(c)
    /\ \A ids : Table(ids).code = 200 /\ "readings" \notin DOMAIN Table(ids)
    /\ \A R : Page(R).code = 200
  BY DEF NoAnswer, Failed, Table, Page

\* The newest reading of a page.
LEMMA NewestTime ==
    ASSUME NEW B \in Nat, NEW R, R # {}, \A r \in R : r.at \in 0..B
    PROVE  Newest(R) \in Nat
<1> DEFINE before == {B - r.at : r \in R}
<1>1. before \in SUBSET Nat /\ before # {}
  OBVIOUS
<1>2. PICK m \in before : \A k \in before : m <= k
  <2> HIDE DEF before
  <2> QED
    BY <1>1, Least
<1>3. PICK q \in R : m = B - q.at
  BY <1>2
<1>4. \A r \in R : r.at <= q.at
  <2> TAKE r \in R
  <2>1. B - q.at <= B - r.at
    BY <1>2, <1>3
  <2> QED
    BY <2>1
<1>5. Newest(R) \in {r.at : r \in R}
  BY <1>3, <1>4 DEF Newest
<1> QED
  BY <1>5

LEMMA PageNewest ==
    ASSUME KnowsInv, NEW w \in Web, NEW R, R # {}, answer[w] = Page(R)
    PROVE  Newest(R) \in Nat
<1>1. \A r \in R : Stored(r)
  BY DEF KnowsInv, WebInv, RequestInv, CurrentPage, Page
<1>2. \A r \in R : r \in Taken
  BY <1>1 DEF KnowsInv, Timed, Stored
<1>3. MaxHours + MaxUptime \in Nat
  BY HoursAssumption, UptimeAssumption
<1> QED
  BY <1>2, <1>3, NewestTime DEF Taken

-----------------------------------------------------------------------------
LEMMA TypesInit == Init => TypesInv
<1> SUFFICES ASSUME Init PROVE TypesInv
  OBVIOUS
<1>1. PhaseTyped /\ PolledTyped
  BY UptimeAssumption DEF Init, LogInit, PhaseTyped, PolledTyped
<1>2. ASSUME NEW w \in Web PROVE RequestTyped(w)
  BY DEF Init, RequestTyped, AnswerTyped, Stages, NotCome, Filters
<1>3. MapsTyped
  BY DEF Init, MapsTyped, IsMap
<1> QED
  BY <1>1, <1>2, <1>3, KnowsInit DEF TypesInv

LEMMA PhaseStep ==
    ASSUME TypesInv, Next
    PROVE  PhaseTyped'
<1>1. PhaseTyped
  BY DEF TypesInv
<1>2. ASSUME NEW c, NEW r, Begin(c, r) PROVE PhaseTyped'
  BY <1>1, <1>2 DEF Begin, PhaseTyped
<1>3. ASSUME NEW c, Write(c) \/ Reply(c) \/ Finish(c) PROVE PhaseTyped'
  BY <1>1, <1>3 DEF Write, Reply, Finish, PhaseTyped
<1>4. ASSUME NEW dead, Die(dead) PROVE PhaseTyped'
  BY <1>1, <1>4 DEF Die, PhaseTyped
<1>5. ASSUME UNCHANGED logVars PROVE PhaseTyped'
  BY <1>1, <1>5 DEF logVars, PhaseTyped
<1> QED
  BY <1>2, <1>3, <1>4, <1>5
     DEF Next, ClockTicks, StoreWorks, WebDies, GetCurrent, CurrentRead, Collect,
         CollectFails, CurrentStored, GetHistory, HistoryRead, Delivered, Poll,
         Polled, DaemonDies

LEMMA MapsStep ==
    ASSUME TypesInv, Next
    PROVE  MapsTyped'
<1>1. IsMap(stage) /\ IsMap(came) /\ IsMap(shown)
  BY DEF TypesInv, MapsTyped
<1>2. ASSUME NEW f, NEW g, NEW w, NEW x, IsMap(f), g = [f EXCEPT ![w] = x] PROVE IsMap(g)
  <2>1. f = [u \in Web |-> f[u]]
    BY <1>2 DEF IsMap
  <2>2. DOMAIN f = Web
    BY <2>1
  <2>3. g = [u \in Web |-> IF u = w THEN x ELSE f[u]]
    BY <1>2, <2>2
  <2> QED
    BY <2>3 DEF IsMap
<1>3. ASSUME NEW w, NEW s, GoTo(w, s) PROVE IsMap(stage')
  BY <1>1, <1>2, <1>3 DEF GoTo
<1>4. ASSUME NEW w, NEW a, Respond(w, a) PROVE IsMap(stage')
  BY <1>1, <1>2, <1>4 DEF Respond
<1>5. ASSUME NEW w, NEW h, NEW s, Arrives(w, h, s) PROVE IsMap(came') /\ shown' = shown
  <2>1. PICK x : came' = [came EXCEPT ![w] = x]
    BY <1>5 DEF Arrives
  <2>2. shown' = shown
    BY <1>5 DEF Arrives
  <2> QED
    BY <1>1, <1>2, <2>1, <2>2
<1>6. ASSUME NEW w, Delivered(w) PROVE IsMap(stage') /\ IsMap(came') /\ IsMap(shown')
  <2>1. PICK x : shown' = [shown EXCEPT ![w] = x]
    BY <1>6 DEF Delivered
  <2>2. stage' = [stage EXCEPT ![w] = "idle"] /\ came' = [came EXCEPT ![w] = NotCome]
    BY <1>6 DEF Delivered
  <2> QED
    BY <1>1, <1>2, <2>1, <2>2
<1>7. CASE WebDies
  BY <1>1, <1>7 DEF WebDies, IsMap, MapsTyped
<1>8. ASSUME NEW w \in Web, CurrentRead(w) PROVE MapsTyped'
  <2>1. reply[w].status \in {"Ok", "Db"}
    BY <1>8 DEF TypesInv, KnowsInv, WebInv, RequestInv, Listing, CurrentRead, Finish
  <2>2. IsMap(stage')
    BY <1>3, <1>4, <1>8, <2>1 DEF CurrentRead
  <2> QED
    BY <1>1, <1>8, <2>2 DEF CurrentRead, MapsTyped
<1>9. ASSUME NEW w \in Web, RequestStep(w) PROVE MapsTyped'
  <2>1. CASE GetCurrent(w)
    BY <1>3, <1>5, <1>1, <2>1 DEF GetCurrent, MapsTyped
  <2>2. ASSUME NEW h \in Hours, NEW s \in Filters, GetHistory(w, h, s) PROVE MapsTyped'
    BY <1>3, <1>4, <1>5, <1>1, <2>2 DEF GetHistory, MapsTyped
  <2>3. CASE Collect(w) \/ CollectFails(w) \/ CurrentStored(w) \/ HistoryRead(w)
    BY <1>1, <1>3, <1>4, <2>3
       DEF Collect, CollectFails, CurrentStored, HistoryRead, MapsTyped
  <2>4. CASE Delivered(w)
    BY <1>6, <2>4 DEF MapsTyped
  <2> QED
    BY <1>8, <1>9, <2>1, <2>2, <2>3, <2>4 DEF RequestStep
<1>10. CASE UNCHANGED webVars
  BY <1>1, <1>10 DEF webVars, MapsTyped
<1> QED
  BY <1>7, <1>9, <1>10
     DEF Next, RequestStep, ClockTicks, StoreWorks, Poll, Polled, DaemonDies

LEMMA PolledStep ==
    ASSUME TypesInv, Next
    PROVE  PolledTyped'
<1>1. PolledTyped /\ uptime \in 0..MaxUptime
  BY UptimeAssumption DEF TypesInv, KnowsInv, Timed, ClockOK
<1>2. ASSUME NEW d \in Daemons, Poll(d) PROVE PolledTyped'
  BY <1>1, <1>2 DEF Poll, PolledTyped
<1>3. ASSUME UNCHANGED polled PROVE PolledTyped'
  BY <1>1, <1>3 DEF PolledTyped
<1> QED
  BY <1>2, <1>3
     DEF Next, ClockTicks, StoreWorks, WebDies, GetCurrent, CurrentRead, Collect,
         CollectFails, CurrentStored, GetHistory, HistoryRead, Delivered,
         Polled, DaemonDies

-----------------------------------------------------------------------------
\* The steps of a request itself.

LEMMA ArrivesTyped ==
    ASSUME TypesInv, NEW w \in Web, NEW h \in Nat, NEW s \in Filters, Arrives(w, h, s)
    PROVE  /\ came'[w] \in [entries: Nat, at: Nat, hours: Nat, sensor: Filters]
           /\ shown'[w] \in Nat /\ answer[w] = NoAnswer
<1>1. /\ w \in DOMAIN came /\ IsSequence(log) /\ RequestTyped(w) /\ now \in Nat
  BY TimedTimes DEF TypesInv, KnowsInv, WebInv, Functions
<1>2. Len(log) \in Nat
  BY <1>1, SequenceShape
<1>3. /\ came'[w] = [entries |-> Len(log), at |-> now, hours |-> h, sensor |-> s]
      /\ shown' = shown
  BY <1>1 DEF Arrives
<1> QED
  BY <1>1, <1>2, <1>3 DEF RequestTyped, AnswerTyped, Arrives

LEMMA GetCurrentTyped ==
    ASSUME TypesInv, NEW w \in Web, GetCurrent(w)
    PROVE  RequestTyped(w)'
<1>1. /\ came'[w] \in [entries: Nat, at: Nat, hours: Nat, sensor: Filters]
      /\ shown'[w] \in Nat /\ answer[w] = NoAnswer
  BY ArrivesTyped DEF GetCurrent, Filters
<1>2. stage'[w] = "current" /\ answer' = answer
  BY DEF GetCurrent, GoTo, TypesInv, KnowsInv, WebInv, Functions
<1> QED
  BY <1>1, <1>2 DEF RequestTyped, AnswerTyped, Stages

LEMMA GetHistoryTyped ==
    ASSUME TypesInv, NEW w \in Web, NEW h \in Hours, NEW s \in Filters, GetHistory(w, h, s)
    PROVE  RequestTyped(w)'
<1>1. /\ came'[w] \in [entries: Nat, at: Nat, hours: Nat, sensor: Filters]
      /\ shown'[w] \in Nat /\ answer[w] = NoAnswer
  BY ArrivesTyped, HoursAssumption DEF GetHistory
<1>2. w \in DOMAIN stage /\ w \in DOMAIN answer
  BY DEF TypesInv, KnowsInv, WebInv, Functions
<1>3. \/ stage'[w] = "history" /\ answer' = answer
      \/ stage'[w] = "answered" /\ answer'[w] = Failed(400)
  BY <1>2 DEF GetHistory, GoTo, Respond
<1> QED
  BY <1>1, <1>3 DEF RequestTyped, AnswerTyped, Stages

LEMMA CurrentReadTyped ==
    ASSUME TypesInv, NEW w \in Web, CurrentRead(w)
    PROVE  RequestTyped(w)'
<1>1. /\ RequestTyped(w) /\ stage[w] = "current" /\ answer[w] = NoAnswer
      /\ w \in DOMAIN stage /\ w \in DOMAIN answer
      /\ reply[w].status \in {"Ok", "Db"}
      /\ came' = came /\ shown' = shown
  BY DEF TypesInv, KnowsInv, WebInv, Functions, RequestInv, Listing, CurrentRead,
         Finish, RequestTyped, AnswerTyped
<1>2. CASE reply[w].status = "Db"
  <2>1. stage'[w] = "answered" /\ answer'[w] = Failed(500)
    BY <1>1, <1>2 DEF CurrentRead, Respond
  <2> QED
    BY <1>1, <2>1 DEF RequestTyped, AnswerTyped, Stages
<1>3. CASE reply[w].status = "Ok"
  <2>1. PICK R : R = LatestOf(reply[w].listed)
    OBVIOUS
  <2>2. IF R = {} THEN GoTo(w, "collect") ELSE Respond(w, Page(R))
    BY <1>3, <2>1 DEF CurrentRead
  <2>3. \/ stage'[w] = "collect" /\ answer'[w] = NoAnswer
        \/ R # {} /\ stage'[w] = "answered" /\ answer'[w] = Page(R)
    BY <1>1, <2>2 DEF GoTo, Respond
  <2> QED
    BY <1>1, <2>3 DEF RequestTyped, AnswerTyped, Stages
<1> QED
  BY <1>1, <1>2, <1>3

LEMMA CollectTyped ==
    ASSUME TypesInv, NEW w \in Web, Collect(w)
    PROVE  RequestTyped(w)'
<1>1. /\ RequestTyped(w) /\ stage[w] = "collect" /\ answer[w] = NoAnswer
      /\ w \in DOMAIN stage /\ w \in DOMAIN asked
      /\ came' = came /\ shown' = shown
  BY CallersAssumption DEF TypesInv, KnowsInv, WebInv, Functions, Collect,
     RequestTyped, AnswerTyped
<1>2. PICK on \in Collections \ {{}} :
        Begin(w, [op |-> "insert", readings |-> Collected(on)])
  BY DEF Collect
<1>3. asked'[w].readings = Collected(on)
  BY <1>1, <1>2 DEF Begin
<1>4. Len(asked'[w].readings) > 0
  BY <1>2, <1>3, CollectedSequence
<1>5. stage'[w] = "store" /\ answer' = answer
  BY <1>1 DEF Collect, GoTo
<1> QED
  BY <1>1, <1>4, <1>5 DEF RequestTyped, AnswerTyped, Stages

LEMMA CurrentStoredTyped ==
    ASSUME TypesInv, NEW w \in Web, CurrentStored(w)
    PROVE  RequestTyped(w)'
<1>1. /\ RequestTyped(w) /\ Storing(w) /\ Len(asked[w].readings) > 0
      /\ w \in DOMAIN stage /\ w \in DOMAIN answer
      /\ came' = came /\ shown' = shown
  BY DEF TypesInv, KnowsInv, WebInv, Functions, RequestInv, CurrentStored, RequestTyped
<1>2. PICK R : R = RangeOf(asked[w].readings)
  OBVIOUS
<1>3. R # {}
  <2>1. Len(asked[w].readings) \in Nat
        /\ DOMAIN asked[w].readings = 1..Len(asked[w].readings)
    BY <1>1, SequenceShape DEF Storing
  <2>2. 1 \in DOMAIN asked[w].readings
    BY <1>1, <2>1
  <2> QED
    BY <1>2, <2>2 DEF RangeOf
<1>4. /\ stage'[w] = "answered"
      /\ answer'[w] = Page(R) \/ answer'[w] = Failed(500)
  BY <1>1, <1>2 DEF CurrentStored, Respond
<1> QED
  BY <1>1, <1>3, <1>4 DEF RequestTyped, AnswerTyped, Stages

LEMMA AnsweredTyped ==
    ASSUME TypesInv, NEW w \in Web, CollectFails(w) \/ HistoryRead(w)
    PROVE  RequestTyped(w)'
<1>1. /\ RequestTyped(w) /\ w \in DOMAIN stage /\ w \in DOMAIN answer
      /\ came' = came /\ shown' = shown
  BY DEF TypesInv, KnowsInv, WebInv, Functions, CollectFails, HistoryRead
<1>2. /\ stage'[w] = "answered"
      /\ \/ answer'[w] \in {Failed(400), Failed(500)}
         \/ \E ids : answer'[w] = Table(ids)
  BY <1>1 DEF CollectFails, HistoryRead, Respond
<1> QED
  BY <1>1, <1>2 DEF RequestTyped, AnswerTyped, Stages

LEMMA DeliveredTyped ==
    ASSUME TypesInv, NEW w \in Web, Delivered(w)
    PROVE  RequestTyped(w)'
<1>1. /\ RequestTyped(w) /\ AnswerTyped(w) /\ stage[w] = "answered"
      /\ w \in DOMAIN stage /\ w \in DOMAIN answer /\ w \in DOMAIN came
  BY DEF TypesInv, KnowsInv, WebInv, Functions, Delivered, RequestTyped
<1>2. stage'[w] = "idle" /\ answer'[w] = NoAnswer /\ came'[w] = NotCome
  BY <1>1 DEF Delivered
<1>3. shown'[w] = IF "readings" \in DOMAIN answer[w]
                  THEN Newest(answer[w].readings) ELSE shown[w]
  <2>1. shown = [u \in Web |-> shown[u]]
    BY DEF TypesInv, MapsTyped, IsMap
  <2>2. w \in DOMAIN shown
    BY <2>1
  <2> QED
    BY <2>2 DEF Delivered
<1>4. shown'[w] \in Nat
  <2>1. CASE \E R : R # {} /\ answer[w] = Page(R)
    <3>1. PICK R : R # {} /\ answer[w] = Page(R)
      BY <2>1
    <3>2. Newest(R) \in Nat
      BY <3>1, PageNewest DEF TypesInv
    <3>3. answer[w].readings = R
      BY <3>1 DEF Page
    <3> QED
      BY <1>1, <1>3, <3>2, <3>3 DEF RequestTyped
  <2>2. CASE answer[w] \in {Failed(400), Failed(500)} \/ \E ids : answer[w] = Table(ids)
    <3>1. "readings" \notin DOMAIN answer[w]
      BY <2>2, AnswerShapes
    <3> QED
      BY <1>1, <1>3, <3>1 DEF RequestTyped
  <2> QED
    BY <1>1, <2>1, <2>2 DEF AnswerTyped
<1> QED
  BY <1>2, <1>4 DEF RequestTyped, AnswerTyped, Stages, NotCome, Filters

LEMMA OwnTyped ==
    ASSUME TypesInv, NEW w \in Web, RequestStep(w)
    PROVE  RequestTyped(w)'
  BY GetCurrentTyped, GetHistoryTyped, CurrentReadTyped, CollectTyped,
     CurrentStoredTyped, AnsweredTyped, DeliveredTyped
     DEF RequestStep

-----------------------------------------------------------------------------
\* Steps of others.

LEMMA TypedFrame ==
    ASSUME NEW w \in Web, RequestTyped(w),
           stage'[w] = stage[w], answer'[w] = answer[w], came'[w] = came[w],
           asked'[w] = asked[w], shown'[w] = shown[w]
    PROVE  RequestTyped(w)'
  BY DEF RequestTyped, AnswerTyped

LEMMA ShownStep ==
    ASSUME TypesInv, Next
    PROVE  \A w \in Web : shown'[w] = shown[w] \/ Delivered(w)
<1>1. DOMAIN shown = Web
  <2>1. shown = [w \in Web |-> shown[w]]
    BY DEF TypesInv, MapsTyped, IsMap
  <2> QED
    BY <2>1
<1>2. ASSUME NEW u \in Web, Delivered(u)
      PROVE  \A w \in Web : shown'[w] = shown[w] \/ Delivered(w)
  <2>1. \A w \in Web : w # u => shown'[w] = shown[w]
    BY <1>1, <1>2 DEF Delivered
  <2> QED
    BY <1>2, <2>1
<1>3. CASE shown' = shown
  BY <1>1, <1>3
<1> QED
  BY <1>2, <1>3
     DEF Next, ClockTicks, StoreWorks, WebDies, GetCurrent, CurrentRead, Collect,
         CollectFails, CurrentStored, GetHistory, Arrives, HistoryRead, Poll,
         Polled, DaemonDies, webVars

LEMMA StoreTyped ==
    ASSUME TypesInv, NEW w \in Web, StoreWorks
    PROVE  RequestTyped(w)'
<1>1. RequestTyped(w)
  BY DEF TypesInv
<1>2. asked' = asked /\ UNCHANGED webVars
  BY DEF StoreWorks, Write, Reply
<1> QED
  BY <1>1, <1>2, TypedFrame DEF webVars

LEMMA WebDiesTyped ==
    ASSUME TypesInv, NEW w \in Web, WebDies
    PROVE  RequestTyped(w)'
<1>1. /\ RequestTyped(w) /\ shown' = shown
      /\ stage'[w] = "idle" /\ answer'[w] = NoAnswer /\ came'[w] = NotCome
  BY DEF TypesInv, WebDies
<1> QED
  BY <1>1 DEF RequestTyped, AnswerTyped, Stages, NotCome, Filters

LEMMA TypesStep == TypesInv /\ [Next]_vars => TypesInv'
<1> SUFFICES ASSUME TypesInv, [Next]_vars PROVE TypesInv'
  OBVIOUS
<1>1. KnowsInv /\ KnowsInv' /\ WebInv
  BY KnowsStep DEF TypesInv, KnowsInv
<1>2. CASE Next
  <2>1. ASSUME NEW w \in Web PROVE RequestTyped(w)'
    <3>1. RequestTyped(w) /\ (shown'[w] = shown[w] \/ Delivered(w))
      BY <1>2, ShownStep DEF TypesInv
    <3>2. CASE ClockTicks
      BY <3>1, <3>2, TypedFrame DEF ClockTicks, logVars, webVars
    <3>3. CASE StoreWorks
      BY <3>3, StoreTyped
    <3>4. CASE WebDies
      BY <3>4, WebDiesTyped
    <3>5. ASSUME RequestStep(w) PROVE RequestTyped(w)'
      BY <3>5, OwnTyped
    <3>6. ASSUME NEW u \in Web, u # w, RequestStep(u) PROVE RequestTyped(w)'
      BY <1>1, <3>1, <3>6, OtherUntouched, TypedFrame, DeliveredTyped
    <3>7. ASSUME NEW d \in Daemons, Poll(d) \/ Polled(d) \/ DaemonDies(d)
          PROVE  RequestTyped(w)'
      BY <1>1, <3>1, <3>7, DaemonUntouched, TypedFrame, DeliveredTyped
    <3> QED
      BY <1>2, <3>2, <3>3, <3>4, <3>5, <3>6, <3>7 DEF Next, RequestStep
  <2> QED
    BY <1>1, <1>2, <2>1, PhaseStep, PolledStep, MapsStep DEF TypesInv
<1>3. CASE UNCHANGED vars
  <2>1. \A w \in Web : RequestTyped(w)'
    BY <1>3, TypedFrame DEF TypesInv, vars, logVars, webVars
  <2> QED
    BY <1>1, <1>3, <2>1
       DEF TypesInv, PhaseTyped, PolledTyped, MapsTyped, IsMap, vars, logVars, webVars
<1> QED
  BY <1>2, <1>3

LEMMA TypesSuffice == TypesInv => TypeOK
<1> SUFFICES ASSUME TypesInv PROVE TypeOK
  OBVIOUS
<1>1. log \in Seq([reading: Reading])
  <2>1. Len(log) \in Nat /\ DOMAIN log = 1..Len(log)
    BY SequenceShape DEF TypesInv, KnowsInv, WebInv
  <2>2. \A i \in DOMAIN log : log[i] \in [reading: Reading]
    <3>1. MaxHours + MaxUptime \in Nat
      BY HoursAssumption, UptimeAssumption
    <3>2. Taken \subseteq Reading
      BY <3>1 DEF Taken, Reading
    <3> QED
      BY <3>2 DEF TypesInv, KnowsInv, Timed
  <2>3. IsSequence(log)
    BY DEF TypesInv, KnowsInv, WebInv
  <2> QED
    <3>1. PICK S : log \in Seq(S)
      BY <2>3 DEF IsSequence
    <3>2. PICK n \in Nat : log \in [1..n -> S]
      BY <3>1, SeqDef
    <3>3. log \in [1..n -> [reading: Reading]]
      BY <2>2, <3>2
    <3> QED
      BY <3>3, SeqDef
<1>2. now \in MaxHours..(MaxHours + MaxUptime) /\ uptime \in 1..MaxUptime
  BY HoursAssumption, UptimeAssumption DEF TypesInv, KnowsInv, Timed, ClockOK
<1>3. ASSUME NEW f, IsMap(f), NEW S, \A w \in Web : f[w] \in S PROVE f \in [Web -> S]
  BY <1>3 DEF IsMap
<1>4. /\ stage \in [Web -> Stages]
      /\ came \in [Web -> [entries: Nat, at: Nat, hours: Nat, sensor: Filters]]
      /\ shown \in [Web -> Nat]
  <2>1. IsMap(stage) /\ \A w \in Web : stage[w] \in Stages
    BY DEF TypesInv, MapsTyped, RequestTyped
  <2>2. IsMap(came) /\ \A w \in Web : came[w] \in [entries: Nat, at: Nat, hours: Nat, sensor: Filters]
    BY DEF TypesInv, MapsTyped, RequestTyped
  <2>3. IsMap(shown) /\ \A w \in Web : shown[w] \in Nat
    BY DEF TypesInv, MapsTyped, RequestTyped
  <2> QED
    BY <1>3, <2>1, <2>2, <2>3
<1>5. ASSUME NEW w \in Web
      PROVE  answer[w].code \in IF stage[w] = "answered" THEN {200, 400, 500} ELSE {0}
  <2>1. AnswerTyped(w)
    BY DEF TypesInv, RequestTyped
  <2> QED
    BY <2>1, AnswerShapes DEF AnswerTyped
<1>6. PhaseTyped /\ PolledTyped
  BY DEF TypesInv
<1> QED
  BY <1>1, <1>2, <1>4, <1>5, <1>6 DEF TypeOK, PhaseTyped, PolledTyped

\* A request is at one of the handler's places, an answer has one of the codes
\* that get_current and get_history give, and the page's newest reading is a
\* time: no page of readings is empty.
THEOREM WebTypeOK == Spec => []TypeOK
  BY TypesInit, TypesStep, TypesSuffice, PTL DEF Spec
=============================================================================
