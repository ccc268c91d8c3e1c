----------------------------- MODULE OnceProof -----------------------------
(***************************************************************************)
(* Proofs about a collection and about `tempcheck once`, for any sources,  *)
(* sensors and changes of the machine meanwhile.  CollectInv says what is  *)
(* known of the sources that were read and of the one that is being read.  *)
(***************************************************************************)
EXTENDS Once, SequenceTheorems, TLAPS

\* The sources whose turn is over.
Past == {Sources[i] : i \in 1..(turn - 1)}

\* A sensor of b that answered all the time is reported, or b has failed
\* because of another sensor of its own.
Accounted(b) ==
    \A s \in SensorsOf[b] :
      s \notin troubled /\ s \notin all =>
        SensorsOf[b] \intersect troubled # {} /\ b \in errors

\* What has been read of the current source and what is still to be read; a
\* sensor that answered all the time is in one of them once it was listed.
CurrentTurn ==
    /\ todo \union part \subseteq SensorsOf[Current]
    /\ listing => todo = {} /\ part = {}
    /\ ~listing => \A s \in SensorsOf[Current] :
                     s \notin troubled => s \in todo \union part

CollectInv ==
    /\ TypeOK
    /\ NotFine(machine, rooted) \subseteq troubled
    /\ errors \subseteq Past
    /\ \A s \in all : \E b \in Past : s \in SensorsOf[b]
    /\ FailedSourceDropped
    /\ \A b \in Past : Accounted(b)
    /\ IF turn <= Len(Sources) THEN CurrentTurn /\ outcome = "none"
                               ELSE todo = {} /\ part = {}
    /\ outcome = "Ok" => all # {}

-----------------------------------------------------------------------------
\* A sensor has one source, and every turn is one of a source of its own.
LEMMA SourceFacts ==
    /\ Len(Sources) \in Nat /\ DOMAIN Sources = 1..Len(Sources)
    /\ SourceSet \subseteq DOMAIN SensorsOf
    /\ \A b, c \in SourceSet : \A s : s \in SensorsOf[b] /\ s \in SensorsOf[c] => b = c
<1>1. Len(Sources) \in Nat /\ DOMAIN Sources = 1..Len(Sources)
  BY SourcesAssumption, LenProperties
<1>2. SourceSet \subseteq DOMAIN SensorsOf
  BY SourcesAssumption, <1>1, ElementOfSeq DEF SourceSet
<1>3. ASSUME NEW b \in SourceSet, NEW c \in SourceSet, NEW s,
             s \in SensorsOf[b], s \in SensorsOf[c]
      PROVE  b = c
  <2>1. PICK i \in DOMAIN Sources : b = Sources[i]
    BY DEF SourceSet
  <2>2. PICK j \in DOMAIN Sources : c = Sources[j]
    BY DEF SourceSet
  <2>3. i # j => SensorsOf[b] \intersect SensorsOf[c] = {}
    BY <2>1, <2>2, SourcesAssumption
  <2> QED
    BY <1>3, <2>1, <2>2, <2>3
<1> QED
  BY <1>1, <1>2, <1>3

LEMMA CurrentIsNew ==
    ASSUME TypeOK, turn <= Len(Sources)
    PROVE  /\ Current \in SourceSet /\ Current \notin Past
           /\ Past \subseteq SourceSet
           /\ {Sources[i] : i \in 1..turn} = Past \union {Current}
           /\ SensorsOf[Current] \subseteq SensorSet
<1>1. turn \in 1..Len(Sources) /\ turn \in Nat
  BY SourceFacts DEF TypeOK
<1>2. Current \in SourceSet
  BY <1>1, SourceFacts DEF Current, SourceSet
<1>3. \A i \in 1..(turn - 1) : i \in DOMAIN Sources /\ turn \in DOMAIN Sources /\ i # turn
  BY <1>1, SourceFacts
<1>4. Current \notin Past
  BY <1>3, SourcesAssumption DEF Past, Current
<1>5. Past \subseteq SourceSet
  BY <1>3 DEF Past, SourceSet
<1>6. {Sources[i] : i \in 1..turn} = Past \union {Current}
  <2>1. \A i : i \in 1..turn <=> i \in 1..(turn - 1) \/ i = turn
    BY <1>1
  <2> QED
    BY <2>1 DEF Past, Current
<1>7. SensorsOf[Current] \subseteq SensorSet
  BY <1>2 DEF SensorSet
<1> QED
  BY <1>2, <1>4, <1>5, <1>6, <1>7

\* The next turn begins with nothing listed and nothing read.
LEMMA NextTurn ==
    ASSUME TypeOK, turn <= Len(Sources), NextSource, outcome' = outcome,
           outcome = "none"
    PROVE  /\ turn' \in 1..(Len(Sources) + 1)
           /\ Past' = Past \union {Current}
           /\ IF turn' <= Len(Sources) THEN CurrentTurn' /\ outcome' = "none"
                                       ELSE todo' = {} /\ part' = {}
<1>1. turn \in Nat /\ turn >= 1 /\ turn' = turn + 1 /\ Len(Sources) \in Nat
  BY SourceFacts DEF TypeOK, NextSource
<1>2. turn' \in 1..(Len(Sources) + 1)
  BY <1>1
<1>3. turn' - 1 = turn
  BY <1>1
<1>4. Past' = {Sources[i] : i \in 1..turn}
  BY <1>3 DEF Past
<1>5. listing' = TRUE /\ todo' = {} /\ part' = {}
  BY DEF NextSource
<1> QED
  BY <1>2, <1>4, <1>5, CurrentIsNew DEF CurrentTurn

\* A source fails only because of a sensor that was not fine, so it is
\* accounted for, and nothing of it has been merged.
LEMMA FailedTurn ==
    ASSUME CollectInv, Reading, SourceFails,
           SensorsOf[Current] # {} => SensorsOf[Current] \intersect troubled # {},
           UNCHANGED <<machine, rooted, changes, troubled>>
    PROVE  CollectInv'
<1>1. /\ turn <= Len(Sources) /\ outcome = "none" /\ TypeOK
      /\ errors' = errors \union {Current} /\ NextSource
      /\ all' = all /\ outcome' = outcome
  BY DEF Reading, SourceFails, CollectInv
<1>2. /\ turn' \in 1..(Len(Sources) + 1)
      /\ Past' = Past \union {Current}
      /\ IF turn' <= Len(Sources) THEN CurrentTurn' /\ outcome' = "none"
                                  ELSE todo' = {} /\ part' = {}
  BY <1>1, NextTurn
<1>3. TypeOK'
  <2>1. Current \in SourceSet
    BY <1>1, CurrentIsNew
  <2> QED
    BY <1>1, <1>2, <2>1 DEF TypeOK, NextSource
<1>4. all \intersect SensorsOf[Current] = {}
  BY <1>1, CurrentIsNew, SourceFacts DEF CollectInv
<1>5. FailedSourceDropped'
  BY <1>1, <1>4 DEF CollectInv, FailedSourceDropped
<1>6. \A b \in Past' : Accounted(b)'
  <2>1. \A b \in Past : Accounted(b)'
    BY <1>1 DEF CollectInv, Accounted
  <2>2. PICK c : c = Current
    OBVIOUS
  <2>3. c \in errors' /\ (SensorsOf[c] # {} => SensorsOf[c] \intersect troubled' # {})
    BY <1>1, <2>2
  <2>4. Accounted(c)'
    BY <2>3 DEF Accounted
  <2> QED
    BY <1>2, <2>1, <2>2, <2>4
<1>7. (\A s \in all : \E b \in Past : s \in SensorsOf[b])'
  BY <1>1, <1>2 DEF CollectInv
<1>8. (NotFine(machine, rooted) \subseteq troubled)' /\ (errors \subseteq Past)'
  BY <1>1, <1>2 DEF CollectInv, NotFine
<1> QED
  BY <1>1, <1>2, <1>3, <1>5, <1>6, <1>7, <1>8 DEF CollectInv

\* Inside a turn only todo, part and listing change.
LEMMA InsideTurn ==
    ASSUME CollectInv, Reading, CurrentTurn',
           UNCHANGED <<machine, rooted, turn, all, errors, outcome, changes, troubled>>,
           listing' \in BOOLEAN
    PROVE  CollectInv'
<1>1. turn <= Len(Sources) /\ TypeOK
  BY DEF Reading, CollectInv
<1>2. todo' \union part' \subseteq SensorSet
  <2>1. Current' = Current
    BY DEF Current
  <2> QED
    BY <1>1, <2>1, CurrentIsNew DEF CurrentTurn
<1>3. TypeOK'
  BY <1>1, <1>2 DEF TypeOK
<1>4. Past' = Past
  BY DEF Past
<1>5. (\A b \in Past : Accounted(b))' /\ FailedSourceDropped'
  BY <1>4 DEF CollectInv, Accounted, FailedSourceDropped
<1>6. (NotFine(machine, rooted) \subseteq troubled)' /\ (errors \subseteq Past)'
      /\ (\A s \in all : \E b \in Past : s \in SensorsOf[b])'
  BY <1>4 DEF CollectInv, NotFine
<1> QED
  BY <1>3, <1>5, <1>6 DEF CollectInv, Reading

-----------------------------------------------------------------------------
LEMMA CollectInit == Init => CollectInv
<1> SUFFICES ASSUME Init PROVE CollectInv
  OBVIOUS
<1>1. Len(Sources) \in Nat /\ turn = 1 /\ turn \in 1..(Len(Sources) + 1)
  BY SourceFacts DEF Init
<1>2. Past = {}
  BY <1>1 DEF Past
<1>3. NotFine(machine, rooted) \subseteq SensorSet
  BY DEF NotFine, SensorSet
<1>4. TypeOK
  BY <1>1, <1>3, MaxChangesAssumption DEF Init, TypeOK
<1> QED
  BY <1>2, <1>4 DEF Init, CollectInv, CurrentTurn, FailedSourceDropped

LEMMA StepMachine ==
    ASSUME CollectInv, MachineChanges
    PROVE  CollectInv'
<1>1. /\ troubled' = troubled \union NotFine(machine', rooted')
      /\ UNCHANGED <<turn, listing, todo, part, all, errors, outcome>>
      /\ changes' = changes + 1 /\ changes < MaxChanges
  BY DEF MachineChanges
<1>2. NotFine(machine', rooted') \subseteq SensorSet
  BY DEF NotFine, SensorSet
<1>3. TypeOK'
  <2>1. machine' \in [SensorSet -> {"fine", "failing", "absent"}] /\ rooted' \subseteq SourceSet
    BY DEF MachineChanges, CollectInv, TypeOK
  <2> QED
    BY <1>1, <1>2, <2>1, MaxChangesAssumption DEF CollectInv, TypeOK
<1>4. Past' = Past /\ Current' = Current
  BY <1>1 DEF Past, Current
<1>5. (\A b \in Past : Accounted(b))'
  BY <1>1, <1>4 DEF CollectInv, Accounted
<1>6. CurrentTurn => CurrentTurn'
  BY <1>1, <1>4 DEF CurrentTurn
<1>7. (NotFine(machine, rooted) \subseteq troubled)'
  BY <1>1 DEF NotFine
<1> QED
  BY <1>1, <1>3, <1>4, <1>5, <1>6, <1>7 DEF CollectInv, FailedSourceDropped

\* Sensors that are not fine now are known as such.
LEMMA NotFineKnown ==
    ASSUME CollectInv, Reading, NEW s \in SensorsOf[Current],
           machine[s] # "fine" \/ Current \notin rooted
    PROVE  s \in troubled
<1>1. Current \in SourceSet /\ s \in SensorSet
  BY CurrentIsNew DEF CollectInv, Reading
<1> QED
  BY <1>1 DEF CollectInv, NotFine

LEMMA StepList ==
    ASSUME CollectInv, ListEntries
    PROVE  CollectInv'
<1>1. CASE Current \in rooted
  <2>1. /\ Reading /\ listing' = FALSE /\ todo' = Listed
        /\ UNCHANGED <<turn, part, all, errors, outcome, machine, rooted, changes, troubled>>
        /\ part = {}
    BY <1>1 DEF ListEntries, CollectInv, CurrentTurn, Reading
  <2>2. \A s \in SensorsOf[Current] : s \notin troubled => machine[s] = "fine"
    BY <2>1, NotFineKnown
  <2>3. CurrentTurn'
    BY <2>1, <2>2 DEF CurrentTurn, Listed, Current
  <2> QED
    BY <2>1, <2>3, InsideTurn
<1>2. CASE Current \notin rooted
  <2>1. /\ Reading /\ SourceFails
        /\ UNCHANGED <<machine, rooted, changes, troubled>>
    BY <1>2 DEF ListEntries
  <2>2. \A s \in SensorsOf[Current] : s \in troubled
    BY <1>2, <2>1, NotFineKnown
  <2> QED
    BY <2>1, <2>2, FailedTurn
<1> QED
  BY <1>1, <1>2

LEMMA StepRun ==
    ASSUME CollectInv, RunCommand
    PROVE  CollectInv'
<1>1. CASE Current \in rooted /\ \A s \in Listed : machine[s] = "fine"
  <2>1. /\ Reading /\ listing' = FALSE /\ part' = Listed
        /\ UNCHANGED <<turn, todo, all, errors, outcome, machine, rooted, changes, troubled>>
        /\ todo = {}
    BY <1>1 DEF RunCommand, CollectInv, CurrentTurn, Reading
  <2>2. \A s \in SensorsOf[Current] : s \notin troubled => machine[s] = "fine"
    BY <2>1, NotFineKnown
  <2>3. CurrentTurn'
    BY <2>1, <2>2 DEF CurrentTurn, Listed, Current
  <2> QED
    BY <2>1, <2>3, InsideTurn
<1>2. CASE ~(Current \in rooted /\ \A s \in Listed : machine[s] = "fine")
  <2>1. /\ Reading /\ SourceFails
        /\ UNCHANGED <<machine, rooted, changes, troubled>>
    BY <1>2 DEF RunCommand
  <2>2. SensorsOf[Current] # {} => SensorsOf[Current] \intersect troubled # {}
    <3>1. CASE Current \notin rooted
      BY <2>1, <3>1, NotFineKnown
    <3>2. CASE Current \in rooted
      <4>1. PICK s \in SensorsOf[Current] : machine[s] # "fine"
        BY <1>2, <3>2 DEF Listed
      <4>2. s \in troubled
        BY <2>1, <4>1, NotFineKnown
      <4> QED
        BY <4>1, <4>2
    <3> QED
      BY <3>1, <3>2
  <2> QED
    BY <2>1, <2>2, FailedTurn
<1> QED
  BY <1>1, <1>2

LEMMA StepRead ==
    ASSUME CollectInv, ReadEntry
    PROVE  CollectInv'
<1>1. PICK s \in todo :
        IF Answers(Current, s)
        THEN /\ todo' = todo \ {s}
             /\ part' = part \union {s}
             /\ UNCHANGED <<turn, listing, all, errors, outcome>>
        ELSE SourceFails
  BY DEF ReadEntry
<1>2. /\ Reading /\ ~listing /\ UNCHANGED <<machine, rooted, changes, troubled>>
      /\ CurrentTurn /\ s \in SensorsOf[Current] /\ listing \in BOOLEAN
  BY <1>1 DEF ReadEntry, CollectInv, Reading, CurrentTurn, TypeOK
<1>3. CASE Answers(Current, s)
  <2>1. CurrentTurn'
    BY <1>1, <1>2, <1>3 DEF CurrentTurn, Current
  <2> QED
    BY <1>1, <1>2, <1>3, <2>1, InsideTurn
<1>4. CASE ~Answers(Current, s)
  <2>1. s \in troubled
    BY <1>2, <1>4, NotFineKnown DEF Answers
  <2> QED
    BY <1>1, <1>2, <1>4, <2>1, FailedTurn
<1> QED
  BY <1>3, <1>4

LEMMA StepSkip ==
    ASSUME CollectInv, SkipDevice
    PROVE  CollectInv'
<1>1. PICK s \in todo : /\ Current \notin rooted \/ machine[s] = "absent"
                        /\ todo' = todo \ {s}
  BY DEF SkipDevice
<1>2. /\ Reading /\ ~listing /\ listing \in BOOLEAN
      /\ UNCHANGED <<machine, rooted, turn, listing, part, all, errors, outcome,
                     changes, troubled>>
      /\ CurrentTurn /\ s \in SensorsOf[Current]
  BY <1>1 DEF SkipDevice, CollectInv, Reading, CurrentTurn, TypeOK
<1>3. s \in troubled
  BY <1>1, <1>2, NotFineKnown
<1>4. CurrentTurn'
  BY <1>1, <1>2, <1>3 DEF CurrentTurn, Current
<1> QED
  BY <1>2, <1>4, InsideTurn

LEMMA StepDone ==
    ASSUME CollectInv, SourceDone
    PROVE  CollectInv'
<1>1. /\ Reading /\ ~listing /\ todo = {} /\ all' = all \union part /\ NextSource
      /\ UNCHANGED <<machine, rooted, errors, outcome, changes, troubled>>
      /\ turn <= Len(Sources) /\ outcome = "none" /\ TypeOK /\ CurrentTurn
  BY DEF SourceDone, Reading, CollectInv
<1>2. /\ turn' \in 1..(Len(Sources) + 1)
      /\ Past' = Past \union {Current}
      /\ IF turn' <= Len(Sources) THEN CurrentTurn' /\ outcome' = "none"
                                  ELSE todo' = {} /\ part' = {}
  BY <1>1, NextTurn
<1>3. part \subseteq SensorsOf[Current]
  BY <1>1 DEF CurrentTurn
<1>4. TypeOK'
  BY <1>1, <1>2 DEF TypeOK, NextSource
<1>5. FailedSourceDropped'
  <2>1. \A b \in errors : part \intersect SensorsOf[b] = {}
    <3>1. \A b \in errors : b \in SourceSet /\ b # Current
      BY <1>1, CurrentIsNew DEF CollectInv
    <3> QED
      BY <1>1, <1>3, <3>1, CurrentIsNew, SourceFacts
  <2> QED
    BY <1>1, <2>1 DEF CollectInv, FailedSourceDropped
<1>6. \A b \in Past' : Accounted(b)'
  <2>1. \A b \in Past : Accounted(b)'
    BY <1>1 DEF CollectInv, Accounted
  <2>2. PICK c : c = Current
    OBVIOUS
  <2>3. \A s \in SensorsOf[c] : s \notin troubled' => s \in all'
    BY <1>1, <2>2 DEF CurrentTurn
  <2>4. Accounted(c)'
    BY <2>3 DEF Accounted
  <2> QED
    BY <1>2, <2>1, <2>2, <2>4
<1>7. (\A s \in all : \E b \in Past : s \in SensorsOf[b])'
  BY <1>1, <1>2, <1>3 DEF CollectInv
<1>8. (NotFine(machine, rooted) \subseteq troubled)' /\ (errors \subseteq Past)'
  BY <1>1, <1>2 DEF CollectInv, NotFine
<1> QED
  BY <1>1, <1>2, <1>4, <1>5, <1>6, <1>7, <1>8 DEF CollectInv

LEMMA StepMerge ==
    ASSUME CollectInv, Merge
    PROVE  CollectInv'
<1>1. /\ turn > Len(Sources) /\ outcome' = IF all = {} THEN "Err" ELSE "Ok"
      /\ UNCHANGED <<machine, rooted, turn, listing, todo, part, all, errors,
                     changes, troubled>>
  BY DEF Merge
<1>2. TypeOK'
  BY <1>1 DEF CollectInv, TypeOK
<1>3. Past' = Past /\ ~(turn <= Len(Sources))
  BY <1>1, SourceFacts DEF Past, CollectInv, TypeOK
<1> QED
  BY <1>1, <1>2, <1>3 DEF CollectInv, Accounted, FailedSourceDropped, NotFine

LEMMA CollectStep == CollectInv /\ [Next]_vars => CollectInv'
<1>1. ASSUME CollectInv, UNCHANGED vars PROVE CollectInv'
  BY <1>1 DEF vars, CollectInv, TypeOK, Past, Accounted, CurrentTurn, Current, NotFine,
              FailedSourceDropped
<1> QED
  BY <1>1, StepMachine, StepList, StepRun, StepRead, StepSkip, StepDone, StepMerge DEF Next

\* When a collection is over every source had its turn.
LEMMA CollectImplies ==
    ASSUME CollectInv
    PROVE  TypeOK /\ FailedSourceDropped /\ OnlyNeighboursHide
<1>1. ASSUME outcome # "none" PROVE SourceSet \subseteq Past
  <2>1. turn = Len(Sources) + 1
    BY <1>1, SourceFacts DEF CollectInv, TypeOK
  <2> QED
    BY <2>1, SourceFacts DEF SourceSet, Past
<1>2. OnlyNeighboursHide
  BY <1>1 DEF OnlyNeighboursHide, CollectInv, Accounted
<1> QED
  BY <1>2 DEF CollectInv

-----------------------------------------------------------------------------
\* What once has done at each place.
OnceInv ==
    /\ at \in {"collect", "print", "open", "insert", "over"}
    /\ at \in {"collect", "print"} => printed = {} /\ saved = {}
    /\ at = "print" => outcome = "Ok"
    /\ at \in {"open", "insert"} => outcome = "Ok" /\ save /\ printed = all
    /\ at # "over" => exit = "none"
    /\ saved \subseteq printed
    /\ exit = "zero" => /\ outcome = "Ok" /\ printed = all
                        /\ save => saved = printed

\* A collection is finished before anything is printed.
LEMMA OnceCollects == OnceNext => [Next]_vars
  BY DEF OnceNext, Collecting, Collected, PrintReadings, OpenStore, InsertRow, InsertDone,
         Fails, Killed

LEMMA OnceStep ==
    ASSUME CollectInv, OnceInv, [OnceNext]_allVars
    PROVE  OnceInv'
<1>1. CASE at = "collect" /\ Collecting
  BY <1>1 DEF Collecting, onceVars, OnceInv
<1>2. CASE Collected
  BY <1>2 DEF Collected, Ends, vars, OnceInv
<1>3. CASE PrintReadings
  BY <1>3 DEF PrintReadings, Ends, vars, OnceInv
<1>4. CASE OpenStore
  BY <1>4 DEF OpenStore, vars, OnceInv
<1>5. CASE InsertRow
  BY <1>5 DEF InsertRow, vars, OnceInv
<1>6. CASE InsertDone
  BY <1>6 DEF InsertDone, Ends, vars, OnceInv
<1>7. CASE Fails
  BY <1>7 DEF Fails, Ends, vars, OnceInv
<1>8. CASE Killed
  BY <1>8 DEF Killed, Ends, vars, OnceInv
<1>9. CASE UNCHANGED allVars
  BY <1>9 DEF allVars, onceVars, vars, OnceInv
<1> QED
  BY <1>1, <1>2, <1>3, <1>4, <1>5, <1>6, <1>7, <1>8, <1>9 DEF OnceNext

LEMMA OnceInvariant == OnceSpec => [](CollectInv /\ OnceInv)
<1>1. OnceInit => CollectInv /\ OnceInv
  BY CollectInit DEF OnceInit, OnceInv
<1>2. CollectInv /\ OnceInv /\ [OnceNext]_allVars => (CollectInv /\ OnceInv)'
  <2>1. [OnceNext]_allVars => [Next]_vars
    BY OnceCollects DEF allVars
  <2> QED
    BY <2>1, CollectStep, OnceStep
<1> QED
  BY <1>1, <1>2, PTL DEF OnceSpec

-----------------------------------------------------------------------------
\* The variables of a collection have their types.
THEOREM OnceTypeOK == OnceSpec => []TypeOK
  BY CollectImplies, OnceInvariant, PTL

\* For any sources, sensors and changes of the machine during the call: nothing
\* of a source that failed is reported (Err(e) => errors.push(e)), and a sensor
\* that answers all the time is missing only where another one of its source
\* did not.
THEOREM SourcesApart == OnceSpec => [](FailedSourceDropped /\ OnlyNeighboursHide)
  BY CollectImplies, OnceInvariant, PTL

\* Wherever once fails or is killed, exit status zero means that everything
\* collected was printed and, with --save, is in the database (src/app.rs).
THEOREM ExitTells == OnceSpec => []ExitStatusTells
<1>1. CollectInv /\ OnceInv => ExitStatusTells
  BY DEF CollectInv, OnceInv, ExitStatusTells
<1> QED
  BY <1>1, OnceInvariant, PTL
=============================================================================
