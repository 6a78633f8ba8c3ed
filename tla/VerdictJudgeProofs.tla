------------------------- MODULE VerdictJudgeProofs -------------------------
(***************************************************************************)
(* Provenance, one call per template and a cache that agrees with the      *)
(* store, for every number of templates, bundles, builds, permits and      *)
(* restarts.                                                               *)
(***************************************************************************)
EXTENDS VerdictJudgeProps, FunctionTheorems, TLAPS

\* Null is no value of any kind.
LEMMA NullIsApart ==
  /\ Null \notin Template /\ Null \notin Model /\ Null \notin RecordId
  /\ Null \notin Verdict /\ Null \notin Task /\ Null \notin Steps /\ Null \notin Reading
  /\ RecordId \subseteq Nat
  BY JudgeAssumption DEF RecordId

TasksOK == tasks \in [Slot -> Task \union {Null}]

\* A task that moves to another phase keeps everything else.
LEMMA GoesKeepsTask ==
  ASSUME TasksOK, NEW s \in Slot, tasks[s] # Null, NEW phase \in Phase, Goes(s, phase)
  PROVE  /\ TasksOK'
         /\ tasks'[s] # Null
         /\ tasks'[s].phase = phase
         /\ tasks'[s].template = tasks[s].template
         /\ tasks'[s].model = tasks[s].model
         /\ tasks'[s].id = tasks[s].id
         /\ \A r \in Slot : r # s => tasks'[r] = tasks[r]
<1>1. tasks[s] \in Task
  BY DEF TasksOK
<1>2. tasks' = [tasks EXCEPT ![s].phase = phase]
  BY DEF Goes
<1>3. [tasks[s] EXCEPT !.phase = phase] \in Task
  BY <1>1 DEF Task
<1>4. tasks' = [tasks EXCEPT ![s] = [tasks[s] EXCEPT !.phase = phase]]
  BY <1>2
<1>5. tasks'[s] = [tasks[s] EXCEPT !.phase = phase] /\ TasksOK'
  BY <1>3, <1>4 DEF TasksOK
<1>6. \A r \in Slot : r # s => tasks'[r] = tasks[r]
  BY <1>4 DEF TasksOK
<1>7. tasks'[s] # Null
  BY <1>3, <1>5, NullIsApart
<1> QED BY <1>1, <1>5, <1>6, <1>7 DEF Task

\* A row of t is a verdict of t under this bundle.
LEMMA RowsAreVerdicts ==
  ASSUME TypeOK, NEW t \in Template
  PROVE  /\ Rows(t) \subseteq Verdict /\ Rows(t) \subseteq verdicts
         /\ \A v \in Rows(t) : v.template = t /\ v.bundle = bundle
         /\ ReadLatest(t) \subseteq Rows(t) \union {Null}
         /\ ~ReadFaults /\ Null \in ReadLatest(t) => Rows(t) = {}
<1>1. Rows(t) \subseteq Verdict
  BY DEF TypeOK, Rows
<1>2. Null \notin Rows(t)
  BY <1>1, NullIsApart
<1> QED BY <1>1, <1>2 DEF Rows, ReadLatest

-----------------------------------------------------------------------------
LEMMA InitIndInv == Init => IndInv
<1> SUFFICES ASSUME Init PROVE IndInv
  OBVIOUS
<1>1. TypeOK
  BY JudgeAssumption DEF Init, TypeOK
<1>2. AnswersAreKnown /\ RecordedFirst
  BY DEF Init, AnswersAreKnown, RecordedFirst, Past
<1>3. InFlightIsWorked
  BY DEF Init, InFlightIsWorked
<1>4. EveryVerdictHasARecord
  BY DEF Init, EveryVerdictHasARecord
<1>5. OneRow /\ OnlyUnjudgedInHand /\ ServedAreRows
  BY DEF Init, OneRow, OnlyUnjudgedInHand, ServedAreRows, Past
<1> QED BY <1>1, <1>2, <1>3, <1>4, <1>5 DEF IndInv
-----------------------------------------------------------------------------
(* Types, and what a task past its call knows.                             *)

Typed == TypeOK /\ AnswersAreKnown

\* Steps of the engine and of the judge's loop, which start no task.
LEMMA LoopKeepsTyped ==
  ASSUME Typed,
         \/ \E t \in Template : LookupMisses(t) \/ Evict(t)
         \/ VerdictFor \/ TakeNotice \/ TakeJob \/ FindsJudged \/ NeedsCall
  PROVE  Typed'
<1>0. TypeOK /\ UNCHANGED <<bundle, verdicts, records, index, lastId, restarts, tasks>>
  BY DEF Typed, VerdictFor, LookupMisses, Evict, LookupReads, LookupFills, LookupEnqueues,
         TakeNotice, TakeJob, FindsJudged, NeedsCall, durable, judge
<1>1. AnswersAreKnown'
  BY <1>0 DEF Typed, AnswersAreKnown, Past
<1>2. /\ bundle' \in Bundle /\ verdicts' \subseteq Verdict /\ records' \subseteq DecisionRecord
      /\ index' \subseteq RecordId /\ lastId' \in 0 .. MaxRecords
      /\ tasks' \in [Slot -> Task \union {Null}] /\ restarts' \in 0 .. MaxRestarts
  BY <1>0 DEF TypeOK
<1> DEFINE Rest == /\ moka' \in [Template -> Verdict \union {Null}]
                   /\ queue' \in Seq(Template)
                   /\ loop' \in Steps \union {Null}
                   /\ inFlight' \subseteq Template
                   /\ reader' \in Reading \union {Null}
                   /\ waiting' \subseteq Template
                   /\ notices' \in Seq(Template)
<1>3. ASSUME NEW t \in Template, LookupMisses(t) PROVE Rest
  BY <1>0, <1>3 DEF LookupMisses, TypeOK, Reading, judge
<1>4. ASSUME NEW t \in Template, Evict(t) PROVE Rest
  BY <1>0, <1>4 DEF Evict, TypeOK, judge, engine
<1>5. ASSUME LookupReads PROVE Rest
  <2>1. PICK found \in ReadLatest(reader.template) :
          reader' = [reader EXCEPT !.step = "answer", !.found = found]
    BY <1>5 DEF LookupReads
  <2>2. reader \in Reading
    BY <1>0, <1>5 DEF TypeOK, LookupReads
  <2>3. found \in Verdict \union {Null}
    BY <1>0, <2>1, <2>2, RowsAreVerdicts DEF Reading
  <2>4. reader' \in Reading
    BY <2>1, <2>2, <2>3 DEF Reading
  <2> QED BY <1>0, <1>5, <2>4 DEF LookupReads, TypeOK, judge
<1>6. ASSUME LookupFills PROVE Rest
  <2>1. reader \in Reading
    BY <1>0, <1>6 DEF TypeOK, LookupFills
  <2>2. moka' \in [Template -> Verdict \union {Null}]
    BY <1>0, <1>6, <2>1 DEF LookupFills, TypeOK, Reading
  <2> QED BY <1>0, <1>6, <2>2 DEF LookupFills, TypeOK, judge
<1>7. ASSUME LookupEnqueues PROVE Rest
  <2>1. reader.template \in Template
    BY <1>0, <1>7 DEF TypeOK, LookupEnqueues, Reading
  <2> QED BY <1>0, <1>7, <2>1 DEF LookupEnqueues, TypeOK
<1>8. ASSUME TakeNotice PROVE Rest
  BY <1>0, <1>8 DEF TakeNotice, TypeOK, judge
<1>9. ASSUME TakeJob PROVE Rest
  <2>1. queue \in Seq(Template) /\ queue # <<>>
    BY <1>0, <1>9 DEF TypeOK, TakeJob
  <2>2. Head(queue) \in Template /\ Tail(queue) \in Seq(Template)
    BY <2>1
  <2> QED BY <1>0, <1>9, <2>2 DEF TakeJob, TypeOK, Steps, engine
<1>10. ASSUME FindsJudged PROVE Rest
  <2>1. loop.template \in Template
    BY <1>0, <1>10 DEF TypeOK, FindsJudged, Steps
  <2>2. moka' \in [Template -> Verdict \union {Null}]
    <3>1. CASE UNCHANGED moka
      BY <1>0, <3>1 DEF TypeOK
    <3>2. CASE \E v \in ReadLatest(loop.template) \ {Null} : moka' = [moka EXCEPT ![loop.template] = v]
      BY <1>0, <2>1, <3>2, RowsAreVerdicts DEF TypeOK
    <3> QED BY <1>10, <3>1, <3>2 DEF FindsJudged
  <2> QED BY <1>0, <1>10, <2>2 DEF FindsJudged, TypeOK, engine
<1>11. ASSUME NeedsCall PROVE Rest
  <2>1. loop' \in Steps
    BY <1>0, <1>11 DEF NeedsCall, TypeOK, Steps
  <2> QED BY <1>0, <1>11, <2>1 DEF NeedsCall, TypeOK, engine
<1>12. Rest
  BY <1>3, <1>4, <1>5, <1>6, <1>7, <1>8, <1>9, <1>10, <1>11 DEF VerdictFor
<1> QED BY <1>1, <1>2, <1>12 DEF Typed, TypeOK

\* The tasks, from Spawn to Release, and what restarts and contextual checks do.
LEMMA JudgeOneKeepsTyped ==
  ASSUME Typed, NEW s \in Slot, JudgeOne(s)
  PROVE  Typed'
<1>0. /\ TypeOK /\ TasksOK /\ AnswersAreKnown
      /\ UNCHANGED <<bundle, restarts, queue, loop, reader, waiting>>
      /\ \A r \in Slot : tasks[r] # Null => tasks[r] \in Task
  <2>1. UNCHANGED <<bundle, restarts, queue, loop, reader, waiting>>
    BY DEF JudgeOne, CallFails, CallAnswers, WriteRecord, WriteIndex, WriteVerdict, FillCache,
           Notify, Release, durable, engine
  <2> QED BY <2>1 DEF Typed, TypeOK, TasksOK
<1>1. /\ bundle' \in Bundle /\ restarts' \in 0 .. MaxRestarts
      /\ queue' \in Seq(Template) /\ loop' \in Steps \union {Null}
      /\ reader' \in Reading \union {Null} /\ waiting' \subseteq Template
  BY <1>0 DEF TypeOK
<1> DEFINE Rest == /\ verdicts' \subseteq Verdict
                   /\ records' \subseteq DecisionRecord
                   /\ index' \subseteq RecordId
                   /\ lastId' \in 0 .. MaxRecords
                   /\ moka' \in [Template -> Verdict \union {Null}]
                   /\ inFlight' \subseteq Template
                   /\ notices' \in Seq(Template)
           Sticks == \A r \in Slot : Past(r, {"record", "index", "verdict", "cache", "notify"})'
                       => tasks'[r].model \in Model /\ tasks'[r].id \in RecordId
\* A step that moves its task to a phase it knows its answer in.
<1>2. ASSUME tasks[s] # Null, NEW phase \in Phase, Goes(s, phase),
             phase = "done" \/ Past(s, {"record", "index", "verdict", "cache", "notify"})
      PROVE  TasksOK' /\ Sticks
  BY <1>0, <1>2, GoesKeepsTask DEF AnswersAreKnown, Past
<1>3. ASSUME CallFails(s) PROVE Rest /\ TasksOK' /\ Sticks
  <2>1. Rest
    BY <1>0, <1>3 DEF CallFails, TypeOK, durable, engine
  <2> QED BY <1>2, <1>3, <2>1 DEF CallFails, At, Phase
<1>4. ASSUME CallAnswers(s) PROVE Rest /\ TasksOK' /\ Sticks
  <2>1. lastId + 1 \in RecordId /\ lastId' \in 0 .. MaxRecords
    BY <1>0, <1>4, JudgeAssumption DEF CallAnswers, TypeOK, RecordId
  <2>2. PICK m \in Model :
          tasks' = [tasks EXCEPT ![s] = [@ EXCEPT !.phase = "record", !.model = m, !.id = lastId + 1]]
    BY <1>4 DEF CallAnswers
  <2>3. tasks[s] \in Task
    BY <1>0, <1>4 DEF CallAnswers, At
  <2>4. [tasks[s] EXCEPT !.phase = "record", !.model = m, !.id = lastId + 1] \in Task
    BY <2>1, <2>3 DEF Task, Phase
  <2>5. TasksOK' /\ tasks'[s].model = m /\ tasks'[s].id = lastId + 1
        /\ \A r \in Slot : r # s => tasks'[r] = tasks[r]
    BY <1>0, <2>2, <2>3, <2>4 DEF TasksOK, Task
  <2>6. Sticks
    BY <1>0, <2>1, <2>5 DEF AnswersAreKnown, Past
  <2> QED BY <1>0, <1>4, <2>1, <2>5, <2>6 DEF CallAnswers, TypeOK, engine
<1>5. ASSUME WriteRecord(s) PROVE Rest /\ TasksOK' /\ Sticks
  <2>1. RecordOf(tasks[s]) \in DecisionRecord
    BY <1>0, <1>5 DEF WriteRecord, At, AnswersAreKnown, Past, RecordOf, DecisionRecord, Task
  <2>2. Rest
    BY <1>0, <1>5, <2>1 DEF WriteRecord, TypeOK, engine
  <2> QED BY <1>2, <1>5, <2>2 DEF WriteRecord, At, Past, Phase
<1>6. ASSUME WriteIndex(s) PROVE Rest /\ TasksOK' /\ Sticks
  <2>1. tasks[s].id \in RecordId
    BY <1>0, <1>6 DEF WriteIndex, At, AnswersAreKnown, Past
  <2>2. Rest
    BY <1>0, <1>6, <2>1 DEF WriteIndex, TypeOK, engine
  <2> QED BY <1>2, <1>6, <2>2 DEF WriteIndex, At, Past, Phase
<1>7. ASSUME WriteVerdict(s) PROVE Rest /\ TasksOK' /\ Sticks
  <2>1. VerdictOf(tasks[s]) \in Verdict
    BY <1>0, <1>7 DEF WriteVerdict, At, AnswersAreKnown, Past, VerdictOf, Verdict, Task, TypeOK
  <2>2. Rest
    BY <1>0, <1>7, <2>1 DEF WriteVerdict, TypeOK, engine
  <2> QED BY <1>2, <1>7, <2>2 DEF WriteVerdict, At, Past, Phase
<1>8. ASSUME FillCache(s) PROVE Rest /\ TasksOK' /\ Sticks
  <2>1. VerdictOf(tasks[s]) \in Verdict
    BY <1>0, <1>8 DEF FillCache, At, AnswersAreKnown, Past, VerdictOf, Verdict, Task, TypeOK
  <2>2. Rest
    BY <1>0, <1>8, <2>1 DEF FillCache, TypeOK, durable, engine
  <2> QED BY <1>2, <1>8, <2>2 DEF FillCache, At, Past, Phase
<1>9. ASSUME Notify(s) PROVE Rest /\ TasksOK' /\ Sticks
  <2>1. tasks[s].template \in Template
    BY <1>0, <1>9 DEF Notify, At, Task
  <2>2. Rest
    BY <1>0, <1>9, <2>1 DEF Notify, TypeOK, durable
  <2> QED BY <1>2, <1>9, <2>2 DEF Notify, At, Past, Phase
<1>10. ASSUME Release(s) PROVE Rest /\ TasksOK' /\ Sticks
  <2>1. Rest
    BY <1>0, <1>10 DEF Release, TypeOK, durable, engine
  <2>2. tasks' = [tasks EXCEPT ![s] = Null]
    BY <1>10 DEF Release
  <2>3. TasksOK' /\ Sticks
    BY <1>0, <2>2 DEF TasksOK, AnswersAreKnown, Past
  <2> QED BY <2>1, <2>3
<1>11. Rest /\ TasksOK' /\ Sticks
  <2> HIDE DEF Rest, Sticks
  <2> QED BY <1>3, <1>4, <1>5, <1>6, <1>7, <1>8, <1>9, <1>10 DEF JudgeOne
<1> QED BY <1>1, <1>11 DEF Typed, TypeOK, TasksOK, AnswersAreKnown

LEMMA SpawnKeepsTyped ==
  ASSUME Typed, NEW s \in Slot, Spawn(s)
  PROVE  Typed'
<1>1. loop \in Steps /\ TypeOK /\ AnswersAreKnown
  BY DEF Typed, TypeOK, Spawn
<1> DEFINE task == [template |-> loop.template, phase |-> "calling", model |-> Null, id |-> Null]
<1>2. task \in Task
  BY <1>1 DEF Task, Steps, Phase
<1>3. tasks' = [tasks EXCEPT ![s] = task]
  BY DEF Spawn
<1>4. tasks' \in [Slot -> Task \union {Null}]
  BY <1>1, <1>2, <1>3 DEF TypeOK
<1>5. \A r \in Slot : r # s => tasks'[r] = tasks[r]
  BY <1>1, <1>3 DEF TypeOK
<1>6. tasks'[s].phase = "calling"
  BY <1>1, <1>3 DEF TypeOK
<1>7. AnswersAreKnown'
  BY <1>1, <1>5, <1>6 DEF AnswersAreKnown, Past
<1>8. TypeOK'
  BY <1>1, <1>4 DEF TypeOK, Spawn, durable, engine
<1> QED BY <1>7, <1>8 DEF Typed

LEMMA SaveRecordKeepsTyped ==
  ASSUME Typed, NEW t \in Template, NEW m \in Model, SaveRecord(t, m)
  PROVE  Typed'
<1>1. lastId + 1 \in RecordId /\ lastId' \in 0 .. MaxRecords /\ TypeOK
  BY JudgeAssumption DEF Typed, TypeOK, RecordId, SaveRecord
<1>2. [template |-> t, model |-> m, id |-> lastId + 1] \in DecisionRecord
  BY <1>1 DEF DecisionRecord
<1>3. TypeOK'
  BY <1>1, <1>2 DEF TypeOK, SaveRecord, judge, engine
<1>4. AnswersAreKnown'
  BY DEF Typed, AnswersAreKnown, Past, SaveRecord, judge
<1> QED BY <1>3, <1>4 DEF Typed

LEMMA RestartKeepsTyped ==
  ASSUME Typed, NEW b \in Bundle, Restart(b)
  PROVE  Typed'
<1>1. TypeOK'
  BY JudgeAssumption DEF Typed, TypeOK, Restart
<1>2. AnswersAreKnown'
  BY DEF AnswersAreKnown, Past, Restart
<1> QED BY <1>1, <1>2 DEF Typed

LEMMA StutterKeepsTyped ==
  ASSUME Typed, UNCHANGED vars
  PROVE  Typed'
<1>1. TypeOK'
  BY DEF Typed, TypeOK, vars, durable, judge, engine
<1>2. AnswersAreKnown'
  BY DEF Typed, AnswersAreKnown, Past, vars, judge
<1> QED BY <1>1, <1>2 DEF Typed

-----------------------------------------------------------------------------
(* One call per template.                                                  *)

\* Nobody takes or lets go of a template.
SameHands ==
  /\ inFlight' = inFlight
  /\ loop' # Null <=> loop # Null
  /\ loop # Null => loop'.template = loop.template
  /\ \A s \in Slot : /\ tasks'[s] # Null <=> tasks[s] # Null
                     /\ tasks[s] # Null => tasks'[s].template = tasks[s].template

LEMMA SameHandsKeepInFlight ==
  ASSUME InFlightIsWorked, SameHands
  PROVE  InFlightIsWorked'
  BY DEF InFlightIsWorked, SameHands

\* A task that moves keeps its template in hand.
LEMMA MovesKeepHands ==
  ASSUME Typed, NEW s \in Slot, JudgeOne(s), ~Release(s)
  PROVE  SameHands
<1>1. TasksOK /\ UNCHANGED <<loop, inFlight>>
  BY DEF Typed, TypeOK, TasksOK, JudgeOne, CallFails, CallAnswers, WriteRecord, WriteIndex,
         WriteVerdict, FillCache, Notify
<1>2. tasks[s] # Null
  BY DEF JudgeOne, CallFails, CallAnswers, WriteRecord, WriteIndex, WriteVerdict, FillCache,
         Notify, At
<1>3. CASE \E phase \in Phase : Goes(s, phase)
  BY <1>1, <1>2, <1>3, GoesKeepsTask DEF SameHands
<1>4. CASE CallAnswers(s)
  <2>1. PICK m \in Model :
          tasks' = [tasks EXCEPT ![s] = [@ EXCEPT !.phase = "record", !.model = m, !.id = lastId + 1]]
    BY <1>4 DEF CallAnswers
  <2>2. tasks[s] \in Task
    BY <1>1, <1>2 DEF TasksOK
  <2>3. tasks'[s] = [tasks[s] EXCEPT !.phase = "record", !.model = m, !.id = lastId + 1]
        /\ \A r \in Slot : r # s => tasks'[r] = tasks[r]
    BY <1>1, <2>1 DEF TasksOK
  <2>4. tasks'[s].template = tasks[s].template
    BY <2>2, <2>3 DEF Task
  <2>5. tasks'[s] # Null
    <3>1. Typed'
      BY JudgeOneKeepsTyped
    <3>2. tasks'[s].phase = "record"
      BY <2>2, <2>3 DEF Task
    <3>3. lastId + 1 \in RecordId
      BY <1>4, JudgeAssumption DEF CallAnswers, Typed, TypeOK, RecordId
    <3>4. tasks'[s] \in Task
      BY <2>2, <2>3, <3>3 DEF Task, Phase
    <3> QED BY <3>4, NullIsApart
  <2> QED BY <1>1, <1>2, <2>3, <2>4, <2>5 DEF SameHands
<1>5. "done" \in Phase /\ "index" \in Phase /\ "verdict" \in Phase /\ "cache" \in Phase
      /\ "notify" \in Phase
  BY DEF Phase
<1>6. CASE CallFails(s) \/ WriteRecord(s) \/ WriteIndex(s) \/ WriteVerdict(s) \/ FillCache(s) \/ Notify(s)
  <2>1. \E phase \in Phase : Goes(s, phase)
    BY <1>5, <1>6 DEF CallFails, WriteRecord, WriteIndex, WriteVerdict, FillCache, Notify
  <2> QED BY <1>3, <2>1
<1> QED BY <1>4, <1>6 DEF JudgeOne

LEMMA NextKeepsInFlight ==
  ASSUME Typed, InFlightIsWorked, [Next]_vars
  PROVE  InFlightIsWorked'
<1>0. TypeOK /\ TasksOK
  BY DEF Typed, TypeOK, TasksOK
<1>1. ASSUME UNCHANGED <<loop, inFlight, tasks>> PROVE InFlightIsWorked'
  BY <1>1, SameHandsKeepInFlight DEF SameHands
<1>2. ASSUME TakeJob PROVE InFlightIsWorked'
  <2>1. CASE Head(queue) \in inFlight
    BY <1>1, <1>2, <2>1 DEF TakeJob
  <2>2. CASE Head(queue) \notin inFlight
    <3>1. /\ inFlight' = inFlight \union {Head(queue)}
          /\ loop = Null
          /\ loop' = [template |-> Head(queue), step |-> "check"]
          /\ tasks' = tasks
      BY <1>2, <2>2 DEF TakeJob
    <3>2. queue \in Seq(Template) /\ queue # <<>>
      BY <1>0, <1>2 DEF TypeOK, TakeJob
    <3>3. Head(queue) \in Template
      BY <3>2
    <3>4. loop' # Null
      BY <3>1, <3>3, NullIsApart DEF Steps
    <3> QED BY <2>2, <3>1, <3>4 DEF InFlightIsWorked
  <2> QED BY <2>1, <2>2
<1>3. ASSUME FindsJudged PROVE InFlightIsWorked'
  BY <1>3 DEF FindsJudged, InFlightIsWorked
<1>4. ASSUME NeedsCall PROVE InFlightIsWorked'
  <2>1. loop \in Steps /\ loop' = [loop EXCEPT !.step = "permit"] /\ UNCHANGED <<tasks, inFlight>>
    BY <1>0, <1>4 DEF NeedsCall, TypeOK
  <2>2. loop' \in Steps /\ loop'.template = loop.template
    BY <2>1 DEF Steps
  <2> QED BY <2>1, <2>2, NullIsApart, SameHandsKeepInFlight DEF SameHands
<1>5. ASSUME NEW s \in Slot, Spawn(s) PROVE InFlightIsWorked'
  <2> DEFINE task == [template |-> loop.template, phase |-> "calling", model |-> Null, id |-> Null]
  <2>1. loop # Null /\ loop' = Null /\ inFlight' = inFlight /\ tasks[s] = Null
        /\ tasks' = [tasks EXCEPT ![s] = task]
    BY <1>5 DEF Spawn
  <2>2. task \in Task
    BY <1>0, <2>1 DEF TypeOK, Steps, Task, Phase
  <2>3. tasks'[s] = task /\ tasks'[s] # Null /\ \A r \in Slot : r # s => tasks'[r] = tasks[r]
    BY <1>0, <2>1, <2>2, NullIsApart DEF TasksOK
  <2>4. tasks'[s].template = loop.template
    BY <2>3
  <2> HIDE DEF task
  <2> QED BY <2>1, <2>3, <2>4 DEF InFlightIsWorked
<1>6. ASSUME NEW s \in Slot, JudgeOne(s) PROVE InFlightIsWorked'
  <2>1. CASE Release(s)
    <3>1. tasks[s] # Null /\ inFlight' = inFlight \ {tasks[s].template} /\ loop' = loop
          /\ tasks' = [tasks EXCEPT ![s] = Null]
      BY <2>1 DEF Release, At
    <3>2. tasks'[s] = Null /\ \A r \in Slot : r # s => tasks'[r] = tasks[r]
      BY <1>0, <3>1 DEF TasksOK
    <3> QED BY <3>1, <3>2 DEF InFlightIsWorked
  <2>2. CASE ~Release(s)
    BY <1>6, <2>2, MovesKeepHands, SameHandsKeepInFlight
  <2> QED BY <2>1, <2>2
<1>7. ASSUME NEW b \in Bundle, Restart(b) PROVE InFlightIsWorked'
  BY <1>7 DEF Restart, InFlightIsWorked
<1>8. ASSUME NEW t \in Template, LookupMisses(t) \/ Evict(t) PROVE InFlightIsWorked'
  BY <1>1, <1>8 DEF LookupMisses, Evict, judge
<1>9. ASSUME VerdictFor \/ TakeNotice PROVE InFlightIsWorked'
  BY <1>1, <1>9 DEF VerdictFor, LookupReads, LookupFills, LookupEnqueues, TakeNotice, judge
<1>10. ASSUME NEW t \in Template, NEW m \in Model, SaveRecord(t, m) PROVE InFlightIsWorked'
  BY <1>1, <1>10 DEF SaveRecord, judge
<1>11. ASSUME UNCHANGED vars PROVE InFlightIsWorked'
  BY <1>1, <1>11 DEF vars, judge
<1> QED
  BY <1>2, <1>3, <1>4, <1>5, <1>6, <1>7, <1>8, <1>9, <1>10, <1>11 DEF Next, JudgeLoop

-----------------------------------------------------------------------------
(* Nothing is served without its record.                                   *)

Provenance == EveryVerdictHasARecord /\ RecordedFirst

\* Steps that serve nothing new and move no task forward.
LEMMA BystanderKeepsProvenance ==
  ASSUME Provenance,
         records \subseteq records', verdicts' \subseteq verdicts,
         \A t \in Template : moka'[t] \in {moka[t], Null},
         reader' \in {reader, Null} \/ (reader' # Null /\ reader'.found = Null),
         \A s \in Slot : tasks'[s] = tasks[s] \/ ~Past(s, {"index", "verdict", "cache", "notify"})'
  PROVE  Provenance'
<1>1. EveryVerdictHasARecord'
  BY DEF Provenance, EveryVerdictHasARecord
<1>2. RecordedFirst'
  BY DEF Provenance, RecordedFirst, Past, RecordOf
<1> QED BY <1>1, <1>2 DEF Provenance

\* A task that goes on past its record.
LEMMA GoesKeepsRecorded ==
  ASSUME Typed, RecordedFirst, NEW s \in Slot, tasks[s] # Null, NEW phase \in Phase, Goes(s, phase),
         records \subseteq records',
         phase = "done" \/ RecordOf(tasks[s]) \in records'
  PROVE  RecordedFirst'
<1>1. TasksOK
  BY DEF Typed, TypeOK, TasksOK
<1> QED BY <1>1, GoesKeepsTask DEF RecordedFirst, Past, RecordOf

LEMMA JudgeOneKeepsProvenance ==
  ASSUME Typed, Provenance, NEW s \in Slot, JudgeOne(s)
  PROVE  Provenance'
<1>0. TypeOK /\ TasksOK /\ RecordedFirst /\ EveryVerdictHasARecord
  BY DEF Typed, TypeOK, TasksOK, Provenance
<1>1. ASSUME CallFails(s) PROVE Provenance'
  <2>1. RecordedFirst'
    BY <1>0, <1>1, GoesKeepsRecorded DEF CallFails, At, durable, Phase
  <2> QED BY <1>0, <1>1, <2>1 DEF CallFails, Provenance, EveryVerdictHasARecord, durable, engine
<1>2. ASSUME CallAnswers(s) PROVE Provenance'
  <2>1. PICK m \in Model :
          tasks' = [tasks EXCEPT ![s] = [@ EXCEPT !.phase = "record", !.model = m, !.id = lastId + 1]]
    BY <1>2 DEF CallAnswers
  <2>2. tasks[s] \in Task
    BY <1>0, <1>2 DEF CallAnswers, At, TasksOK
  <2>3. tasks'[s] = [tasks[s] EXCEPT !.phase = "record", !.model = m, !.id = lastId + 1]
        /\ \A r \in Slot : r # s => tasks'[r] = tasks[r]
    BY <1>0, <2>1 DEF TasksOK
  <2>4. tasks'[s].phase = "record"
    BY <2>2, <2>3 DEF Task
  <2> QED BY <1>2, <2>3, <2>4, BystanderKeepsProvenance DEF CallAnswers, Past, engine
<1>3. ASSUME WriteRecord(s) PROVE Provenance'
  <2>1. tasks[s] # Null /\ records \subseteq records'
        /\ UNCHANGED <<verdicts, moka, reader>>
        /\ \/ RecordOf(tasks[s]) \in records' /\ Goes(s, "index")
           \/ Goes(s, "done")
    BY <1>3 DEF WriteRecord, At, engine
  <2>2. RecordedFirst'
    BY <1>0, <2>1, GoesKeepsRecorded DEF Phase
  <2> QED BY <1>0, <2>1, <2>2 DEF Provenance, EveryVerdictHasARecord
<1>4. ASSUME WriteIndex(s) PROVE Provenance'
  <2>1. tasks[s] # Null /\ RecordOf(tasks[s]) \in records /\ Goes(s, "verdict")
        /\ UNCHANGED <<records, verdicts, moka, reader>>
    BY <1>0, <1>4 DEF WriteIndex, At, engine, RecordedFirst, Past
  <2>2. RecordedFirst'
    BY <1>0, <2>1, GoesKeepsRecorded DEF Phase
  <2> QED BY <1>0, <2>1, <2>2 DEF Provenance, EveryVerdictHasARecord
<1>5. ASSUME WriteVerdict(s) PROVE Provenance'
  <2>1. tasks[s] # Null /\ RecordOf(tasks[s]) \in records
        /\ (Goes(s, "cache") \/ Goes(s, "done"))
        /\ UNCHANGED <<records, moka, reader>>
        /\ verdicts' \subseteq verdicts \union {VerdictOf(tasks[s])}
    BY <1>0, <1>5 DEF WriteVerdict, At, engine, RecordedFirst, Past
  <2>2. RecordedFirst'
    BY <1>0, <2>1, GoesKeepsRecorded DEF Phase
  <2> QED BY <1>0, <2>1, <2>2 DEF Provenance, EveryVerdictHasARecord, VerdictOf, RecordOf
<1>6. ASSUME FillCache(s) PROVE Provenance'
  <2>1. tasks[s] # Null /\ RecordOf(tasks[s]) \in records /\ Goes(s, "notify")
        /\ UNCHANGED <<records, verdicts, reader>>
        /\ moka' = [moka EXCEPT ![tasks[s].template] = VerdictOf(tasks[s])]
    BY <1>0, <1>6 DEF FillCache, At, durable, engine, RecordedFirst, Past
  <2>2. RecordedFirst'
    BY <1>0, <2>1, GoesKeepsRecorded DEF Phase
  <2>3. \A t \in Template : moka'[t] = moka[t] \/ (t = tasks[s].template /\ moka'[t] = VerdictOf(tasks[s]))
    BY <1>0, <2>1 DEF TypeOK
  <2> QED BY <1>0, <2>1, <2>2, <2>3 DEF Provenance, EveryVerdictHasARecord, VerdictOf, RecordOf
<1>7. ASSUME Notify(s) PROVE Provenance'
  <2>1. RecordedFirst'
    BY <1>0, <1>7, GoesKeepsRecorded DEF Notify, At, durable, Phase
  <2> QED BY <1>0, <1>7, <2>1 DEF Notify, Provenance, EveryVerdictHasARecord, durable
<1>8. ASSUME Release(s) PROVE Provenance'
  <2>1. tasks'[s] = Null /\ \A r \in Slot : r # s => tasks'[r] = tasks[r]
    BY <1>0, <1>8 DEF Release, TasksOK
  <2> QED BY <1>8, <2>1, BystanderKeepsProvenance DEF Release, Past, durable, engine
<1> QED BY <1>1, <1>2, <1>3, <1>4, <1>5, <1>6, <1>7, <1>8 DEF JudgeOne

LEMMA NextKeepsProvenance ==
  ASSUME Typed, Provenance, [Next]_vars
  PROVE  Provenance'
<1>0. TypeOK /\ TasksOK /\ EveryVerdictHasARecord /\ RecordedFirst
  BY DEF Typed, TypeOK, TasksOK, Provenance
<1>1. ASSUME NEW t \in Template, LookupMisses(t) PROVE Provenance'
  <2>1. reader'.found = Null /\ reader' # Null
    BY <1>1, NullIsApart DEF LookupMisses, Reading
  <2> QED BY <1>1, <2>1, BystanderKeepsProvenance DEF LookupMisses, durable, judge
<1>2. ASSUME NEW t \in Template, Evict(t) PROVE Provenance'
  <2>1. \A x \in Template : moka'[x] \in {moka[x], Null}
    BY <1>0, <1>2 DEF Evict, TypeOK
  <2> QED BY <1>2, <2>1, BystanderKeepsProvenance DEF Evict, durable, judge, engine
<1>3. ASSUME LookupReads PROVE Provenance'
  <2>1. PICK found \in ReadLatest(reader.template) :
          reader' = [reader EXCEPT !.step = "answer", !.found = found]
    BY <1>3 DEF LookupReads
  <2>2. reader \in Reading
    BY <1>0, <1>3 DEF TypeOK, LookupReads
  <2>3. reader'.template = reader.template /\ reader'.found = found /\ reader.template \in Template
    BY <2>1, <2>2 DEF Reading
  <2>4. found # Null => found \in verdicts /\ found.template = reader.template
    BY <1>0, <2>1, <2>3, RowsAreVerdicts
  <2>5. UNCHANGED <<verdicts, records, moka, tasks>>
    BY <1>3 DEF LookupReads, durable, judge
  <2>6. EveryVerdictHasARecord'
    BY <1>0, <2>3, <2>4, <2>5 DEF EveryVerdictHasARecord
  <2> QED BY <1>0, <2>5, <2>6 DEF Provenance, RecordedFirst, Past, RecordOf
<1>4. ASSUME LookupFills PROVE Provenance'
  <2>1. UNCHANGED <<verdicts, records, tasks>> /\ reader' = Null /\ reader # Null /\ reader.found # Null
        /\ moka' = [moka EXCEPT ![reader.template] = reader.found]
    BY <1>4 DEF LookupFills, durable, judge
  <2>2. \A x \in Template : moka'[x] = moka[x] \/ (x = reader.template /\ moka'[x] = reader.found)
    BY <1>0, <2>1 DEF TypeOK
  <2>3. EveryVerdictHasARecord'
    BY <1>0, <2>1, <2>2 DEF EveryVerdictHasARecord
  <2> QED BY <1>0, <2>1, <2>3 DEF Provenance, RecordedFirst, Past, RecordOf
<1>5. ASSUME LookupEnqueues PROVE Provenance'
  BY <1>5, BystanderKeepsProvenance DEF LookupEnqueues, durable
<1>6. ASSUME TakeNotice \/ TakeJob \/ NeedsCall PROVE Provenance'
  BY <1>6, BystanderKeepsProvenance DEF TakeNotice, TakeJob, NeedsCall, durable, judge, engine
<1>7. ASSUME FindsJudged PROVE Provenance'
  <2>1. UNCHANGED <<verdicts, records, tasks, reader>> /\ loop.template \in Template
    BY <1>0, <1>7 DEF FindsJudged, durable, engine, TypeOK, Steps
  <2>2. CASE UNCHANGED moka
    BY <2>1, <2>2, BystanderKeepsProvenance
  <2>3. CASE \E v \in ReadLatest(loop.template) \ {Null} : moka' = [moka EXCEPT ![loop.template] = v]
    <3>1. PICK v \in ReadLatest(loop.template) \ {Null} : moka' = [moka EXCEPT ![loop.template] = v]
      BY <2>3
    <3>2. v \in verdicts /\ v.template = loop.template
      BY <1>0, <2>1, RowsAreVerdicts
    <3>3. \A x \in Template : moka'[x] = moka[x] \/ (x = loop.template /\ moka'[x] = v)
      BY <1>0, <3>1 DEF TypeOK
    <3>4. EveryVerdictHasARecord'
      BY <1>0, <2>1, <3>2, <3>3 DEF EveryVerdictHasARecord
    <3> QED BY <1>0, <2>1, <3>4 DEF Provenance, RecordedFirst, Past, RecordOf
  <2> QED BY <1>7, <2>2, <2>3 DEF FindsJudged
<1>8. ASSUME NEW s \in Slot, Spawn(s) PROVE Provenance'
  <2>1. tasks'[s].phase = "calling" /\ \A r \in Slot : r # s => tasks'[r] = tasks[r]
    BY <1>0, <1>8 DEF Spawn, TasksOK
  <2> QED BY <1>8, <2>1, BystanderKeepsProvenance DEF Spawn, Past, durable, engine
<1>9. ASSUME NEW t \in Template, NEW m \in Model, SaveRecord(t, m) PROVE Provenance'
  BY <1>9, BystanderKeepsProvenance DEF SaveRecord, judge, engine
<1>10. ASSUME NEW b \in Bundle, Restart(b) PROVE Provenance'
  BY <1>10, BystanderKeepsProvenance DEF Restart, Past
<1>11. ASSUME UNCHANGED vars PROVE Provenance'
  BY <1>11, BystanderKeepsProvenance DEF vars, durable, judge, engine
<1>12. ASSUME NEW s \in Slot, JudgeOne(s) PROVE Provenance'
  BY <1>12, JudgeOneKeepsProvenance
<1> QED
  BY <1>1, <1>2, <1>3, <1>4, <1>5, <1>6, <1>7, <1>8, <1>9, <1>10, <1>11, <1>12
     DEF Next, JudgeLoop, VerdictFor

-----------------------------------------------------------------------------
(* The store and the cache agree, when reads do not fail.                  *)

Fresh == OneRow /\ OnlyUnjudgedInHand /\ ServedAreRows

BeforeRow == {"calling", "record", "index", "verdict"}

\* The rows and the verdict of a task after the step.
NewRows(t) == {v \in verdicts' : v.template = t /\ v.bundle = bundle'}

NewVerdictOf(task) ==
  [template |-> task.template, bundle |-> bundle', model |-> task.model, id |-> task.id]

\* Steps that leave the verdicts alone, serve only rows and take in hand only
\* templates without one.
LEMMA BystanderKeepsFresh ==
  ASSUME Fresh, UNCHANGED <<verdicts, bundle>>,
         loop' \in {loop, Null} \/ loop'.step # "permit" \/ Rows(loop'.template) = {},
         \A s \in Slot : \/ tasks'[s] = tasks[s]
                         \/ ~Past(s, BeforeRow \union {"cache"})'
                         \/ tasks'[s].phase # "cache" /\ Rows(tasks'[s].template) = {},
         \A t \in Template : moka'[t] \in {moka[t], Null} \union Rows(t),
         \/ reader' \in {reader, Null}
         \/ reader'.found = Null
         \/ reader'.found \in Rows(reader'.template)
  PROVE  Fresh'
<1>1. OneRow'
  BY DEF Fresh, OneRow
<1>2. /\ \A t : NewRows(t) = Rows(t)
      /\ \A task : NewVerdictOf(task) = VerdictOf(task)
  BY DEF Rows, NewRows, VerdictOf, NewVerdictOf
<1>3. OnlyUnjudgedInHand'
  <2>1. (loop' # Null /\ loop'.step = "permit") => Rows(loop'.template) = {}
    BY DEF Fresh, OnlyUnjudgedInHand
  <2>2. ASSUME NEW s \in Slot, Past(s, BeforeRow)' PROVE Rows(tasks'[s].template) = {}
    BY <2>2 DEF Fresh, OnlyUnjudgedInHand, Past, BeforeRow
  <2>3. \A s \in Slot : Past(s, {"calling", "record", "index", "verdict"})' => Rows(tasks'[s].template) = {}
    BY <2>2 DEF BeforeRow
  <2> QED BY <1>2, <2>1, <2>3 DEF OnlyUnjudgedInHand, Rows, NewRows
<1>4. ServedAreRows'
  <2>1. \A t \in Template : moka'[t] # Null => moka'[t] \in Rows(t)
    BY DEF Fresh, ServedAreRows
  <2>2. (reader' # Null /\ reader'.found # Null) => reader'.found \in Rows(reader'.template)
    BY DEF Fresh, ServedAreRows
  <2>3. ASSUME NEW s \in Slot, Past(s, {"cache"})'
        PROVE  VerdictOf(tasks'[s]) \in Rows(tasks'[s].template)
    BY <2>3 DEF Fresh, ServedAreRows, Past
  <2>4. /\ \A t \in Template : moka'[t] # Null => moka'[t] \in NewRows(t)
        /\ (reader' # Null /\ reader'.found # Null) => reader'.found \in NewRows(reader'.template)
        /\ \A s \in Slot : Past(s, {"cache"})' => NewVerdictOf(tasks'[s]) \in NewRows(tasks'[s].template)
    BY <1>2, <2>1, <2>2, <2>3
  <2> QED BY <2>4 DEF ServedAreRows, VerdictOf, NewVerdictOf, Rows, NewRows
<1> QED BY <1>1, <1>3, <1>4 DEF Fresh

\* A task that goes on, its verdict neither due nor written in this step.
LEMMA GoesKeepsFresh ==
  ASSUME Typed, Fresh, UNCHANGED <<verdicts, bundle, loop, reader>>,
         NEW s \in Slot, NEW phase \in Phase, tasks[s] # Null, Goes(s, phase),
         \/ phase \in {"notify", "done"}
         \/ phase \in {"index", "verdict"} /\ Past(s, BeforeRow),
         \A t \in Template : moka'[t] \in {moka[t], Null} \union Rows(t)
  PROVE  Fresh'
<1>1. TasksOK
  BY DEF Typed, TypeOK, TasksOK
<1>2. \A r \in Slot : r # s => tasks'[r] = tasks[r]
  BY <1>1, GoesKeepsTask
<1>3. tasks'[s].phase = phase /\ tasks'[s].template = tasks[s].template
  BY <1>1, GoesKeepsTask
<1>4. Past(s, BeforeRow) => Rows(tasks[s].template) = {}
  BY DEF Fresh, OnlyUnjudgedInHand, BeforeRow
<1>5. ~Past(s, BeforeRow \union {"cache"})' \/ (tasks'[s].phase # "cache" /\ Rows(tasks'[s].template) = {})
  BY <1>3, <1>4 DEF Past, BeforeRow
<1> QED BY <1>2, <1>5, BystanderKeepsFresh

\* The verdict is written: the first row of its template under this bundle.
LEMMA VerdictKeepsFresh ==
  ASSUME Typed, InFlightIsWorked, Fresh, NEW s \in Slot, At(s, "verdict"), Goes(s, "cache"),
         UNCHANGED <<bundle, loop, reader, moka>>,
         verdicts' = {w \in verdicts : [w EXCEPT !.id = VerdictOf(tasks[s]).id] # VerdictOf(tasks[s])}
                       \union {VerdictOf(tasks[s])}
  PROVE  Fresh'
<1> DEFINE v == VerdictOf(tasks[s])
<1>0. TypeOK /\ TasksOK /\ tasks[s] # Null /\ tasks[s] \in Task /\ verdicts \subseteq Verdict
  BY DEF Typed, TypeOK, TasksOK, At
<1>1. v.template = tasks[s].template /\ v.bundle = bundle /\ v.model = tasks[s].model /\ v.id = tasks[s].id
  BY DEF VerdictOf
<1>2. Rows(v.template) = {}
  BY <1>1 DEF Fresh, OnlyUnjudgedInHand, Past, At
<1>3. \A w \in verdicts : w.template # v.template \/ w.bundle # bundle
  BY <1>2 DEF Rows
<1>4. verdicts' = verdicts \union {v}
  <2>1. ASSUME NEW w \in verdicts, [w EXCEPT !.id = v.id] = v PROVE FALSE
    <3>1. w \in Verdict
      BY <1>0
    <3>2. [w EXCEPT !.id = v.id].template = w.template /\ [w EXCEPT !.id = v.id].bundle = w.bundle
      BY <3>1 DEF Verdict
    <3>3. w.template = v.template /\ w.bundle = v.bundle
      BY <2>1, <3>2
    <3> QED BY <1>1, <1>3, <3>3
  <2> HIDE DEF v
  <2> QED BY <2>1 DEF v
<1>5. /\ tasks'[s] # Null /\ tasks'[s].phase = "cache" /\ tasks'[s].template = tasks[s].template
      /\ tasks'[s].model = tasks[s].model /\ tasks'[s].id = tasks[s].id
      /\ \A r \in Slot : r # s => tasks'[r] = tasks[r]
  <2>1. "cache" \in Phase
    BY DEF Phase
  <2> QED BY <1>0, <2>1, GoesKeepsTask
<1>6. /\ \A t : Rows(t) \subseteq NewRows(t)
      /\ \A t : t # v.template => NewRows(t) = Rows(t)
      /\ v \in NewRows(v.template)
      /\ \A task : NewVerdictOf(task) = VerdictOf(task)
  <2>1. \A task : NewVerdictOf(task) = VerdictOf(task)
    BY DEF VerdictOf, NewVerdictOf
  <2> HIDE DEF v
  <2> QED BY <1>1, <1>4, <2>1 DEF Rows, NewRows
<1>7. OneRow'
  <2> HIDE DEF v
  <2> QED BY <1>1, <1>3, <1>4 DEF Fresh, OneRow
<1>8. OnlyUnjudgedInHand'
  <2>1. \A r \in Slot : r # s /\ tasks[r] # Null => tasks[r].template # v.template
    BY <1>0, <1>1 DEF InFlightIsWorked, Task, TasksOK
  <2>2. loop # Null => loop.template # v.template
    BY <1>0, <1>1 DEF InFlightIsWorked, Task
  <2>3. (loop' # Null /\ loop'.step = "permit") => NewRows(loop'.template) = {}
    BY <1>6, <2>2 DEF Fresh, OnlyUnjudgedInHand
  <2>4. ASSUME NEW r \in Slot, Past(r, {"calling", "record", "index", "verdict"})'
        PROVE  NewRows(tasks'[r].template) = {}
    <3>1. r # s /\ tasks'[r] = tasks[r] /\ tasks[r] # Null
      BY <1>5, <2>4 DEF Past
    <3>2. Rows(tasks[r].template) = {}
      BY <2>4, <3>1 DEF Fresh, OnlyUnjudgedInHand, Past
    <3> QED BY <1>6, <2>1, <3>1, <3>2
  <2> QED BY <2>3, <2>4 DEF OnlyUnjudgedInHand, Rows, NewRows
<1>9. ServedAreRows'
  <2>1. \A t \in Template : moka'[t] # Null => moka'[t] \in NewRows(t)
    BY <1>6 DEF Fresh, ServedAreRows
  <2>2. (reader' # Null /\ reader'.found # Null) => reader'.found \in NewRows(reader'.template)
    BY <1>6 DEF Fresh, ServedAreRows
  <2>3. ASSUME NEW r \in Slot, Past(r, {"cache"})'
        PROVE  NewVerdictOf(tasks'[r]) \in NewRows(tasks'[r].template)
    <3>1. CASE r = s
      <4>1. VerdictOf(tasks'[s]) = v
        BY <1>5 DEF VerdictOf
      <4> QED BY <1>1, <1>5, <1>6, <3>1, <4>1
    <3>2. CASE r # s
      <4>1. tasks'[r] = tasks[r] /\ VerdictOf(tasks[r]) \in Rows(tasks[r].template)
        BY <1>5, <2>3, <3>2 DEF Fresh, ServedAreRows, Past
      <4> HIDE DEF v
      <4> QED BY <1>6, <4>1
    <3> QED BY <3>1, <3>2
  <2> QED BY <2>1, <2>2, <2>3 DEF ServedAreRows, VerdictOf, NewVerdictOf, Rows, NewRows
<1> QED BY <1>7, <1>8, <1>9 DEF Fresh

LEMMA JudgeOneKeepsFresh ==
  ASSUME ~ReadFaults, Typed, InFlightIsWorked, Fresh, NEW s \in Slot, JudgeOne(s)
  PROVE  Fresh'
<1>0. TypeOK /\ TasksOK /\ {"index", "verdict", "cache", "notify", "done"} \subseteq Phase
  BY DEF Typed, TypeOK, TasksOK, Phase
<1>1. ASSUME CallFails(s) PROVE Fresh'
  BY <1>0, <1>1, GoesKeepsFresh DEF CallFails, At, durable, engine
<1>2. ASSUME CallAnswers(s) PROVE Fresh'
  <2>1. PICK m \in Model :
          tasks' = [tasks EXCEPT ![s] = [@ EXCEPT !.phase = "record", !.model = m, !.id = lastId + 1]]
    BY <1>2 DEF CallAnswers
  <2>2. tasks[s] \in Task
    BY <1>0, <1>2 DEF CallAnswers, At, TasksOK
  <2>3. tasks'[s] = [tasks[s] EXCEPT !.phase = "record", !.model = m, !.id = lastId + 1]
        /\ \A r \in Slot : r # s => tasks'[r] = tasks[r]
    BY <1>0, <2>1 DEF TasksOK
  <2>4. tasks'[s].phase = "record" /\ tasks'[s].template = tasks[s].template
    BY <2>2, <2>3 DEF Task
  <2>5. Rows(tasks[s].template) = {}
    BY <1>2 DEF CallAnswers, At, Fresh, OnlyUnjudgedInHand, Past
  <2>6. UNCHANGED <<verdicts, bundle, loop, moka, reader>>
    BY <1>2 DEF CallAnswers, engine
  <2> QED BY <2>3, <2>4, <2>5, <2>6, BystanderKeepsFresh
<1>3. ASSUME WriteRecord(s) PROVE Fresh'
  <2>1. /\ tasks[s] # Null /\ Past(s, BeforeRow)
        /\ UNCHANGED <<verdicts, bundle, loop, reader, moka>>
        /\ Goes(s, "index") \/ Goes(s, "done")
    BY <1>3 DEF WriteRecord, At, Past, BeforeRow, engine
  <2> QED BY <1>0, <2>1, GoesKeepsFresh
<1>4. ASSUME WriteIndex(s) PROVE Fresh'
  <2>1. /\ tasks[s] # Null /\ Past(s, BeforeRow)
        /\ UNCHANGED <<verdicts, bundle, loop, reader, moka>>
        /\ Goes(s, "verdict")
    BY <1>4 DEF WriteIndex, At, Past, BeforeRow, engine
  <2> QED BY <1>0, <2>1, GoesKeepsFresh
<1>5. ASSUME WriteVerdict(s) PROVE Fresh'
  <2>1. /\ At(s, "verdict") /\ tasks[s] # Null
        /\ UNCHANGED <<bundle, loop, reader, moka>>
        /\ \/ /\ verdicts' = {w \in verdicts : [w EXCEPT !.id = VerdictOf(tasks[s]).id] # VerdictOf(tasks[s])}
                               \union {VerdictOf(tasks[s])}
              /\ Goes(s, "cache")
           \/ UNCHANGED verdicts /\ Goes(s, "done")
    BY <1>5 DEF WriteVerdict, At, engine
  <2> QED BY <1>0, <2>1, GoesKeepsFresh, VerdictKeepsFresh
<1>6. ASSUME FillCache(s) PROVE Fresh'
  <2>1. /\ tasks[s] # Null /\ Goes(s, "notify")
        /\ UNCHANGED <<verdicts, bundle, loop, reader>>
        /\ moka' = [moka EXCEPT ![tasks[s].template] = VerdictOf(tasks[s])]
    BY <1>6 DEF FillCache, At, durable, engine
  <2>2. VerdictOf(tasks[s]) \in Rows(tasks[s].template)
    BY <1>6 DEF FillCache, At, Past, Fresh, ServedAreRows
  <2>3. \A t \in Template : moka'[t] \in {moka[t], Null} \union Rows(t)
    BY <1>0, <2>1, <2>2 DEF TypeOK
  <2> QED BY <1>0, <2>1, <2>3, GoesKeepsFresh
<1>7. ASSUME Notify(s) PROVE Fresh'
  BY <1>0, <1>7, GoesKeepsFresh DEF Notify, At, durable
<1>8. ASSUME Release(s) PROVE Fresh'
  <2>1. tasks'[s] = Null /\ \A r \in Slot : r # s => tasks'[r] = tasks[r]
    BY <1>0, <1>8 DEF Release, TasksOK
  <2> QED BY <1>8, <2>1, BystanderKeepsFresh DEF Release, Past, durable, engine
<1> QED BY <1>1, <1>2, <1>3, <1>4, <1>5, <1>6, <1>7, <1>8 DEF JudgeOne

LEMMA NextKeepsFresh ==
  ASSUME ~ReadFaults, Typed, InFlightIsWorked, Fresh, [Next]_vars
  PROVE  Fresh'
<1>0. TypeOK /\ TasksOK
  BY DEF Typed, TypeOK, TasksOK
<1>1. ASSUME NEW t \in Template, LookupMisses(t) PROVE Fresh'
  <2>1. reader'.found = Null
    BY <1>1 DEF LookupMisses
  <2> QED BY <1>1, <2>1, BystanderKeepsFresh DEF LookupMisses, durable, judge
<1>2. ASSUME NEW t \in Template, Evict(t) PROVE Fresh'
  <2>1. \A x \in Template : moka'[x] \in {moka[x], Null}
    BY <1>0, <1>2 DEF Evict, TypeOK
  <2> QED BY <1>2, <2>1, BystanderKeepsFresh DEF Evict, durable, judge, engine
<1>3. ASSUME LookupReads PROVE Fresh'
  <2>1. PICK found \in ReadLatest(reader.template) :
          reader' = [reader EXCEPT !.step = "answer", !.found = found]
    BY <1>3 DEF LookupReads
  <2>2. reader \in Reading
    BY <1>0, <1>3 DEF TypeOK, LookupReads
  <2>3. reader'.template = reader.template /\ reader'.found = found /\ reader.template \in Template
    BY <2>1, <2>2 DEF Reading
  <2>4. found = Null \/ found \in Rows(reader.template)
    BY <1>0, <2>1, <2>3, RowsAreVerdicts
  <2>5. UNCHANGED <<verdicts, bundle, moka, tasks, loop>>
    BY <1>3 DEF LookupReads, durable, judge
  <2> QED BY <2>3, <2>4, <2>5, BystanderKeepsFresh
<1>4. ASSUME LookupFills PROVE Fresh'
  <2>1. UNCHANGED <<verdicts, bundle, tasks, loop>> /\ reader' = Null /\ reader # Null /\ reader.found # Null
        /\ moka' = [moka EXCEPT ![reader.template] = reader.found]
    BY <1>4 DEF LookupFills, durable, judge
  <2>2. \A x \in Template : moka'[x] \in {moka[x], Null} \union Rows(x)
    BY <1>0, <2>1 DEF TypeOK, Fresh, ServedAreRows
  <2> QED BY <2>1, <2>2, BystanderKeepsFresh
<1>5. ASSUME LookupEnqueues PROVE Fresh'
  BY <1>5, BystanderKeepsFresh DEF LookupEnqueues, durable
<1>6. ASSUME TakeNotice PROVE Fresh'
  BY <1>6, BystanderKeepsFresh DEF TakeNotice, durable, judge
<1>7. ASSUME TakeJob PROVE Fresh'
  <2>1. loop' = loop \/ loop'.step # "permit"
    BY <1>7 DEF TakeJob
  <2> QED BY <1>7, <2>1, BystanderKeepsFresh DEF TakeJob, durable, engine
<1>8. ASSUME NeedsCall PROVE Fresh'
  <2>1. loop \in Steps /\ loop' = [loop EXCEPT !.step = "permit"] /\ Null \in ReadLatest(loop.template)
    BY <1>0, <1>8 DEF NeedsCall, TypeOK
  <2>2. loop'.template = loop.template /\ loop.template \in Template
    BY <2>1 DEF Steps
  <2>3. Rows(loop'.template) = {}
    BY <1>0, <2>1, <2>2, RowsAreVerdicts
  <2> QED BY <1>8, <2>3, BystanderKeepsFresh DEF NeedsCall, durable, engine
<1>9. ASSUME FindsJudged PROVE Fresh'
  <2>1. UNCHANGED <<verdicts, bundle, tasks, reader>> /\ loop' = Null /\ loop.template \in Template
    BY <1>0, <1>9 DEF FindsJudged, durable, engine, TypeOK, Steps
  <2>2. CASE UNCHANGED moka
    BY <2>1, <2>2, BystanderKeepsFresh
  <2>3. CASE \E v \in ReadLatest(loop.template) \ {Null} : moka' = [moka EXCEPT ![loop.template] = v]
    <3>1. PICK v \in ReadLatest(loop.template) \ {Null} : moka' = [moka EXCEPT ![loop.template] = v]
      BY <2>3
    <3>2. v \in Rows(loop.template)
      BY <1>0, <2>1, RowsAreVerdicts
    <3>3. \A x \in Template : moka'[x] \in {moka[x], Null} \union Rows(x)
      BY <1>0, <3>1, <3>2 DEF TypeOK
    <3> QED BY <2>1, <3>3, BystanderKeepsFresh
  <2> QED BY <1>9, <2>2, <2>3 DEF FindsJudged
<1>10. ASSUME NEW s \in Slot, Spawn(s) PROVE Fresh'
  <2>1. loop # Null /\ loop.step = "permit" /\ loop' = Null
        /\ UNCHANGED <<verdicts, bundle, moka, reader>>
    BY <1>10 DEF Spawn, durable, engine
  <2>2. tasks'[s].phase = "calling" /\ tasks'[s].template = loop.template
        /\ \A r \in Slot : r # s => tasks'[r] = tasks[r]
    BY <1>0, <1>10 DEF Spawn, TasksOK
  <2>3. Rows(tasks'[s].template) = {}
    BY <2>1, <2>2 DEF Fresh, OnlyUnjudgedInHand
  <2> QED BY <2>1, <2>2, <2>3, BystanderKeepsFresh
<1>11. ASSUME NEW t \in Template, NEW m \in Model, SaveRecord(t, m) PROVE Fresh'
  BY <1>11, BystanderKeepsFresh DEF SaveRecord, judge, engine
<1>12. ASSUME NEW b \in Bundle, Restart(b) PROVE Fresh'
  <2>1. OneRow'
    BY <1>12 DEF Restart, Fresh, OneRow
  <2>2. OnlyUnjudgedInHand' /\ ServedAreRows'
    BY <1>12 DEF Restart, OnlyUnjudgedInHand, ServedAreRows, Past
  <2> QED BY <2>1, <2>2 DEF Fresh
<1>13. ASSUME UNCHANGED vars PROVE Fresh'
  BY <1>13, BystanderKeepsFresh DEF vars, durable, judge, engine
<1>14. ASSUME NEW s \in Slot, JudgeOne(s) PROVE Fresh'
  BY <1>14, JudgeOneKeepsFresh
<1> QED
  BY <1>1, <1>2, <1>3, <1>4, <1>5, <1>6, <1>7, <1>8, <1>9, <1>10, <1>11, <1>12, <1>13, <1>14
     DEF Next, JudgeLoop, VerdictFor

-----------------------------------------------------------------------------
(* The theorems.                                                           *)

LEMMA NextKeepsTyped ==
  ASSUME Typed, [Next]_vars
  PROVE  Typed'
<1>1. ASSUME \/ \E t \in Template : LookupMisses(t) \/ Evict(t)
             \/ VerdictFor \/ TakeNotice \/ TakeJob \/ FindsJudged \/ NeedsCall
      PROVE  Typed'
  BY <1>1, LoopKeepsTyped
<1>2. ASSUME NEW s \in Slot, Spawn(s) PROVE Typed'
  BY <1>2, SpawnKeepsTyped
<1>3. ASSUME NEW s \in Slot, JudgeOne(s) PROVE Typed'
  BY <1>3, JudgeOneKeepsTyped
<1>4. ASSUME NEW t \in Template, NEW m \in Model, SaveRecord(t, m) PROVE Typed'
  BY <1>4, SaveRecordKeepsTyped
<1>5. ASSUME NEW b \in Bundle, Restart(b) PROVE Typed'
  BY <1>5, RestartKeepsTyped
<1>6. ASSUME UNCHANGED vars PROVE Typed'
  BY <1>6, StutterKeepsTyped
<1> QED BY <1>1, <1>2, <1>3, <1>4, <1>5, <1>6 DEF Next, JudgeLoop

LEMMA NextIndInv == IndInv /\ [Next]_vars => IndInv'
<1> SUFFICES ASSUME IndInv, [Next]_vars PROVE IndInv'
  OBVIOUS
<1>1. Typed /\ InFlightIsWorked /\ Provenance /\ (~ReadFaults => Fresh)
  BY DEF IndInv, Typed, Provenance, Fresh
<1>2. Typed'
  BY <1>1, NextKeepsTyped
<1>3. InFlightIsWorked'
  BY <1>1, NextKeepsInFlight
<1>4. Provenance'
  BY <1>1, NextKeepsProvenance
<1>5. ~ReadFaults => Fresh'
  BY <1>1, NextKeepsFresh
<1> QED BY <1>2, <1>3, <1>4, <1>5 DEF IndInv, Typed, Provenance, Fresh

\* The inductive invariant holds at every step of every run.
THEOREM InductiveInvariant == Spec => []IndInv
  BY InitIndInv, NextIndInv, PTL DEF Spec

\* Every variable stays in its type.
THEOREM TypeCorrectness == Spec => []TypeOK
<1>1. IndInv => TypeOK
  BY DEF IndInv
<1> QED BY <1>1, InductiveInvariant, PTL

\* A template in flight is in hand exactly once, so none is judged by two
\* tasks at a time and none stays marked with nobody at work on it (judge_loop,
\* judge_one).
THEOREM CallsAreSingle == Spec => []InFlightIsWorked
<1>1. IndInv => InFlightIsWorked
  BY DEF IndInv
<1> QED BY <1>1, InductiveInvariant, PTL

\* Whatever write fails and wherever the process ends, a verdict that can be
\* served has its record (the order of the writes of judge_one).
THEOREM ProvenanceHolds == Spec => []EveryVerdictHasARecord
<1>1. IndInv => EveryVerdictHasARecord
  BY DEF IndInv
<1> QED BY <1>1, InductiveInvariant, PTL

\* The two fills of moka, by the engine and by the judge, leave nothing stale
\* in it (verdict_for, judge_one).
THEOREM CacheAgrees == Spec => []MokaIsNewest
<1>1. IndInv => MokaIsNewest
  <2> SUFFICES ASSUME IndInv, ~ReadFaults, NEW t \in Template, moka[t] # Null
               PROVE  moka[t] = Newest(t)
    BY DEF MokaIsNewest
  <2>1. moka[t] \in Rows(t)
    BY DEF IndInv, ServedAreRows
  <2>2. \A v \in Rows(t) : v = moka[t]
    BY <2>1 DEF IndInv, OneRow, Rows
  <2>3. moka[t].id \in Nat
    BY NullIsApart DEF IndInv, TypeOK, Verdict
  <2>4. \A w \in Rows(t) : w.id <= moka[t].id
    BY <2>2, <2>3
  <2> QED BY <2>1, <2>2, <2>4 DEF Newest
<1> QED BY <1>1, InductiveInvariant, PTL

\* No call is spent on a template that has its verdict (judge_loop's second
\* look, after the queue).
THEOREM NoSecondCall == Spec => NeverJudgedTwice
<1> DEFINE Once == \A s \in Slot : ~ReadFaults /\ tasks[s] = Null /\ tasks'[s] # Null
                                     => Newest(tasks'[s].template) = Null
<1>1. IndInv /\ [Next]_vars => [Once]_vars
  <2> SUFFICES ASSUME IndInv, [Next]_vars, ~ReadFaults, NEW s \in Slot, tasks[s] = Null, tasks'[s] # Null
               PROVE  Newest(tasks'[s].template) = Null
    OBVIOUS
  <2>1. Typed /\ TasksOK
    BY DEF IndInv, Typed, TypeOK, TasksOK
  <2>2. ASSUME UNCHANGED tasks PROVE FALSE
    BY <2>2
  <2>3. ASSUME NEW r \in Slot, JudgeOne(r) PROVE FALSE
    <3>1. CASE Release(r)
      BY <2>1, <3>1 DEF Release, TasksOK
    <3>2. CASE ~Release(r)
      BY <2>1, <2>3, <3>2, MovesKeepHands DEF SameHands
    <3> QED BY <3>1, <3>2
  <2>4. ASSUME NEW b \in Bundle, Restart(b) PROVE FALSE
    BY <2>4 DEF Restart
  <2>5. ASSUME NEW r \in Slot, Spawn(r) PROVE Newest(tasks'[s].template) = Null
    <3>1. s = r /\ tasks'[s].template = loop.template
      BY <2>1, <2>5 DEF Spawn, TasksOK
    <3>2. Rows(loop.template) = {}
      BY <2>5 DEF Spawn, IndInv, OnlyUnjudgedInHand
    <3> QED BY <3>1, <3>2 DEF Newest
  <2>6. ASSUME NEW t \in Template, LookupMisses(t) \/ Evict(t) PROVE FALSE
    BY <2>2, <2>6 DEF LookupMisses, Evict, judge
  <2>7. ASSUME VerdictFor \/ TakeNotice \/ TakeJob \/ FindsJudged \/ NeedsCall PROVE FALSE
    BY <2>2, <2>7 DEF VerdictFor, LookupReads, LookupFills, LookupEnqueues, TakeNotice, TakeJob,
                      FindsJudged, NeedsCall, judge
  <2>8. ASSUME NEW t \in Template, NEW m \in Model, SaveRecord(t, m) PROVE FALSE
    BY <2>2, <2>8 DEF SaveRecord, judge
  <2>9. ASSUME UNCHANGED vars PROVE FALSE
    BY <2>2, <2>9 DEF vars, judge
  <2> QED BY <2>3, <2>4, <2>5, <2>6, <2>7, <2>8, <2>9 DEF Next, JudgeLoop
<1> QED BY <1>1, InductiveInvariant, PTL DEF Spec, NeverJudgedTwice

-----------------------------------------------------------------------------
(* Nobody is left waiting.                                                 *)

\* Owed its notice: not judged yet, told already, or about to be told.
Owed(t) ==
  \/ Rows(t) = {}
  \/ \E n \in DOMAIN notices : notices[n] = t
  \/ \E s \in Slot : Past(s, {"cache", "notify"}) /\ tasks[s].template = t

\* The engine has read the store for this template and found nothing.
FoundNothing(t) ==
  reader # Null /\ reader.step = "answer" /\ reader.found = Null /\ reader.template = t

\* Owed one as well is the template the engine is about to remember a host
\* for: its verdict may come between the read and the answer.
MissesAreOwed ==
  ~ReadFaults => \A t \in Template : t \in waiting \/ FoundNothing(t) => Owed(t)

\* No notice meets a full channel.
NoticesFit == \A s \in Slot : Notify(s) => Len(notices) < NoticeCapacity

\* A step that leaves rows, notices and the tasks about to send one.
LEMMA SameOwed ==
  ASSUME UNCHANGED <<verdicts, bundle, notices>>,
         \A s \in Slot : Past(s, {"cache", "notify"}) => tasks'[s] = tasks[s],
         NEW t \in Template, Owed(t)
  PROVE  Owed(t)'
<1>1. CASE Rows(t) = {}
  BY <1>1 DEF Owed, Rows
<1>2. CASE \E n \in DOMAIN notices : notices[n] = t
  BY <1>2 DEF Owed
<1>3. CASE \E s \in Slot : Past(s, {"cache", "notify"}) /\ tasks[s].template = t
  <2>1. PICK s \in Slot : Past(s, {"cache", "notify"}) /\ tasks[s].template = t
    BY <1>3
  <2>2. tasks'[s] = tasks[s]
    BY <2>1
  <2>3. tasks'[s] # Null /\ tasks'[s].phase \in {"cache", "notify"} /\ tasks'[s].template = t
    BY <2>1, <2>2 DEF Past
  <2> QED BY <2>3 DEF Owed, Past
<1> QED BY <1>1, <1>2, <1>3 DEF Owed

\* A step of the judge's tasks, whose notice fits: a row that is
\* written, and a notice that is due, stay owed until sent.
LEMMA JudgeOneKeepsOwed ==
  ASSUME Typed, [NoticesFit]_vars, NEW s \in Slot, JudgeOne(s), NEW t \in Template, Owed(t)
  PROVE  Owed(t)'
<1>1. TasksOK /\ notices \in Seq(Template)
  BY DEF Typed, TypeOK, TasksOK
<1>2. ASSUME UNCHANGED <<verdicts, bundle, notices>>, ~Past(s, {"cache", "notify"}),
             \A r \in Slot : r # s => tasks'[r] = tasks[r]
      PROVE  Owed(t)'
  BY <1>2, SameOwed
<1>3. CASE CallFails(s)
  BY <1>1, <1>2, <1>3 DEF CallFails, At, Past, Goes, durable, engine, TasksOK
<1>4. CASE CallAnswers(s)
  BY <1>1, <1>2, <1>4 DEF CallAnswers, At, Past, engine, TasksOK
<1>5. CASE WriteRecord(s)
  BY <1>1, <1>2, <1>5 DEF WriteRecord, At, Past, Goes, engine, TasksOK
<1>6. CASE WriteIndex(s)
  BY <1>1, <1>2, <1>6 DEF WriteIndex, At, Past, Goes, engine, TasksOK
<1>7. CASE WriteVerdict(s)
  <2>1. At(s, "verdict") /\ tasks[s] # Null /\ UNCHANGED <<bundle, notices>>
    BY <1>7 DEF WriteVerdict, At, engine
  <2>2. CASE UNCHANGED verdicts /\ Goes(s, "done")
    BY <1>1, <1>2, <2>1, <2>2 DEF At, Past, Goes, TasksOK
  <2>3. CASE /\ verdicts' = {w \in verdicts : [w EXCEPT !.id = VerdictOf(tasks[s]).id] # VerdictOf(tasks[s])}
                              \union {VerdictOf(tasks[s])}
             /\ Goes(s, "cache")
    <3>1. /\ tasks'[s] # Null /\ tasks'[s].phase = "cache" /\ tasks'[s].template = tasks[s].template
          /\ \A r \in Slot : r # s => tasks'[r] = tasks[r]
      BY <1>1, <2>1, <2>3, GoesKeepsTask DEF Phase
    <3>2. CASE t = tasks[s].template
      BY <3>1, <3>2 DEF Owed, Past
    <3>3. CASE t # tasks[s].template
      <4>1. CASE Rows(t) = {}
        <5>1. VerdictOf(tasks[s]).template # t
          BY <3>3 DEF VerdictOf
        <5>2. {v \in verdicts' : v.template = t /\ v.bundle = bundle} = {}
          BY <2>3, <4>1, <5>1 DEF Rows
        <5> QED BY <2>1, <5>2 DEF Owed, Rows
      <4>2. CASE \E n \in DOMAIN notices : notices[n] = t
        BY <2>1, <4>2 DEF Owed
      <4>3. CASE \E r \in Slot : Past(r, {"cache", "notify"}) /\ tasks[r].template = t
        BY <3>1, <3>3, <4>3 DEF Owed, Past
      <4> QED BY <4>1, <4>2, <4>3 DEF Owed
    <3> QED BY <3>2, <3>3
  <2> QED BY <1>7, <2>2, <2>3 DEF WriteVerdict
<1>8. CASE FillCache(s)
  <2>1. At(s, "cache") /\ Goes(s, "notify") /\ UNCHANGED <<verdicts, bundle, notices>>
    BY <1>8 DEF FillCache, durable, engine
  <2>2. /\ tasks'[s] # Null /\ tasks'[s].phase = "notify" /\ tasks'[s].template = tasks[s].template
        /\ \A r \in Slot : r # s => tasks'[r] = tasks[r]
    BY <1>1, <2>1, GoesKeepsTask DEF Phase, At
  <2>3. CASE Rows(t) = {} \/ \E n \in DOMAIN notices : notices[n] = t
    BY <2>1, <2>3 DEF Owed, Rows
  <2>4. CASE \E r \in Slot : Past(r, {"cache", "notify"}) /\ tasks[r].template = t
    BY <2>2, <2>4 DEF Owed, Past
  <2> QED BY <2>3, <2>4 DEF Owed
<1>9. CASE Notify(s)
  <2>1. /\ At(s, "notify") /\ Goes(s, "done") /\ UNCHANGED <<verdicts, bundle>>
        /\ notices' = Append(notices, tasks[s].template)
    <3>1. tasks[s].phase = "notify" /\ tasks'[s].phase = "done"
      BY <1>1, <1>9, GoesKeepsTask DEF Notify, At, Phase
    <3>2. Len(notices) < NoticeCapacity
      BY <1>9, <3>1 DEF NoticesFit, vars, judge
    <3> QED BY <1>9, <3>2 DEF Notify, durable
  <2>2. \A r \in Slot : r # s => tasks'[r] = tasks[r]
    BY <1>1, <2>1, GoesKeepsTask DEF Phase, At
  <2>3. tasks[s].template \in Template
    BY <1>1, <2>1 DEF TasksOK, At, Task
  <2>4. /\ DOMAIN notices' = 1 .. Len(notices) + 1 /\ DOMAIN notices = 1 .. Len(notices)
        /\ notices'[Len(notices) + 1] = tasks[s].template
        /\ \A n \in 1 .. Len(notices) : notices'[n] = notices[n]
        /\ Len(notices) \in Nat
    BY <1>1, <2>1, <2>3
  <2>5. CASE Rows(t) = {}
    BY <2>1, <2>5 DEF Owed, Rows
  <2>6. CASE \E n \in DOMAIN notices : notices[n] = t
    BY <2>4, <2>6 DEF Owed
  <2>7. CASE \E r \in Slot : Past(r, {"cache", "notify"}) /\ tasks[r].template = t
    <3>1. PICK r \in Slot : Past(r, {"cache", "notify"}) /\ tasks[r].template = t
      BY <2>7
    <3>2. CASE r = s
      <4>1. Len(notices) + 1 \in DOMAIN notices' /\ notices'[Len(notices) + 1] = t
        BY <2>4, <3>1, <3>2
      <4> QED BY <4>1 DEF Owed
    <3>3. CASE r # s
      BY <2>2, <3>1, <3>3 DEF Owed, Past
    <3> QED BY <3>2, <3>3
  <2> QED BY <2>5, <2>6, <2>7 DEF Owed
<1>10. CASE Release(s)
  BY <1>1, <1>2, <1>10 DEF Release, At, Past, durable, engine, TasksOK
<1> QED BY <1>3, <1>4, <1>5, <1>6, <1>7, <1>8, <1>9, <1>10 DEF JudgeOne

\* Steps that leave what a template is owed with, and remember no more than
\* was remembered or read before.
LEMMA SameMissesOwed ==
  ASSUME MissesAreOwed, UNCHANGED <<verdicts, bundle, notices>>,
         \A s \in Slot : Past(s, {"cache", "notify"}) => tasks'[s] = tasks[s],
         \A t \in Template : t \in waiting' => t \in waiting \/ FoundNothing(t),
         \A t \in Template : FoundNothing(t)' => FoundNothing(t) \/ (~ReadFaults => Rows(t) = {})
  PROVE  MissesAreOwed'
<1> SUFFICES ASSUME ~ReadFaults, NEW t \in Template, t \in waiting' \/ FoundNothing(t)'
             PROVE  Owed(t)'
  BY DEF MissesAreOwed
<1>1. Owed(t)
  BY DEF MissesAreOwed, Owed
<1> QED BY <1>1, SameOwed

LEMMA NextKeepsMissesOwed ==
  IndInv /\ MissesAreOwed /\ [NoticesFit]_vars /\ [Next]_vars => MissesAreOwed'
<1> SUFFICES ASSUME IndInv, MissesAreOwed, [NoticesFit]_vars, [Next]_vars PROVE MissesAreOwed'
  OBVIOUS
<1>1. Typed /\ TypeOK /\ TasksOK
  BY DEF IndInv, Typed, TypeOK, TasksOK
<1>2. /\ reader \in Reading \union {Null} /\ Null \notin Reading
      /\ waiting \subseteq Template /\ notices \in Seq(Template)
  BY <1>1, NullIsApart DEF TypeOK
<1>3. ASSUME NEW t \in Template, LookupMisses(t) PROVE MissesAreOwed'
  <2>1. \A x \in Template : ~FoundNothing(x)'
    BY <1>3 DEF LookupMisses, FoundNothing
  <2> QED BY <1>3, <2>1, SameMissesOwed DEF LookupMisses, durable, judge
<1>4. ASSUME NEW t \in Template, Evict(t) PROVE MissesAreOwed'
  <2>1. UNCHANGED <<verdicts, bundle, notices, tasks, waiting, reader>>
    BY <1>4 DEF Evict, durable, judge, engine
  <2> QED BY <2>1, SameMissesOwed DEF FoundNothing
<1>5. CASE LookupReads
  <2>1. /\ reader \in Reading /\ reader.template \in Template
        /\ UNCHANGED <<verdicts, bundle, notices, tasks, waiting>>
    BY <1>2, <1>5 DEF LookupReads, durable, judge, Reading
  <2>2. PICK found \in ReadLatest(reader.template) :
          reader' = [reader EXCEPT !.step = "answer", !.found = found]
    BY <1>5 DEF LookupReads
  <2>3. reader'.template = reader.template /\ reader'.found = found
    BY <2>1, <2>2 DEF Reading
  <2>4. ASSUME NEW t \in Template, FoundNothing(t)', ~ReadFaults PROVE Rows(t) = {}
    <3>1. t = reader.template /\ Null \in ReadLatest(t)
      BY <2>2, <2>3, <2>4 DEF FoundNothing
    <3> QED BY <1>1, <2>4, <3>1, RowsAreVerdicts
  <2> QED BY <2>1, <2>4, SameMissesOwed
<1>6. CASE LookupFills
  <2>1. \A x \in Template : ~FoundNothing(x)'
    BY <1>6 DEF LookupFills, FoundNothing
  <2> QED BY <1>6, <2>1, SameMissesOwed DEF LookupFills, durable, judge
<1>7. CASE LookupEnqueues
  <2>1. /\ UNCHANGED <<verdicts, bundle, notices, tasks>>
        /\ \A t \in Template : t \in waiting' => t \in waiting \/ FoundNothing(t)
        /\ \A t \in Template : ~FoundNothing(t)'
    BY <1>7 DEF LookupEnqueues, FoundNothing, durable
  <2> QED BY <2>1, SameMissesOwed
<1>8. CASE TakeNotice
  <2>1. /\ reader = Null /\ notices # <<>> /\ waiting' = waiting \ {Head(notices)}
        /\ notices' = Tail(notices) /\ UNCHANGED <<verdicts, bundle, tasks, reader>>
    BY <1>8 DEF TakeNotice, durable, judge
  <2>2. /\ DOMAIN notices = 1 .. Len(notices) /\ DOMAIN notices' = 1 .. Len(notices) - 1
        /\ Len(notices) \in Nat /\ Head(notices) = notices[1]
        /\ \A n \in 1 .. Len(notices) - 1 : notices'[n] = notices[n + 1]
    BY <1>2, <2>1
  <2>3. ASSUME NEW t \in Template, t \in waiting', ~ReadFaults PROVE Owed(t)'
    <3>1. Owed(t) /\ t # notices[1]
      BY <2>1, <2>2, <2>3 DEF MissesAreOwed
    <3>2. CASE \E n \in DOMAIN notices : notices[n] = t
      <4>1. PICK n \in DOMAIN notices : notices[n] = t
        BY <3>2
      <4>2. n - 1 \in DOMAIN notices' /\ n - 1 \in 1 .. Len(notices) - 1 /\ n - 1 + 1 = n
        BY <2>2, <3>1, <4>1
      <4>3. notices'[n - 1] = t
        BY <2>2, <4>1, <4>2
      <4> QED BY <4>2, <4>3 DEF Owed
    <3>3. CASE Rows(t) = {} \/ \E s \in Slot : Past(s, {"cache", "notify"}) /\ tasks[s].template = t
      BY <2>1, <3>3 DEF Owed, Rows, Past
    <3> QED BY <3>1, <3>2, <3>3 DEF Owed
  <2>4. \A t \in Template : ~FoundNothing(t)'
    BY <2>1 DEF FoundNothing
  <2> QED BY <2>3, <2>4 DEF MissesAreOwed
<1>9. CASE TakeJob \/ FindsJudged \/ NeedsCall
  <2>1. UNCHANGED <<verdicts, bundle, notices, tasks, waiting, reader>>
    BY <1>9 DEF TakeJob, FindsJudged, NeedsCall, durable, engine
  <2> QED BY <2>1, SameMissesOwed DEF FoundNothing
<1>10. ASSUME NEW s \in Slot, Spawn(s) PROVE MissesAreOwed'
  <2>1. UNCHANGED <<verdicts, bundle, notices, waiting, reader>> /\ ~Past(s, {"cache", "notify"})
    BY <1>10 DEF Spawn, durable, engine, Past
  <2>2. \A r \in Slot : r # s => tasks'[r] = tasks[r]
    BY <1>1, <1>10 DEF Spawn, TasksOK
  <2> QED BY <2>1, <2>2, SameMissesOwed DEF FoundNothing
<1>11. ASSUME NEW s \in Slot, JudgeOne(s) PROVE MissesAreOwed'
  <2>1. UNCHANGED <<waiting, reader>>
    BY <1>11 DEF JudgeOne, CallFails, CallAnswers, WriteRecord, WriteIndex, WriteVerdict,
                 FillCache, Notify, Release, engine
  <2>2. \A t \in Template : FoundNothing(t)' <=> FoundNothing(t)
    BY <2>1 DEF FoundNothing
  <2>3. \A t \in Template : Owed(t) => Owed(t)'
    BY <1>1, <1>11, JudgeOneKeepsOwed
  <2> QED BY <2>1, <2>2, <2>3 DEF MissesAreOwed
<1>12. ASSUME NEW t \in Template, NEW m \in Model, SaveRecord(t, m) PROVE MissesAreOwed'
  <2>1. UNCHANGED <<verdicts, bundle, notices, tasks, waiting, reader>>
    BY <1>12 DEF SaveRecord, judge, engine
  <2> QED BY <2>1, SameMissesOwed DEF FoundNothing
<1>13. ASSUME NEW b \in Bundle, Restart(b) PROVE MissesAreOwed'
  BY <1>13 DEF Restart, MissesAreOwed, FoundNothing
<1>14. CASE UNCHANGED vars
  <2>1. UNCHANGED <<verdicts, bundle, notices, tasks, waiting, reader>>
    BY <1>14 DEF vars, durable, judge, engine
  <2> QED BY <2>1, SameMissesOwed DEF FoundNothing
<1> QED BY <1>3, <1>4, <1>5, <1>6, <1>7, <1>8, <1>9, <1>10, <1>11, <1>12, <1>13, <1>14
        DEF Next, VerdictFor, JudgeLoop

\* As long as no notice meets a full channel, every host the engine remembers is
\* owed its notice, whichever way the lookup and the judgment of its template
\* cross (verdict_for, judge_one, on_judged).
THEOREM NobodyWaitsInVain == Spec /\ [][NoticesFit]_vars => []WaitingIsOwed
<1>1. Init => MissesAreOwed
  BY DEF Init, MissesAreOwed, FoundNothing
<1>2. IndInv /\ MissesAreOwed /\ [NoticesFit]_vars /\ [Next]_vars => MissesAreOwed'
  BY NextKeepsMissesOwed
<1>3. IndInv /\ MissesAreOwed => WaitingIsOwed
  <2> SUFFICES ASSUME IndInv, MissesAreOwed, ~ReadFaults, NEW t \in waiting, Rows(t) # {}
               PROVE  \/ \E n \in DOMAIN notices : notices[n] = t
                      \/ \E s \in Slot : Past(s, {"cache", "notify"}) /\ tasks[s].template = t
    BY DEF WaitingIsOwed, Newest
  <2>1. t \in Template
    BY DEF IndInv, TypeOK
  <2> QED BY <2>1 DEF MissesAreOwed, Owed
<1> QED BY <1>1, <1>2, <1>3, InductiveInvariant, PTL DEF Spec
=============================================================================
