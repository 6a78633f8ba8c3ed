---------------------------- MODULE VerdictJudge ----------------------------
(***************************************************************************)
(* The verdict store of oarfish-store: the cache-aside read of the engine  *)
(* (verdict_cache.rs, verdicts.rs), moka in front of fjall, and the        *)
(* background judge (judge.rs): a bounded queue, one loop, at most         *)
(* Concurrency calls at a time, and for each call the record, its index,   *)
(* the verdict, moka and the notice to the engine, in that order.          *)
(*                                                                         *)
(* The engine's thread, the loop and every call interleave at each read    *)
(* and write of what they share.  A crash keeps what fjall took; the order *)
(* of the writes is the order of the journal.  The question set is fixed:  *)
(* a reworded one is, to the keys, what another bundle is.  Verdicts and   *)
(* records are numbered in the order they were judged.                     *)
(***************************************************************************)
EXTENDS Naturals, Sequences, FiniteSets

CONSTANTS
  Template, Bundle,
  Model,           \* the builds a provider may resolve a call to
  QueueCapacity,   \* config.queue_capacity
  Concurrency,     \* config.judge_concurrency
  NoticeCapacity,  \* config.judged_capacity of the engine
  CallFaults,      \* TRUE: calls to the provider may fail
  ReadFaults,      \* TRUE: reads of fjall may fail
  WriteFaults,     \* TRUE: writes to fjall may fail
  ContextualChecks, \* TRUE: the engine saves records of contextual checks too
  MaxRecords,      \* bound: decision records
  MaxRestarts,     \* bound: restarts
  Null

Slot   == 1 .. Concurrency    \* one per permit of the semaphore
RecordId == 1 .. MaxRecords
Phase  == {"calling", "record", "index", "verdict", "cache", "notify", "done"}

Verdict == [template : Template, bundle : Bundle, model : Model, id : RecordId]
DecisionRecord == [template : Template, model : Model, id : RecordId]
Task == [template : Template, phase : Phase, model : Model \union {Null},
         id : RecordId \union {Null}]
Steps == [template : Template, step : {"check", "permit"}]
Reading == [template : Template, step : {"read", "answer"}, found : Verdict \union {Null}]

ASSUME JudgeAssumption ==
  /\ QueueCapacity \in Nat \ {0} /\ Concurrency \in Nat \ {0}
  /\ NoticeCapacity \in Nat \ {0} /\ MaxRecords \in Nat /\ MaxRestarts \in Nat
  /\ {CallFaults, ReadFaults, WriteFaults, ContextualChecks} \subseteq BOOLEAN
  /\ Null \notin Template \union Model \union Nat
  /\ Null \notin Verdict /\ Null \notin Task /\ Null \notin Steps /\ Null \notin Reading

VARIABLES
  bundle,    \* the bundle this process runs under
  verdicts,  \* keyspace verdicts, keyed (template, bundle, model)
  records,   \* keyspace records
  index,     \* keyspace records_by_template: ids
  lastId,    \* judgments answered so far
  moka,      \* the memory cache, template -> verdict
  queue,     \* the judge's channel
  loop,      \* judge_loop: the job in hand and what it waits for, or Null
  inFlight,  \* in_flight
  tasks,     \* the spawned judge_one tasks, by permit
  reader,    \* the engine in verdict_for: its template, and what it read, or Null
  waiting,   \* templates the engine remembers hosts for (unjudged)
  notices,   \* the judge-completion channel
  restarts   \* restarts so far

durable == <<bundle, verdicts, records, index, lastId, restarts>>
judge   == <<queue, loop, inFlight, tasks>>
engine  == <<reader, waiting, notices>>
vars == <<durable, moka, judge, engine>>

-----------------------------------------------------------------------------
\* The rows of t under the bundle of this process.
Rows(t) == {v \in verdicts : v.template = t /\ v.bundle = bundle}

\* read_latest answers the newest of them; Null stands for nothing found.
ReadLatest(t) ==
  {v \in Rows(t) : \A w \in Rows(t) : w.id <= v.id}
    \union (IF Rows(t) = {} \/ ReadFaults THEN {Null} ELSE {})

Written == IF WriteFaults THEN BOOLEAN ELSE {TRUE}

-----------------------------------------------------------------------------
(* verdict_for, in the engine's task.                                      *)

\* A moka hit is served at once and changes nothing.
LookupMisses(t) ==
  /\ reader = Null
  /\ moka[t] = Null
  /\ reader' = [template |-> t, step |-> "read", found |-> Null]
  /\ UNCHANGED <<durable, moka, judge, waiting, notices>>

LookupReads ==
  /\ reader # Null
  /\ reader.step = "read"
  /\ \E found \in ReadLatest(reader.template) :
       reader' = [reader EXCEPT !.step = "answer", !.found = found]
  /\ UNCHANGED <<durable, moka, judge, waiting, notices>>

\* Found in fjall: moka is filled with what was read.
LookupFills ==
  /\ reader # Null
  /\ reader.step = "answer"
  /\ reader.found # Null
  /\ moka' = [moka EXCEPT ![reader.template] = reader.found]
  /\ reader' = Null
  /\ UNCHANGED <<durable, judge, waiting, notices>>

\* Not found: enqueued unless the queue is full, and the engine remembers the
\* host of the line.
LookupEnqueues ==
  /\ reader # Null
  /\ reader.step = "answer"
  /\ reader.found = Null
  /\ queue' = IF Len(queue) < QueueCapacity THEN Append(queue, reader.template) ELSE queue
  /\ waiting' = waiting \union {reader.template}
  /\ reader' = Null
  /\ UNCHANGED <<durable, moka, loop, inFlight, tasks, notices>>

\* Mutant of TakeNotice: taken by a task of its own, inside a lookup too.
TakeNoticeAnytime ==
  /\ notices # <<>>
  /\ waiting' = waiting \ {Head(notices)}
  /\ notices' = Tail(notices)
  /\ UNCHANGED <<durable, moka, judge, reader>>

\* on_judged: the notice is handled between two lines, never inside one.
TakeNotice ==
  /\ reader = Null
  /\ notices # <<>>
  /\ waiting' = waiting \ {Head(notices)}
  /\ notices' = Tail(notices)
  /\ UNCHANGED <<durable, moka, judge, reader>>

\* moka drops an entry, for want of room.
Evict(t) ==
  /\ moka[t] # Null
  /\ moka' = [moka EXCEPT ![t] = Null]
  /\ UNCHANGED <<durable, judge, engine>>

-----------------------------------------------------------------------------
(* judge_loop.                                                             *)

\* Mutant of TakeJob: in_flight is not looked at.
TakeJobAgain ==
  /\ loop = Null
  /\ queue # <<>>
  /\ queue' = Tail(queue)
  /\ inFlight' = inFlight \union {Head(queue)}
  /\ loop' = [template |-> Head(queue), step |-> "check"]
  /\ UNCHANGED <<durable, moka, tasks, engine>>

\* A template in flight is passed over.
TakeJob ==
  /\ loop = Null
  /\ queue # <<>>
  /\ queue' = Tail(queue)
  /\ IF Head(queue) \in inFlight
     THEN UNCHANGED <<loop, inFlight>>
     ELSE /\ inFlight' = inFlight \union {Head(queue)}
          /\ loop' = [template |-> Head(queue), step |-> "check"]
  /\ UNCHANGED <<durable, moka, tasks, engine>>

\* Judged while queued: served without spending a call.
FindsJudged ==
  /\ loop # Null
  /\ loop.step = "check"
  /\ LET t == loop.template
     IN  \/ moka[t] # Null /\ UNCHANGED moka
         \/ /\ moka[t] = Null
            /\ \E v \in ReadLatest(t) \ {Null} : moka' = [moka EXCEPT ![t] = v]
  /\ inFlight' = inFlight \ {loop.template}
  /\ loop' = Null
  /\ UNCHANGED <<durable, queue, tasks, engine>>

\* Mutant of NeedsCall: only moka is asked.
NeedsCallUnread ==
  /\ loop # Null
  /\ loop.step = "check"
  /\ moka[loop.template] = Null
  /\ loop' = [loop EXCEPT !.step = "permit"]
  /\ UNCHANGED <<durable, moka, queue, inFlight, tasks, engine>>

\* Not judged, or the read failed: a call is spent, once a permit is free.
NeedsCall ==
  /\ loop # Null
  /\ loop.step = "check"
  /\ moka[loop.template] = Null
  /\ Null \in ReadLatest(loop.template)
  /\ loop' = [loop EXCEPT !.step = "permit"]
  /\ UNCHANGED <<durable, moka, queue, inFlight, tasks, engine>>

\* Permits are alike: the first free one is taken.
Spawn(s) ==
  /\ loop # Null
  /\ loop.step = "permit"
  /\ tasks[s] = Null
  /\ \A r \in Slot : tasks[r] = Null => s <= r
  /\ tasks' = [tasks EXCEPT ![s] = [template |-> loop.template, phase |-> "calling",
                                    model |-> Null, id |-> Null]]
  /\ loop' = Null
  /\ UNCHANGED <<durable, moka, queue, inFlight, engine>>

-----------------------------------------------------------------------------
(* judge_one, in the task that holds permit s.                             *)

At(s, phase) == tasks[s] # Null /\ tasks[s].phase = phase

Goes(s, phase) == tasks' = [tasks EXCEPT ![s].phase = phase]

CallFails(s) ==
  /\ CallFaults
  /\ At(s, "calling")
  /\ Goes(s, "done")
  /\ UNCHANGED <<durable, moka, queue, loop, inFlight, engine>>

\* An answer names the model the provider resolved the call to.
CallAnswers(s) ==
  /\ At(s, "calling")
  /\ lastId < MaxRecords
  /\ lastId' = lastId + 1
  /\ \E m \in Model :
       tasks' = [tasks EXCEPT ![s] = [@ EXCEPT !.phase = "record", !.model = m, !.id = lastId + 1]]
  /\ UNCHANGED <<bundle, verdicts, records, index, restarts, moka, queue, loop, inFlight, engine>>

RecordOf(task) == [template |-> task.template, model |-> task.model, id |-> task.id]

VerdictOf(task) ==
  [template |-> task.template, bundle |-> bundle, model |-> task.model, id |-> task.id]

\* Mutant of WriteRecord: a failed write is passed over.
WriteRecordAnyway(s) ==
  /\ At(s, "record")
  /\ \E written \in Written :
       records' = IF written THEN records \union {RecordOf(tasks[s])} ELSE records
  /\ Goes(s, "index")
  /\ UNCHANGED <<bundle, verdicts, index, lastId, restarts, moka, queue, loop, inFlight, engine>>

\* Nothing is cached without provenance: a record that could not be written
\* ends the judgment.
WriteRecord(s) ==
  /\ At(s, "record")
  /\ \E written \in Written :
       IF written
       THEN records' = records \union {RecordOf(tasks[s])} /\ Goes(s, "index")
       ELSE UNCHANGED records /\ Goes(s, "done")
  /\ UNCHANGED <<bundle, verdicts, index, lastId, restarts, moka, queue, loop, inFlight, engine>>

\* Mutant of WriteIndex: moka is filled before the verdict is written.
WriteIndexAndCache(s) ==
  /\ At(s, "index")
  /\ \E written \in Written : index' = IF written THEN index \union {tasks[s].id} ELSE index
  /\ moka' = [moka EXCEPT ![tasks[s].template] = VerdictOf(tasks[s])]
  /\ Goes(s, "verdict")
  /\ UNCHANGED <<bundle, verdicts, records, lastId, restarts, queue, loop, inFlight, engine>>

\* An index entry that could not be written is passed over.
WriteIndex(s) ==
  /\ At(s, "index")
  /\ \E written \in Written : index' = IF written THEN index \union {tasks[s].id} ELSE index
  /\ Goes(s, "verdict")
  /\ UNCHANGED <<bundle, verdicts, records, lastId, restarts, moka, queue, loop, inFlight, engine>>

\* One row per (template, bundle, model); a failed write leaves the record
\* orphaned.
WriteVerdict(s) ==
  /\ At(s, "verdict")
  /\ \E written \in Written :
       IF written
       THEN LET v == VerdictOf(tasks[s])
            IN  /\ verdicts' = {w \in verdicts : [w EXCEPT !.id = v.id] # v} \union {v}
                /\ Goes(s, "cache")
       ELSE UNCHANGED verdicts /\ Goes(s, "done")
  /\ UNCHANGED <<bundle, records, index, lastId, restarts, moka, queue, loop, inFlight, engine>>

FillCache(s) ==
  /\ At(s, "cache")
  /\ moka' = [moka EXCEPT ![tasks[s].template] = VerdictOf(tasks[s])]
  /\ Goes(s, "notify")
  /\ UNCHANGED <<durable, queue, loop, inFlight, engine>>

\* A try_send: a full channel loses the notice.
Notify(s) ==
  /\ At(s, "notify")
  /\ notices' = IF Len(notices) < NoticeCapacity
                THEN Append(notices, tasks[s].template) ELSE notices
  /\ Goes(s, "done")
  /\ UNCHANGED <<durable, moka, queue, loop, inFlight, reader, waiting>>

\* Mutant of Release: the permit is kept.
ReleaseTemplate(s) ==
  /\ At(s, "done")
  /\ inFlight' = inFlight \ {tasks[s].template}
  /\ UNCHANGED <<durable, moka, queue, loop, tasks, engine>>

\* However judge_one ended, its template leaves in_flight and the permit drops.
Release(s) ==
  /\ At(s, "done")
  /\ inFlight' = inFlight \ {tasks[s].template}
  /\ tasks' = [tasks EXCEPT ![s] = Null]
  /\ UNCHANGED <<durable, moka, queue, loop, engine>>

-----------------------------------------------------------------------------
(* The records of contextual checks, and restarts.                         *)

\* save_record, in the engine's task when a contextual check returns: the
\* record, then its index entry, which may fail after the record was written.
SaveRecord(t, m) ==
  /\ ContextualChecks
  /\ reader = Null
  /\ lastId < MaxRecords
  /\ lastId' = lastId + 1
  /\ records' = records \union {[template |-> t, model |-> m, id |-> lastId + 1]}
  /\ \E written \in Written : index' = IF written THEN index \union {lastId + 1} ELSE index
  /\ UNCHANGED <<bundle, verdicts, restarts, moka, judge, engine>>

\* The process ends, at any point, and another one opens the store.
Restart(b) ==
  /\ restarts < MaxRestarts
  /\ restarts' = restarts + 1
  /\ bundle' = b
  /\ moka' = [t \in Template |-> Null]
  /\ queue' = <<>> /\ loop' = Null /\ inFlight' = {}
  /\ tasks' = [s \in Slot |-> Null]
  /\ reader' = Null /\ waiting' = {} /\ notices' = <<>>
  /\ UNCHANGED <<verdicts, records, index, lastId>>

-----------------------------------------------------------------------------
Init ==
  /\ bundle \in Bundle
  /\ verdicts = {} /\ records = {} /\ index = {}
  /\ lastId = 0 /\ restarts = 0
  /\ moka = [t \in Template |-> Null]
  /\ queue = <<>> /\ loop = Null /\ inFlight = {}
  /\ tasks = [s \in Slot |-> Null]
  /\ reader = Null /\ waiting = {} /\ notices = <<>>

JudgeOne(s) ==
  \/ CallFails(s) \/ CallAnswers(s)
  \/ WriteRecord(s) \/ WriteIndex(s) \/ WriteVerdict(s)
  \/ FillCache(s) \/ Notify(s) \/ Release(s)

JudgeLoop == TakeJob \/ FindsJudged \/ NeedsCall \/ \E s \in Slot : Spawn(s)

VerdictFor == LookupReads \/ LookupFills \/ LookupEnqueues

Next ==
  \/ \E t \in Template : LookupMisses(t) \/ Evict(t)
  \/ VerdictFor
  \/ TakeNotice
  \/ JudgeLoop
  \/ \E s \in Slot : JudgeOne(s)
  \/ \E t \in Template, m \in Model : SaveRecord(t, m)
  \/ \E b \in Bundle : Restart(b)

Spec == Init /\ [][Next]_vars

\* The runtime polls its tasks: the loop, the calls (each bounded by the
\* client's timeout) and the engine go on; nothing makes a line arrive.
Fairness ==
  /\ WF_vars(VerdictFor)
  /\ WF_vars(TakeNotice)
  /\ WF_vars(JudgeLoop)
  /\ \A s \in Slot : WF_vars(JudgeOne(s))

FairSpec == Spec /\ Fairness
=============================================================================
