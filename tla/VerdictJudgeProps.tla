-------------------------- MODULE VerdictJudgeProps --------------------------
(***************************************************************************)
(* What the verdict store owes: provenance, one call per template, a cache *)
(* that agrees with the store, and no template left unjudged in silence.   *)
(***************************************************************************)
EXTENDS VerdictJudge

\* Every variable stays in its type.
TypeOK ==
  /\ bundle \in Bundle
  /\ verdicts \subseteq Verdict
  /\ records \subseteq DecisionRecord
  /\ index \subseteq RecordId
  /\ lastId \in 0 .. MaxRecords
  /\ moka \in [Template -> Verdict \union {Null}]
  /\ queue \in Seq(Template)
  /\ loop \in Steps \union {Null}
  /\ inFlight \subseteq Template
  /\ tasks \in [Slot -> Task \union {Null}]
  /\ reader \in Reading \union {Null}
  /\ waiting \subseteq Template
  /\ notices \in Seq(Template)
  /\ restarts \in 0 .. MaxRestarts

\* The newest verdict of t under this bundle.
Newest(t) == IF Rows(t) = {} THEN Null
             ELSE CHOOSE v \in Rows(t) : \A w \in Rows(t) : w.id <= v.id

\* What the task in slot s has come to.
Past(s, phases) == tasks[s] # Null /\ tasks[s].phase \in phases

-----------------------------------------------------------------------------
\* A verdict that anything can serve, from fjall, from moka or half-way
\* through a lookup, has its record, of the same judgment, whatever failed or
\* crashed on the way ("so nothing is cached without provenance").
EveryVerdictHasARecord ==
  /\ \A v \in verdicts : [template |-> v.template, model |-> v.model, id |-> v.id] \in records
  /\ \A t \in Template : moka[t] # Null =>
       [template |-> t, model |-> moka[t].model, id |-> moka[t].id] \in records
  /\ (reader # Null /\ reader.found # Null) =>
       [template |-> reader.template, model |-> reader.found.model, id |-> reader.found.id] \in records

\* One call per template: a template in flight is in hand exactly once, by
\* the loop or by one task, and none stays marked with nobody at work on it,
\* which would leave it unjudged until the restart.
InFlightIsWorked ==
  LET InHand(t) == loop # Null /\ loop.template = t
      WorkedBy(s, t) == tasks[s] # Null /\ tasks[s].template = t
  IN  \A t \in Template :
        /\ t \in inFlight <=> (InHand(t) \/ \E s \in Slot : WorkedBy(s, t))
        /\ ~(InHand(t) /\ \E s \in Slot : WorkedBy(s, t))
        /\ \A r, s \in Slot : WorkedBy(r, t) /\ WorkedBy(s, t) => r = s

\* moka serves what fjall would answer: the newest verdict of the template
\* under this bundle, never one of another bundle or an older one (reads that
\* do not fail; the two tasks that fill it race with the judge).
MokaIsNewest ==
  ~ReadFaults => \A t \in Template : moka[t] # Null => moka[t] = Newest(t)

\* A judged template costs no second call: one is started only while fjall
\* holds no verdict for it, whatever was queued meanwhile (reads that do not
\* fail).
NeverJudgedTwice ==
  [][\A s \in Slot : ~ReadFaults /\ tasks[s] = Null /\ tasks'[s] # Null
                       => Newest(tasks'[s].template) = Null]_vars

\* A host remembered as unjudged is owed a notice: its template has no verdict
\* yet, or the notice that it has is in the channel, or the task that judged
\* it has still to send it; also when the engine read the store before the
\* verdict came and remembers the host after (channels with room, reads that
\* do not fail).
WaitingIsOwed ==
  ~ReadFaults => \A t \in waiting :
    \/ Newest(t) = Null
    \/ \E n \in DOMAIN notices : notices[n] = t
    \/ \E s \in Slot : Past(s, {"cache", "notify"}) /\ tasks[s].template = t

\* A job taken in hand is let go in the end, by verdict or by failure: no
\* template stays in flight for ever (bound on records aside).
JobsResolve ==
  \A t \in Template : t \in inFlight ~> (t \notin inFlight \/ lastId = MaxRecords)

\* With a provider that answers and a store that takes its writes, a queued
\* template is judged, reads that fail notwithstanding (bound on records aside).
QueuedIsJudged ==
  \A t \in Template :
    (\E n \in DOMAIN queue : queue[n] = t) ~> (Newest(t) # Null \/ lastId = MaxRecords)

-----------------------------------------------------------------------------
(* The inductive invariant behind provenance, single calls and the cache.  *)

\* A task past its call knows the model and the judgment it stands for.
AnswersAreKnown ==
  \A s \in Slot : Past(s, {"record", "index", "verdict", "cache", "notify"}) =>
    tasks[s].model \in Model /\ tasks[s].id \in RecordId

\* A task past the write of its record has it.
RecordedFirst ==
  \A s \in Slot : Past(s, {"index", "verdict", "cache", "notify"}) => RecordOf(tasks[s]) \in records

\* At most one verdict per template and bundle.
OneRow == \A v, w \in verdicts : v.template = w.template /\ v.bundle = w.bundle => v = w

\* Nobody is about to judge what is judged.
OnlyUnjudgedInHand ==
  /\ (loop # Null /\ loop.step = "permit") => Rows(loop.template) = {}
  /\ \A s \in Slot : Past(s, {"calling", "record", "index", "verdict"}) => Rows(tasks[s].template) = {}

\* What moka serves, a lookup carries or a task will cache is a row.
ServedAreRows ==
  /\ \A t \in Template : moka[t] # Null => moka[t] \in Rows(t)
  /\ (reader # Null /\ reader.found # Null) => reader.found \in Rows(reader.template)
  /\ \A s \in Slot : Past(s, {"cache"}) => VerdictOf(tasks[s]) \in Rows(tasks[s].template)

IndInv ==
  /\ TypeOK
  /\ AnswersAreKnown
  /\ InFlightIsWorked
  /\ EveryVerdictHasARecord
  /\ RecordedFirst
  /\ ~ReadFaults => OneRow /\ OnlyUnjudgedInHand /\ ServedAreRows

-----------------------------------------------------------------------------
\* records_for_template: the indexed records of t, or, when it has no index
\* entry at all, all of its records by the legacy scan.
RecordsOf(t) == {r \in records : r.template = t}
Indexed(t) == {r \in RecordsOf(t) : r.id \in index}
RecordsForTemplate(t) == IF Indexed(t) # {} THEN Indexed(t) ELSE RecordsOf(t)

\* judge.rs, on a failed index write: "the record stays readable via the
\* legacy scan".
RecordsStayReadable == \A t \in Template : RecordsForTemplate(t) = RecordsOf(t)
=============================================================================
