---------------------------- MODULE AlarmEngine ----------------------------
(***************************************************************************)
(* The alarm state machine of oarfish-engine (machine.rs): one task that   *)
(* owns the open alarms, their silence timers, the tombstones of cleared   *)
(* alarms, the contextual checks in flight and the hosts that saw a        *)
(* template before it was judged.  It is the only writer of open alarms:   *)
(* it persists them, mirrors them in the snapshot the API serves and       *)
(* publishes every change.                                                 *)
(*                                                                         *)
(* Abstractions.  A line is (template, host, triggered): `triggered` is    *)
(* what window_triggered answers for it (WindowTable models the windows,   *)
(* AlarmWindows composes the two).  Time is a number of ticks left on each *)
(* timer and of ticks since each clear.  A verdict keeps what the gate     *)
(* reads of it.  Every handler is one step, as the owning task runs it:    *)
(* the loop of on_judged and the reload loop of `new` are one step per     *)
(* iteration.                                                              *)
(*                                                                         *)
(* A line that stops at the closed gate, at a check in flight or at a      *)
(* suppressed hot key (LineIgnored) changes nothing here: a stuttering     *)
(* step, which Next does not list.                                         *)
(***************************************************************************)
EXTENDS Naturals, Sequences, FiniteSets

CONSTANTS
  Template,        \* template ids
  Host,            \* hosts
  Verdicts,        \* the verdicts the model may answer with
  GateFloor,       \* config.gate_floor
  BypassSeverity,  \* config.bypass_severity
  Silence,         \* config.silence, in ticks
  Cooldown,        \* config.flap_cooldown, in ticks
  Mergeable,       \* pairs <<hi, lo>> a merge decision may join
  JudgedCapacity,  \* config.judged_capacity: notices the judge-completion channel holds
  StoreFaults,     \* TRUE: reads, writes and deletes of the store may fail
  BundleEdits,     \* TRUE: a restart may come with another bundle, hence no verdicts
  MaxAlarms,       \* bound: alarm ids generated
  MaxCount,        \* bound: occurrences folded into one alarm
  Null

Key   == Template \X Host          \* AlarmKey
Id    == 1 .. MaxAlarms            \* AlarmId, in the order of opened_at
Lane  == {"Page", "Dashboard"}     \* Record never reaches an alarm
Alarm == [id : Id, key : Key, severity : Nat, count : 1 .. MaxCount, lane : Lane]
Tombstone == [alarm : Alarm, age : 0 .. Cooldown + 1]

ASSUME EngineAssumption ==
  /\ Verdicts \subseteq [severity : Nat, actionable : BOOLEAN, contextual : BOOLEAN]
  /\ GateFloor \in Nat /\ BypassSeverity \in Nat
  /\ Silence \in Nat \ {0} /\ Cooldown \in Nat /\ JudgedCapacity \in Nat \ {0}
  /\ Mergeable \subseteq Template \X Template
  /\ StoreFaults \in BOOLEAN /\ BundleEdits \in BOOLEAN
  /\ MaxAlarms \in Nat /\ MaxCount \in Nat \ {0}

\* Null stands for "no entry" in every map.
ASSUME NullAssumption ==
  /\ Null \notin Key /\ Null \notin Alarm /\ Null \notin Nat
  /\ Null \notin Tombstone /\ Null \notin Verdicts

VARIABLES
  mode,        \* "loading" the persisted alarms, "running" the select loop, "stopped"
  loading,     \* persisted alarms `new` has still to insert
  open,        \* open: key -> alarm
  byId,        \* by_id: alarm id -> key
  timers,      \* timers: alarm id -> ticks left of its silence interval
  tombstones,  \* tombstones: key -> the alarm that closed, and how long ago
  inFlight,    \* in_flight: keys a contextual check is out for
  suppressed,  \* suppressed: keys whose last check said Record
  unjudged,    \* unjudged: template -> hosts that saw it before its verdict
  raising,     \* keys the loop of on_judged has still to visit
  checks,      \* spawned checks not applied yet: key -> severities at trip time
  judged,      \* templates in the judge-completion channel
  asked,       \* templates the judge was asked about and has not answered
  verdict,     \* what verdict_for serves: template -> verdict
  survivor,    \* what the alias table resolves each template to
  store,       \* the alarms keyspace: id -> alarm
  snapshot,    \* the open-alarm set /api/alarms serves: id -> alarm
  board,       \* history: a subscriber that applied every published change
  lastId       \* ids generated so far

tables   == <<open, byId, timers>>
outside  == <<verdict, survivor, asked>>
published == <<store, snapshot, board>>
vars == <<mode, loading, tables, tombstones, inFlight, suppressed, unjudged,
          raising, checks, judged, outside, published, lastId>>

-----------------------------------------------------------------------------
(* The raise rule.                                                         *)

\* gate: actionable, at or above the severity floor.
Gated(v) == v.actionable /\ v.severity >= GateFloor

Bypasses(v) == v.severity >= BypassSeverity

\* Mutant of Trips: the window is bypassed at the gate floor.
TripsAtFloor(v, triggered) == v.severity >= GateFloor \/ triggered

\* High severity bypasses the window; otherwise the window must trigger.
Trips(v, triggered) == Bypasses(v) \/ triggered

Higher(a, b) == IF a >= b THEN a ELSE b

\* One more occurrence of the alarm: count and severity only grow.
Bumped(a, severity) ==
  [a EXCEPT !.count = @ + 1, !.severity = Higher(@, severity)]

\* Mutant of LiveTombstone: the cooldown never ends.
AnyTombstone(k) == tombstones[k] # Null

LiveTombstone(k) == tombstones[k] # Null /\ tombstones[k].age <= Cooldown

WriteResults == IF StoreFaults THEN BOOLEAN ELSE {TRUE}

Put(map, a) == [map EXCEPT ![a.id] = a]

-----------------------------------------------------------------------------
(* Where an open alarm lives.                                              *)

\* Mutant of SaveAndSnapshot: a save that only ever inserts.
SaveOnce(a, removed, saved, deleted) ==
  /\ store' = [i \in Id |-> IF i = a.id /\ saved /\ store[i] = Null THEN a
                            ELSE IF i \in removed /\ deleted THEN Null ELSE store[i]]
  /\ snapshot' = [i \in Id |-> IF i = a.id THEN a
                               ELSE IF i \in removed THEN Null ELSE snapshot[i]]

\* save_and_snapshot after `removed` (a set of ids) left the store and the
\* snapshot.  A failed write leaves the old row, a failed delete the row.
SaveAndSnapshot(a, removed, saved, deleted) ==
  LET Row(i) == IF i \in removed /\ deleted THEN Null ELSE store[i]
      Shown(i) == IF i \in removed THEN Null ELSE snapshot[i]
  IN  /\ store' = [i \in Id |-> IF i = a.id /\ saved THEN a ELSE Row(i)]
      /\ snapshot' = [i \in Id |-> IF i = a.id THEN a ELSE Shown(i)]

\* Mutants of InsertOpen: the displaced alarm keeps its timer; the alarm gets
\* no timer.
InsertLeakingTimer(a) ==
  LET displaced == {i \in Id : open[a.key] # Null /\ open[a.key].id = i}
  IN  /\ open' = [open EXCEPT ![a.key] = a]
      /\ byId' = [i \in Id |-> IF i \in displaced THEN Null
                               ELSE IF i = a.id THEN a.key ELSE byId[i]]
      /\ timers' = [timers EXCEPT ![a.id] = Silence]
      /\ \E saved, deleted \in WriteResults : SaveAndSnapshot(a, displaced, saved, deleted)

InsertUnarmed(a) ==
  /\ open' = [open EXCEPT ![a.key] = a]
  /\ byId' = [byId EXCEPT ![a.id] = a.key]
  /\ UNCHANGED timers
  /\ SaveAndSnapshot(a, {}, TRUE, TRUE)

\* insert_open: the maps, the timer, the snapshot and the store.  An alarm it
\* displaces loses its timer, its id mapping, its snapshot entry and its row.
InsertOpen(a) ==
  LET displaced == {i \in Id : open[a.key] # Null /\ open[a.key].id = i}
  IN  /\ open' = [open EXCEPT ![a.key] = a]
      /\ byId' = [i \in Id |-> IF i \in displaced THEN Null
                               ELSE IF i = a.id THEN a.key ELSE byId[i]]
      /\ timers' = [i \in Id |-> IF i \in displaced THEN Null
                                 ELSE IF i = a.id THEN Silence ELSE timers[i]]
      /\ \E saved, deleted \in WriteResults : SaveAndSnapshot(a, displaced, saved, deleted)

\* publish Raised or Updated; a subscriber upserts.
Publish(a) == board' = Put(board, a)

\* raise: a fresh alarm with count 1.
Raise(k, severity, lane) ==
  /\ lastId < MaxAlarms
  /\ LET a == [id |-> lastId + 1, key |-> k, severity |-> severity, count |-> 1, lane |-> lane]
     IN  InsertOpen(a) /\ Publish(a)
  /\ lastId' = lastId + 1

-----------------------------------------------------------------------------
(* on_event and on_classified.                                             *)

Idle == mode = "running" /\ raising = {}

\* Mutant of KeyOf: the verdict is the survivor's, the key is not.
KeyUnresolved(t, h) == <<t, h>>

\* The key a line is filed under, once resolved through the alias table.
KeyOf(t, h) == <<survivor[t], h>>

\* No verdict yet, or it cannot be read: the judge is asked and the host
\* remembered.
LineUnjudged(t, h) ==
  /\ Idle
  /\ verdict[survivor[t]] = Null \/ StoreFaults
  /\ unjudged' = [unjudged EXCEPT ![survivor[t]] = @ \union {h}]
  /\ asked' = asked \union {survivor[t]}
  /\ UNCHANGED <<mode, loading, tables, tombstones, inFlight, suppressed, raising,
                 checks, judged, verdict, survivor, published, lastId>>

\* Mutant of Passes: a check in flight is not looked at.
PassesInFlight(t, h, triggered) ==
  LET k == KeyOf(t, h)
      v == verdict[survivor[t]]
  IN  /\ Idle
      /\ v # Null
      /\ Gated(v)
      /\ k \in suppressed => ~Trips(v, triggered)
      /\ suppressed' = suppressed \ {k}

\* The line passes the gate, no check is out for its key, and the key is not
\* suppressed unless the window has cooled, which ends the suppression.
Passes(t, h, triggered) ==
  LET k == KeyOf(t, h)
      v == verdict[survivor[t]]
  IN  /\ Idle
      /\ v # Null
      /\ Gated(v)
      /\ k \notin inFlight
      /\ k \in suppressed => ~Trips(v, triggered)
      /\ suppressed' = suppressed \ {k}

\* The line stops at the gate, at a check in flight, or at a suppressed key
\* whose window is still hot.
LineIgnored(t, h, triggered) ==
  LET k == KeyOf(t, h)
      v == verdict[survivor[t]]
  IN  /\ Idle
      /\ v # Null
      /\ \/ ~Gated(v)
         \/ k \in inFlight
         \/ k \in suppressed /\ Trips(v, triggered)
      /\ UNCHANGED vars

\* An open alarm takes the line: one more count, the timer starts over.
LineBumps(t, h, triggered) ==
  LET k == KeyOf(t, h)
      a == Bumped(open[k], verdict[survivor[t]].severity)
  IN  /\ Passes(t, h, triggered)
      /\ open[k] # Null
      /\ open[k].count < MaxCount
      /\ open' = [open EXCEPT ![k] = a]
      /\ timers' = [timers EXCEPT ![a.id] = Silence]
      /\ \E saved \in WriteResults : SaveAndSnapshot(a, {}, saved, TRUE)
      /\ Publish(a)
      /\ UNCHANGED <<mode, loading, byId, tombstones, inFlight, unjudged, raising,
                     checks, judged, outside, lastId>>

\* Inside the flap cooldown a line that trips re-opens the alarm that closed.
LineRevives(t, h, triggered) ==
  LET k == KeyOf(t, h)
      v == verdict[survivor[t]]
      a == Bumped(tombstones[k].alarm, v.severity)
  IN  /\ Passes(t, h, triggered)
      /\ open[k] = Null
      /\ LiveTombstone(k)
      /\ Trips(v, triggered)
      /\ tombstones[k].alarm.count < MaxCount
      /\ tombstones' = [tombstones EXCEPT ![k] = Null]
      /\ InsertOpen(a)
      /\ Publish(a)
      /\ UNCHANGED <<mode, loading, inFlight, unjudged, raising, checks, judged,
                     outside, lastId>>

\* Neither open nor revivable: a tombstone past the cooldown is dropped.
Unopened(k, v, triggered) ==
  /\ open[k] = Null
  /\ ~(LiveTombstone(k) /\ Trips(v, triggered))
  /\ tombstones' = [tombstones EXCEPT ![k] = IF LiveTombstone(k) THEN @ ELSE Null]

\* Below the raise rule: nothing but the housekeeping above.
LineCools(t, h, triggered) ==
  LET k == KeyOf(t, h)
      v == verdict[survivor[t]]
  IN  /\ Passes(t, h, triggered)
      /\ Unopened(k, v, triggered)
      /\ ~Trips(v, triggered)
      /\ UNCHANGED <<mode, loading, tables, inFlight, unjudged, raising, checks,
                     judged, outside, published, lastId>>

\* A flagged template waits for its contextual check (spawn_check).
LineChecks(t, h, triggered) ==
  LET k == KeyOf(t, h)
      v == verdict[survivor[t]]
  IN  /\ Passes(t, h, triggered)
      /\ Unopened(k, v, triggered)
      /\ Trips(v, triggered)
      /\ v.contextual
      /\ inFlight' = inFlight \union {k}
      /\ checks' = [checks EXCEPT ![k] = Append(@, v.severity)]
      /\ UNCHANGED <<mode, loading, tables, unjudged, raising, judged, outside,
                     published, lastId>>

\* Everything else raises at once, on the dashboard lane.
LineRaises(t, h, triggered) ==
  LET k == KeyOf(t, h)
      v == verdict[survivor[t]]
  IN  /\ Passes(t, h, triggered)
      /\ Unopened(k, v, triggered)
      /\ Trips(v, triggered)
      /\ ~v.contextual
      /\ Raise(k, v.severity, "Dashboard")
      /\ UNCHANGED <<mode, loading, inFlight, unjudged, raising, checks, judged, outside>>

-----------------------------------------------------------------------------
(* apply: one returning check.                                             *)

\* Mutant of Returns: the key stays in flight.
ReturnsHeld(k) ==
  /\ Idle
  /\ checks[k] # <<>>
  /\ checks' = [checks EXCEPT ![k] = Tail(@)]
  /\ UNCHANGED <<mode, loading, tombstones, inFlight, unjudged, raising, judged, outside>>

Returns(k) ==
  /\ Idle
  /\ checks[k] # <<>>
  /\ checks' = [checks EXCEPT ![k] = Tail(@)]
  /\ inFlight' = inFlight \ {k}
  /\ UNCHANGED <<mode, loading, tombstones, unjudged, raising, judged, outside>>

\* Mutant of CheckOvertaken: the answer withdraws the alarm from the board.
CheckWithdraws(k) ==
  /\ Returns(k)
  /\ open[k] # Null
  /\ board' = [board EXCEPT ![open[k].id] = Null]
  /\ UNCHANGED <<tables, suppressed, store, snapshot, lastId>>

\* The key opened while the check flew: the answer is dropped.
CheckOvertaken(k) ==
  /\ Returns(k)
  /\ open[k] # Null
  /\ UNCHANGED <<tables, suppressed, published, lastId>>

\* run_check hands back nothing when the call failed, timed out or answered
\* amiss; else whether the burst matters now, and the lane its wake_someone
\* routes to.
RunCheck == [matters : BOOLEAN, lane : Lane \union {"Record"}] \union {Null}

\* A failure raises rather than swallows, as does an answer whose record could
\* not be saved; what does not matter now is recorded only.
Routed(answer, saved) ==
  IF answer = Null \/ ~saved THEN "Dashboard"
  ELSE IF answer.matters THEN answer.lane ELSE "Record"

Routes(lane) == \E answer \in RunCheck, saved \in WriteResults : Routed(answer, saved) = lane

CheckRaises(k) ==
  /\ Returns(k)
  /\ open[k] = Null
  /\ \E lane \in Lane : Routes(lane) /\ Raise(k, Head(checks[k]), lane)
  /\ UNCHANGED suppressed

\* The key goes quiet.
CheckSilences(k) ==
  /\ Returns(k)
  /\ open[k] = Null
  /\ Routes("Record")
  /\ suppressed' = suppressed \union {k}
  /\ UNCHANGED <<tables, published, lastId>>

-----------------------------------------------------------------------------
(* The judge's side, and on_judged.                                        *)

\* Mutant of JudgeLands: nobody is notified.
JudgeLandsUnannounced(t) ==
  /\ t \in asked
  /\ verdict[t] = Null
  /\ \E v \in Verdicts : verdict' = [verdict EXCEPT ![t] = v]
  /\ asked' = asked \ {t}
  /\ UNCHANGED <<mode, loading, tables, tombstones, inFlight, suppressed, unjudged,
                 raising, checks, judged, survivor, published, lastId>>

\* A verdict is stored and cached, then the engine is notified, by a try_send:
\* the notice is lost when the channel is full, or the engine has stopped while
\* the judge still drains its queue.
JudgeLands(t) ==
  /\ t \in asked
  /\ verdict[t] = Null
  /\ \E v \in Verdicts : verdict' = [verdict EXCEPT ![t] = v]
  /\ asked' = asked \ {t}
  /\ judged' = IF mode = "running" /\ Cardinality(judged) < JudgedCapacity
               THEN judged \union {t} ELSE judged
  /\ UNCHANGED <<mode, loading, tables, tombstones, inFlight, suppressed, unjudged,
                 raising, checks, survivor, published, lastId>>

\* The call or a write failed, the queue was full, or the judge found the
\* verdict it had been asked for: no notice, and a later line asks again.
JudgeFails(t) ==
  /\ t \in asked
  /\ asked' = asked \ {t}
  /\ UNCHANGED <<mode, loading, tables, tombstones, inFlight, suppressed, unjudged,
                 raising, checks, judged, verdict, survivor, published, lastId>>

\* A merge decision lands: hi, and what resolves through it, now resolves as lo
\* does.  When hi was merged before, only some of what shares its survivor goes
\* through it.
MergeLands(hi, lo) ==
  /\ <<hi, lo>> \in Mergeable
  /\ survivor[lo] # survivor[hi]
  /\ \E moved \in SUBSET {t \in Template : survivor[t] = survivor[hi]} :
       /\ hi \in moved
       /\ survivor[hi] = hi => \A t \in Template : survivor[t] = hi => t \in moved
       /\ survivor' = [t \in Template |-> IF t \in moved THEN survivor[lo] ELSE survivor[t]]
  /\ UNCHANGED <<mode, loading, tables, tombstones, inFlight, suppressed, unjudged,
                 raising, checks, judged, verdict, asked, published, lastId>>

\* Mutant of Judged: the hosts are taken and none is visited.
JudgedDropping(t) ==
  /\ Idle
  /\ t \in judged
  /\ judged' = judged \ {t}
  /\ unjudged' = [unjudged EXCEPT ![t] = {}]
  /\ UNCHANGED <<mode, loading, tables, tombstones, inFlight, suppressed, raising,
                 checks, outside, published, lastId>>

\* on_judged: the waiting hosts are taken, and visited when the verdict is
\* gated and bypasses the window.
Judged(t) ==
  /\ Idle
  /\ t \in judged
  /\ judged' = judged \ {t}
  /\ unjudged' = [unjudged EXCEPT ![t] = {}]
  /\ raising' = IF Gated(verdict[t]) /\ Bypasses(verdict[t])
                THEN {t} \X unjudged[t]
                ELSE {}
  /\ UNCHANGED <<mode, loading, tables, tombstones, inFlight, suppressed, checks,
                 outside, published, lastId>>

\* on_judged_event could not read the verdict: the notice is used up for
\* nothing, and the judge is asked again.
JudgedUnread(t) ==
  /\ Idle
  /\ StoreFaults
  /\ t \in judged
  /\ judged' = judged \ {t}
  /\ asked' = asked \union {t}
  /\ UNCHANGED <<mode, loading, tables, tombstones, inFlight, suppressed, unjudged,
                 raising, checks, verdict, survivor, published, lastId>>

\* Mutant of RaiseFirstSighting: an open key is raised again.
RaiseTwice(k) ==
  /\ mode = "running"
  /\ k \in raising
  /\ raising' = raising \ {k}
  /\ Raise(k, verdict[k[1]].severity, "Dashboard")
  /\ UNCHANGED <<mode, loading, tombstones, inFlight, suppressed, unjudged, checks,
                 judged, outside>>

\* One host of that loop: skipped when its key is open already.
RaiseFirstSighting(k) ==
  /\ mode = "running"
  /\ k \in raising
  /\ raising' = raising \ {k}
  /\ IF open[k] # Null
     THEN UNCHANGED <<tables, published, lastId>>
     ELSE Raise(k, verdict[k[1]].severity, "Dashboard")
  /\ UNCHANGED <<mode, loading, tombstones, inFlight, suppressed, unjudged, checks,
                 judged, outside>>

-----------------------------------------------------------------------------
(* Time, and clear.                                                        *)

Ticks == {i \in Id : timers[i] # Null /\ timers[i] > 0}

Aging == {k \in Key : LiveTombstone(k)}

Tick ==
  /\ mode = "running"
  /\ Ticks # {} \/ Aging # {}
  /\ timers' = [i \in Id |-> IF i \in Ticks THEN timers[i] - 1 ELSE timers[i]]
  /\ tombstones' = [k \in Key |-> IF k \in Aging
                                  THEN [tombstones[k] EXCEPT !.age = @ + 1]
                                  ELSE tombstones[k]]
  /\ UNCHANGED <<mode, loading, open, byId, inFlight, suppressed, unjudged, raising,
                 checks, judged, outside, published, lastId>>

\* The silence timer of alarm i fires.  The early returns of clear, for an id
\* or a key it does not know, are never taken (Bookkeeping).
Clear(i) ==
  LET k == byId[i]
  IN  /\ Idle
      /\ timers[i] = 0
      /\ k # Null
      /\ open[k] # Null
      /\ timers' = [timers EXCEPT ![i] = Null]
      /\ byId' = [byId EXCEPT ![i] = Null]
      /\ open' = [open EXCEPT ![k] = Null]
      /\ \E deleted \in WriteResults :
           store' = IF deleted THEN [store EXCEPT ![i] = Null] ELSE store
      /\ snapshot' = [snapshot EXCEPT ![i] = Null]
      /\ tombstones' = [x \in Key |->
                          IF x = k THEN [alarm |-> open[k], age |-> 0]
                          ELSE IF LiveTombstone(x) THEN tombstones[x] ELSE Null]
      /\ board' = [board EXCEPT ![i] = Null]
      /\ UNCHANGED <<mode, loading, inFlight, suppressed, unjudged, raising, checks,
                     judged, outside, lastId>>

-----------------------------------------------------------------------------
(* Stop and start.                                                         *)

\* The run loop ends, its channel closed and drained, or the process dies, in
\* the reload perhaps.
Stop ==
  /\ mode # "stopped"
  /\ mode' = "stopped"
  /\ UNCHANGED <<loading, tables, tombstones, inFlight, suppressed, unjudged, raising,
                 checks, judged, outside, published, lastId>>

\* The alias table as reloaded: a template merged twice may be hooked to another
\* of its lower ones.
Rehooked ==
  {s \in [Template -> Template] :
     \A t \in Template : s[t] = survivor[t] \/
       (survivor[t] # t /\ \E lo \in Template : <<t, lo>> \in Mergeable /\ s[t] = survivor[lo])}

\* The persisted alarms load_open finds: an unreadable row is skipped.
ReadableRows ==
  LET rows == {i \in Id : store[i] # Null}
  IN  IF StoreFaults THEN SUBSET rows ELSE {rows}

\* Engine::new: empty tables, and the persisted alarms to insert, oldest first.
\* A restart under another bundle or question set finds no verdicts.
Start ==
  /\ mode = "stopped"
  /\ mode' = "loading"
  /\ loading' \in ReadableRows
  /\ open' = [k \in Key |-> Null]
  /\ byId' = [i \in Id |-> Null]
  /\ timers' = [i \in Id |-> Null]
  /\ tombstones' = [k \in Key |-> Null]
  /\ inFlight' = {}
  /\ suppressed' = {}
  /\ unjudged' = [t \in Template |-> {}]
  /\ raising' = {}
  /\ checks' = [k \in Key |-> <<>>]
  /\ judged' = {}
  /\ asked' = {}
  /\ \/ verdict' = verdict
     \/ BundleEdits /\ verdict' = [t \in Template |-> Null]
  /\ snapshot' = [i \in Id |-> Null]
  /\ survivor' \in Rehooked
  /\ board' = snapshot'
  /\ UNCHANGED <<store, lastId>>

\* Mutant of LoadNext: newest first.
LoadNewest(i) ==
  /\ mode = "loading"
  /\ i \in loading
  /\ \A j \in loading : i >= j
  /\ loading' = loading \ {i}
  /\ InsertOpen(store[i])
  /\ board' = snapshot'
  /\ UNCHANGED <<mode, tombstones, inFlight, suppressed, unjudged, raising, checks,
                 judged, outside, lastId>>

\* Insert the oldest alarm left.  No client is served before the reload ends,
\* and a client that connects fetches the snapshot.
LoadNext(i) ==
  /\ mode = "loading"
  /\ i \in loading
  /\ \A j \in loading : i <= j
  /\ loading' = loading \ {i}
  /\ InsertOpen(store[i])
  /\ board' = snapshot'
  /\ UNCHANGED <<mode, tombstones, inFlight, suppressed, unjudged, raising, checks,
                 judged, outside, lastId>>

\* Mutant of Run: the loop starts before the reload is through.
RunEarly ==
  /\ mode = "loading"
  /\ mode' = "running"
  /\ loading' = {}
  /\ UNCHANGED <<tables, tombstones, inFlight, suppressed, unjudged, raising,
                 checks, judged, outside, published, lastId>>

Run ==
  /\ mode = "loading"
  /\ loading = {}
  /\ mode' = "running"
  /\ UNCHANGED <<loading, tables, tombstones, inFlight, suppressed, unjudged, raising,
                 checks, judged, outside, published, lastId>>

-----------------------------------------------------------------------------
Init ==
  /\ mode = "running"
  /\ loading = {}
  /\ open = [k \in Key |-> Null]
  /\ byId = [i \in Id |-> Null]
  /\ timers = [i \in Id |-> Null]
  /\ tombstones = [k \in Key |-> Null]
  /\ inFlight = {}
  /\ suppressed = {}
  /\ unjudged = [t \in Template |-> {}]
  /\ raising = {}
  /\ checks = [k \in Key |-> <<>>]
  /\ judged = {}
  /\ asked = {}
  /\ verdict = [t \in Template |-> Null]
  /\ survivor = [t \in Template |-> t]
  /\ store = [i \in Id |-> Null]
  /\ snapshot = [i \in Id |-> Null]
  /\ board = [i \in Id |-> Null]
  /\ lastId = 0

Line(t, h, triggered) ==
  \/ LineUnjudged(t, h)
  \/ LineBumps(t, h, triggered)
  \/ LineRevives(t, h, triggered)
  \/ LineCools(t, h, triggered)
  \/ LineChecks(t, h, triggered)
  \/ LineRaises(t, h, triggered)

Apply(k) == CheckOvertaken(k) \/ CheckRaises(k) \/ CheckSilences(k)

Next ==
  \/ \E t \in Template, h \in Host, triggered \in BOOLEAN : Line(t, h, triggered)
  \/ \E k \in Key : Apply(k) \/ RaiseFirstSighting(k)
  \/ \E t \in Template :
       JudgeLands(t) \/ JudgeFails(t) \/ Judged(t) \/ JudgedUnread(t)
  \/ \E hi, lo \in Template : MergeLands(hi, lo)
  \/ \E i \in Id : Clear(i) \/ LoadNext(i)
  \/ Tick
  \/ Stop
  \/ Start
  \/ Run

Spec == Init /\ [][Next]_vars

\* The runtime polls every ready branch of the select loop in the end, and a
\* check is bounded by its timeout; lines and the judge owe nothing.
Fairness ==
  /\ WF_vars(Tick)
  /\ \A k \in Key : WF_vars(Apply(k)) /\ WF_vars(RaiseFirstSighting(k))
  /\ \A t \in Template : WF_vars(Judged(t) \/ JudgedUnread(t))
  /\ \A i \in Id : WF_vars(Clear(i)) /\ WF_vars(LoadNext(i))
  /\ WF_vars(Start) /\ WF_vars(Run)

FairSpec == Spec /\ Fairness
=============================================================================
