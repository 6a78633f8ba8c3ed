-------------------------- MODULE AlarmEngineProps --------------------------
(***************************************************************************)
(* What the alarm engine owes: its type, the agreement of the places an    *)
(* open alarm lives in, and what a step may never do to an alarm.          *)
(***************************************************************************)
EXTENDS AlarmEngine

\* Every variable stays in its type.
TypeOK ==
  /\ mode \in {"loading", "running", "stopped"}
  /\ loading \subseteq Id
  /\ open \in [Key -> Alarm \union {Null}]
  /\ byId \in [Id -> Key \union {Null}]
  /\ timers \in [Id -> (0 .. Silence) \union {Null}]
  /\ tombstones \in [Key -> Tombstone \union {Null}]
  /\ inFlight \subseteq Key
  /\ suppressed \subseteq Key
  /\ unjudged \in [Template -> SUBSET Host]
  /\ raising \subseteq Key
  /\ checks \in [Key -> Seq(Nat)]
  /\ judged \subseteq Template
  /\ asked \subseteq Template
  /\ verdict \in [Template -> Verdicts \union {Null}]
  /\ survivor \in [Template -> Template]
  /\ store \in [Id -> Alarm \union {Null}]
  /\ snapshot \in [Id -> Alarm \union {Null}]
  /\ board \in [Id -> Alarm \union {Null}]
  /\ lastId \in 0 .. MaxAlarms

-----------------------------------------------------------------------------
(* Bookkeeping: one alarm per key, and every table tells the same story.   *)

\* An open alarm is filed under its own key, and by_id leads back to the key.
OpenIsIndexed ==
  \A k \in Key : open[k] # Null => open[k].key = k /\ byId[open[k].id] = k

\* by_id knows only open alarms: a lookup by id never meets a dead key.
IndexIsOpen ==
  \A i \in Id : byId[i] # Null => open[byId[i]] # Null /\ open[byId[i]].id = i

\* Exactly the open alarms hold a silence timer: no open alarm that never
\* clears, no leaked timer that clears the alarm that took its place.
TimersArmOpen == \A i \in Id : timers[i] # Null <=> byId[i] # Null

\* What /api/alarms serves is the open set, with the content of the open map.
SnapshotIsOpen ==
  \A i \in Id : snapshot[i] = IF byId[i] = Null THEN Null ELSE open[byId[i]]

\* open, by_id, timers and the snapshot agree after every handler
\* (insert_open, clear, the bump and the reload loop of Engine::new).
Bookkeeping == OpenIsIndexed /\ IndexIsOpen /\ TimersArmOpen /\ SnapshotIsOpen

\* A subscriber that fetched the snapshot and applied every published change
\* shows exactly the open alarms: no handler changes one without publishing.
FeedMirrorsSnapshot == board = snapshot

\* With a store that does not fail, what a restart would reload is what the
\* board shows, in every state: a crash never drops or resurrects an alarm.
StoreMirrorsOpen ==
  ~StoreFaults => \A i \in Id : i \notin loading => store[i] = snapshot[i]

\* A tombstone keeps the last content of an alarm of its key that is closed:
\* reviving it can never open an alarm twice or take over another's id.
TombstonesAreClosed ==
  \A k \in Key : tombstones[k] # Null =>
    /\ tombstones[k].alarm.key = k
    /\ byId[tombstones[k].alarm.id] = Null

\* The tables after every handler, with a store that may fail: open alarms,
\* their indexes and timers, what is shown and published, and the tombstones
\* of what was closed contradict each other nowhere.
TablesAgree == Bookkeeping /\ FeedMirrorsSnapshot /\ TombstonesAreClosed

\* A key is marked in flight exactly while one check of it is out: a mark
\* without a check would make the key deaf for ever, a second check would
\* judge the same burst twice.  A key being checked is not also suppressed.
OneCheckInFlight ==
  /\ \A k \in Key : Len(checks[k]) = IF k \in inFlight THEN 1 ELSE 0
  /\ inFlight \intersect suppressed = {}

\* Ids are handed out in order and name one alarm each: an indexed id, a
\* persisted row and a tombstone were all raised, a row is filed under its own
\* id, and no two tombstones share one (AlarmId::generate, insert_open, clear).
IdsAreUnique ==
  /\ \A i \in Id : byId[i] # Null => i <= lastId
  /\ \A i \in Id : store[i] # Null => store[i].id = i /\ i <= lastId
  /\ \A k \in Key : tombstones[k] # Null =>
       /\ tombstones[k].alarm.id <= lastId
       /\ \A x \in Key : tombstones[x] # Null /\ tombstones[x].alarm.id = tombstones[k].alarm.id
                         => x = k

\* A reload starts from nothing: its rows are there and not yet indexed, no
\* tombstone outlives the process, and no line is served before it is through.
ReloadIsClean ==
  /\ mode = "running" => loading = {}
  /\ mode = "loading" => \A k \in Key : tombstones[k] = Null
  /\ \A i \in loading : store[i] # Null /\ byId[i] = Null

\* Whatever may still raise without another line stands behind the gate: a
\* notice tells of a verdict, and a host of the on_judged loop and a check out
\* for a key have one that is gated.
PendingIsGated ==
  /\ \A t \in judged : verdict[t] # Null
  /\ \A k \in raising : verdict[k[1]] # Null /\ Gated(verdict[k[1]])
  /\ \A k \in Key : checks[k] # <<>> => verdict[k[1]] # Null /\ Gated(verdict[k[1]])

\* The inductive invariant: what the bookkeeping and the gate rest on.
IndInv ==
  /\ TypeOK
  /\ Bookkeeping
  /\ TombstonesAreClosed
  /\ IdsAreUnique
  /\ ReloadIsClean
  /\ PendingIsGated

-----------------------------------------------------------------------------
(* What a step may never do.                                               *)

\* Nothing that has surfaced is ever withdrawn: an alarm leaves the board
\* only when its silence has run out, or with the process.
OnlySilenceClears ==
  [][mode = "running" =>
       \A i \in Id : board[i] # Null /\ board'[i] = Null => timers[i] = 0]_vars

\* While it is shown, an alarm keeps its key and lane and only grows in count
\* and severity, whatever the verdicts of later lines say.
AlarmsOnlyGrow ==
  [][\A i \in Id : board[i] # Null /\ board'[i] # Null =>
       /\ board'[i].key = board[i].key
       /\ board'[i].lane = board[i].lane
       /\ board'[i].count >= board[i].count
       /\ board'[i].severity >= board[i].severity]_vars

\* What has surfaced stays: no verdict, check, merge or bundle edit withdraws an
\* alarm, changes it into another or takes a line back from it.
SurfacedStays == OnlySilenceClears /\ AlarmsOnlyGrow

\* An alarm appears only behind the gate: its template has a verdict that is
\* actionable at or above the floor ("no verdict yet means no raise").
RaisesAreGated ==
  [][mode = "running" =>
       \A i \in Id : board[i] = Null /\ board'[i] # Null =>
         /\ verdict[board'[i].key[1]] # Null
         /\ Gated(verdict[board'[i].key[1]])]_vars

\* An id comes back only as the alarm of the tombstone it left, for the same
\* key and with its count carried on; every other raise has a new id.
IdsAreNotRecycled ==
  [][mode = "running" =>
       \A i \in Id : board[i] = Null /\ board'[i] # Null =>
         \/ i > lastId /\ board'[i].count = 1
         \/ LET k == board'[i].key
            IN  /\ tombstones[k] # Null
                /\ tombstones[k].age <= Cooldown
                /\ tombstones[k].alarm.id = i
                /\ board'[i].count = tombstones[k].alarm.count + 1]_vars

\* A reload keeps, of several persisted alarms of one key (a delete failed),
\* the newest: a row read opens an alarm of its key, and never takes the place
\* of a younger one, whose row it would delete (load_open, insert_open).
ReloadKeepsNewest ==
  [][mode = "loading" =>
       /\ \A i \in loading \ loading' : open'[store[i].key] # Null
       /\ \A k \in Key : open[k] # Null => open'[k] # Null /\ open'[k].id >= open[k].id]_vars

\* Nobody waits for the notice of t in vain: no host does, or the verdict is
\* still to come, or the notice of it is on its way.
Owed(t) == unjudged[t] = {} \/ verdict[t] = Null \/ t \in judged

\* A host remembered as unjudged is forgotten in one way only: the verdict
\* lands while the channel of notices is full (judge_one's try_send).  No line,
\* check, merge, clear or notice for another template does it (the verdict is
\* read before the judge's task fills the cache and notifies; on_judged takes
\* the hosts of its own template alone).
OnlyAFullChannelForgets ==
  [][mode = "running" /\ ~StoreFaults =>
       \A t \in Template :
         Owed(t) /\ ~Owed(t)' => ~(Cardinality(judged) < JudgedCapacity)]_vars

-----------------------------------------------------------------------------
(* The durable open alarms live as AlarmLifecycle says (a store that does  *)
(* not fail).                                                              *)

Lifecycle == INSTANCE AlarmLifecycle WITH
  alarms <- store,
  resting <- [k \in Key |-> IF tombstones[k] = Null THEN Null ELSE tombstones[k].alarm],
  born <- lastId

\* The engine implements the lifecycle: one open alarm per key, ids that open
\* once or revive, alarms that only grow, nothing lost across a crash.
ImplementsLifecycle == Lifecycle!LifecycleSpec

-----------------------------------------------------------------------------
(* What must happen in the end.                                            *)

\* An alarm whose template was merged away gets no line any more (lines key on
\* the survivor), so nothing can keep it open past its silence (a loop of on_judged that
\* the bound on ids holds up aside).
OrphanedAlarmClears ==
  \A t \in Template, h \in Host :
    (survivor[t] # t /\ open[<<t, h>>] # Null)
      ~> (open[<<t, h>>] = Null \/ mode # "running" \/ lastId = MaxAlarms)

\* A contextual check never leaves its key deaf: the key is released, with an
\* alarm, a suppression or an answer dropped (or the process stops, or the
\* bound on ids is met).
ChecksResolve ==
  \A k \in Key : k \in inFlight ~> (k \notin inFlight \/ mode # "running" \/ lastId = MaxAlarms)

\* A host that saw a template before its verdict, when the verdict is critical
\* and its notice arrives, gets its alarm without a second line.
FirstSightingRaises ==
  \A t \in Template, h \in Host :
    (/\ mode = "running" /\ t \in judged /\ h \in unjudged[t]
     /\ Gated(verdict[t]) /\ Bypasses(verdict[t]))
      ~> (open[<<t, h>>] # Null \/ mode # "running" \/ lastId = MaxAlarms)

\* A reload that is not cut short opens every alarm it found, and then runs.
RestartReopens ==
  \A i \in Id :
    (mode = "loading" /\ i \in loading)
      ~> (mode = "stopped" \/ (mode = "running" /\ (board[i] # Null \/ StoreFaults)))
=============================================================================
