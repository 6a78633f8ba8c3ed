# oarfish in TLA+

A verification project for oarfish, the log-to-alarm daemon of this repository.
TLA+ modules model its state machines, TLC checks them on small instances, and
TLAPS proves the invariants and the step properties for every value of the constants.
Source paths below are relative to `src/crates/`.

## 1. Inventory

A line enters at a listener, is masked, and is assigned by Drain to a template.
The engine takes (line, template): it resolves merged templates, looks the
template's verdict up, counts the line in a window and decides on an alarm.
A missing verdict is asked of a model, once per template, off the line path;
so are merges of similar templates. Open alarms are persisted, mirrored in a
snapshot the API serves, and published as a stream of changes.

| Component | Source | State | Operations | Hard behaviour | What makes it correct |
|---|---|---|---|---|---|
| Alarm engine | `oarfish-engine/src/machine.rs` | open, by_id, timers, tombstones, in_flight, suppressed, unjudged | line, check outcome, first judgement, expiry, reload, stop | answers that return to a changed state; five copies of an alarm; crash between handlers; failed writes | tables agree; store and stream mirror them; one alarm per key; raises gated; nothing withdrawn |
| Windows | `oarfish-engine/src/windows.rs` | two bucket rings and hosts per template, last sweep | record, sweep, evict | ring wrap, idle sweep, eviction at the cap | counts are sliding counts; bounded; only idle or stalest windows go |
| Gate, contextual checks | `gate.rs`, `context.rs`, `questions.rs` | none | gate, run_check | a check flies for seconds | a failed check raises |
| Verdict store and judge | `oarfish-store/src/{verdicts,verdict_cache,judge}.rs` | fjall rows, records, index, moka, queue, in_flight, permits | lookup, enqueue, judge loop, judge_one, restart | two fillers of one cache; four writes that may fail or be cut; bounded channels | provenance; one call per template; newest row served; waiting hosts get their notice |
| Merge store and judge | `oarfish-store/src/{merges,merge_cache,merge_judge}.rs` | decision rows, moka, alias table, queue | refer, merge loop, judge_one, resolve, remove_pair, load_aliases | alias hooked after the row; chains of merges; removal racing a decision | aliases descend and are decided; resolution ends; a bundle's merges survive its restarts |
| Alarm store, snapshot | `oarfish-store/src/alarm_store.rs`, `oarfish-core/src/snapshot.rs` | rows, open set | save, remove, load_open | failed writes, ties of opened_at | see the engine |
| Drain | `oarfish-drain/src/{drain,tree}.rs` | cluster table, stamps, length index, parse tree | train, evict, forget, neighbours | eviction touches four structures; ids move by generalisation | no dead cluster reachable; bounded |
| Listeners | `oarfish-ingest/src/{syslog,otlp,journal,shed,host}.rs` | shed counter, open connections, exports under way, the journal's thread | UDP frame, TCP connection, export, journal entry | shedding against back-pressure, a retried export, dates without a year or a zone, stop | a stop ends and loses nothing accepted; an answered export is whole; no line gets another's context |
| Pipeline | `oarfish-ingest/src/pipeline.rs` | two bounded channels, the line in hand | recv, assign, refer, forward | ends by the drop of the last sender, or with the engine | lines keep their order |
| API and stream | `oarfish-api/src/lib.rs` | broadcast receivers | alarms, stream | lag, shutdown with open streams | a lagging subscriber resyncs |
| Board | `web/src/lib/connection.svelte.ts` | list of alarms, connection | fetch, apply change, resync | a fetch races the stream | the list settles on the open set |
| Daemon | `oarfish/src/main.rs` | tasks, cancel token | wiring, shutdown, `masks synthesize` | the order of the stop | everything accepted is handled, and the process ends |
| Masking, synthesis | `oarfish-mask/src` | bundle, report | parse, mask, find candidates, merge, mend, write | a model may propose anything | what is written loads, and masks once and for all |
| Judge client, proposal client, core types, web rendering | `oarfish-jev`, `oarfish-synth`, `oarfish-core`, `web` | none | HTTP, data, view | | |

Interaction: the listeners share one bounded channel into the pipeline, which
owns Drain and sends what it classifies into the engine's channel; each channel
closes when its last sender is dropped, which is how a stop travels down. The
pipeline calls `Merges::refer`; the engine calls `resolve` and `verdict_for` synchronously; a miss is
an enqueue to the judge's bounded channel; the judge answers through the store
(rows and cache) and a `try_send` of the first judgement to the engine; the
merge judge answers through the alias table; contextual checks are spawned
tasks that send their outcome back; the API reads the snapshot and subscribes
to the broadcast of changes.

## 2. Modules

| Module | Role |
|---|---|
| `AlarmEngine` | the engine: one action per handler branch, over a store that may fail |
| `AlarmEngineProps` | its type, inductive invariant, safety, action and liveness properties; the refinement |
| `AlarmLifecycle` | abstract specification of durable open alarms: Open, Grow, Close, Reopen, Forget |
| `AlarmEngineProofs` | theorems of the engine, alone and on its real windows |
| `WindowTable`, `WindowTableProofs` | the window table, with a history of every line taken |
| `AlarmWindows` | engine and windows composed: `triggered` is what the windows answer |
| `VerdictJudge`, `VerdictJudgeProps`, `VerdictJudgeProofs` | verdict lookups and the judge, one action per write |
| `MergeAliases`, `MergeAliasesProofs` | referral, merge judge and alias table, one action per write |
| `DrainTable`, `DrainProofs` | the clusterer as the pipeline drives it: tree, table, indexes, evictions, referral |
| `Intake`, `IntakeProps`, `IntakeProofs` | listeners, both channels, pipeline, the engine's end of it, start and stop of the daemon |
| `Relay` | abstract specification of that way: Accept, Handle, Stop, Crash |
| `Board`, `BoardProofs` | the API's list and stream, and the page that reads them |
| `LineEvents` | what a frame, an export record and a journal entry become; pure operators |
| `MaskSynthesis` | bundles, masking, and `masks synthesize` up to the daemon that loads its file |
| `Lines`, `LinesProofs` | `MaskSynthesis` and `LineEvents` composed: the bundle a run wrote, and the lines it then serves |
| `MC*` | instances for TLC |

How state and actions correspond to the code (PROJECT.json maps every
definition to its lines):

* **AlarmEngine.** Variables carry the names of the fields of `Engine`
  (`byId` is `by_id`). `Line*` are the early returns and branches of
  `on_classified`, in its order: `LineUnjudged`, `LineIgnored` (closed gate,
  check in flight, hot suppression: no state changes, so `Next` does not list
  it), `LineBumps`, `LineRevives`, `LineCools`, `LineChecks`, `LineRaises`.
  `Check*` are the branches of `apply`, over what `RunCheck` may answer and
  where `Routed` sends it, `Judged` and `RaiseFirstSighting` the
  two halves of `on_judged` (its loop is a step per host), `Clear`, `Stop`,
  `Start`/`LoadNext`/`Run` the expiry, the end of the loop and the reload of
  `Engine::new`. `JudgeLands`, `JudgeFails` and `MergeLands` are what the
  engine sees of the two judges; `VerdictJudge` and `MergeAliases` model them
  in full (`AnswersMoveByMerges` is what `MergeLands` relies on).
  `store`, `snapshot` and `board` are the keyspace, the served set and a
  subscriber that applied every published change. A handler is one step
  because one task owns the tables and awaits nothing inside a handler.
* **WindowTable.** A ring is its slots with the bucket each counts. `history`
  records every line, so that what `record` returns can be compared with what
  happened.
* **AlarmWindows.** A line is recorded before it is judged, and what `record`
  returned decides. The history variable `bursts` holds, for each check in
  flight, the stats of the line that spawned it (`BurstContext` carries them to
  the prompt), so that a late raise can be traced to a triggered window.
* **VerdictJudge.** The engine's lookup is three steps (moka, rows, fill or
  enqueue), because the judge runs in parallel; the judge loop is read, check,
  permit, spawn; `judge_one` is one action per write, each of which may fail,
  and a `Restart` may come between any two. A verdict is the identity of its
  judgement, a record likewise. `SaveRecord` is the record of a contextual
  check.
* **MergeAliases.** Templates are numbered in the order of their ids, so that
  "greater id onto lesser" is `>`. `Close` are the pairs Drain would refer.
  `Resolve` follows at most `MaxHops` aliases. A removal is the steps of
  `remove_pair`, each of which `judge_one` may meet: it collects the keys
  (`RemoveScans`), deletes row by row (`RemoveRow`, which may fail), drops the
  pair from moka (`RemoveInvalidates`) and unhooks its alias (`RemoveUnhooks`),
  also for a pair that has no row. The history variable `spoiled` tells whether a
  read has failed over rows it had, or a removal has begun: what the rows promise
  is claimed until then.
* **DrainTable.** A line is the sequence of its tokens. A node of the tree is
  the path of edge keys that leads to it, so `tree` is a function from paths to
  leaves; a walk is stated by what holds at each level of the path it takes:
  `SearchPaths` is the one `tree::search` ends at, or none, `InsertPath` the one
  `tree::insert` makes. A leaf is the set of the sequence numbers in it: each is
  pushed once, higher than those before, and removal keeps the order, so "the
  first of equals" is the least. The evictions name at once all a loop would
  forget one by one. `Train` is one step, as `train_get` and the referral behind it
  run in the one task of the pipeline: it joins (`Join`) or opens (`Open`) a
  cluster, after which the leaf and the table make room (`EvictFromLeaf`,
  `Evict`, both through `Forget`). `last` is what `assign` hands on and refers,
  `home` the history of which cluster took each line.
* **Intake.** One action per await-free stretch of a task. `Datagram`,
  `Accept`/`ConnReads`/`ConnDrops`/`ConnStops`/`ConnSendFails`, `Export*` and
  `Journal*` are the four listeners; `Pipeline*` and `Engine*` the consumers;
  `Binds` to `Exits` are `run_daemon`, `CloseFails` the error
  that leaves it with the journal's thread unjoined. `EngineDies` can be seen only
  in builds that unwind: the release profile aborts the process (Cargo.toml:85). A `send().await` on a full channel puts
  its sender in line (`blocked`), and `PipelineReceives` gives the freed place
  to the first of them, as tokio does, so nobody who only tries can overtake.
  A sender that is dropped leaves the line (`LineWithout`). `SendersLeft` says
  who still holds a `Sender`: `recv` answers None only when nobody does. There
  the sockets let go at the token; in the code one that has a frame at hand when
  the token falls may take it first, which is a step before the token here.
  `IntakeProps` maps this state onto `Relay`: its transit is the engine's
  channel, the line in hand and the queue, end to end.
* **Board.** `Writes` and `Publishes` are the two halves of an engine's handler
  (the snapshot changes before the broadcast), `Streams` moves changes to the
  wire and turns a lag into a resync, `Dispatches` is the event handler of the
  page, and each fetch is three steps: asked, answered, applied. `doubt` is a
  history variable: whether the answer now shown was overtaken, or a fetch
  failed.
* **LineEvents, MaskSynthesis, Lines.** A text is a sequence of words; a
  pattern is the set of texts it matches. `ResolveYear`, `BodyOffset`,
  `FrameToEvent`, `RequestToEvents` and `RecordToEvent` carry the names of the
  functions they model; the calendar is cut to few and short months, with leap
  days. A device writes a day in its zone; with a year (RFC 5424) the stamp names the
  moment, without one the daemon reads it in its own `Zone`. `BodyOffset` splits a
  frame only when a timestamp came of the stamp: a 29th of February that the year
  found for it lacks leaves the frame whole. The parser cuts a `hostname`; of a frame without a
  stamp that is a guess, any word that leads the text or none, whatever `host` the
  device wrote. `Template` is the masker's one pass over a line, `Parses` all the
  refusals of `Bundle::parse`, and `command` the place `run` is at: asking,
  weighing, mending, checking. A model answers any list of the proposals.

What is abstracted: times are ticks; severities are three ranks around the
floor and the bypass; prompts, answers, confidences and text are left out;
alarm ids are numbers in order of `opened_at` (ties of that clock are not
modelled, nor is a clock set back).

## 3. Runs

Eleven runs must pass and one shows a disagreement. Each property of a passing
run has a mutant, a plausible bug written beside the definition it mutates, that
TLC finds violated under the same configuration.

| Run | Question | Bounds |
|---|---|---|
| `EngineSafety` | tables, feed, tombstones and checks whatever the store does; what no step may do; reload over leftover rows | 1 template, 2 hosts, 2 alarm ids (two rows of one key can meet in a reload), counts to 2, silence and cooldown of one tick, failing store, bundle edits |
| `EngineLiveness` | lifecycle, store against memory, what must happen, merges under way; are waiting hosts forgotten by a full channel only | 2 templates that may merge, 1 host, 2 alarm ids, notice channel of 1: the second notice meets it full |
| `EngineBursts` | is every burst covered and no silence longer than the burst, did every raise below the bypass take a triggered window, its own or its check's | 1 template, 2 hosts, rings of 2 and 4 buckets, threshold 2, 4 seconds: both rings wrap once |
| `Windows` | are counts, hosts and span true of the lines, does the raise rule fire at bursts of them and at nothing else, is the table bounded | 3 templates of up to 3 lines over 2 windows, 6 seconds over rings spanning 2 and 4: every slot is reused, the cap and the sweep both bite |
| `JudgeSafety` | provenance, single calls, cache, notices | 2 templates, 2 bundles, 2 calls at once, 2 judgements, 1 crash, failing calls and writes |
| `JudgeLiveness` | do jobs end | 2 templates, queue of 1, 1 permit, failing reads, records of contextual checks |
| `MergeSafety` | decisions, cache and aliases; crashes; removals; is a yes of the running bundle hooked and its pair not asked again; does an answer of `resolve` move only by a merge that lands | 3 templates in a chain (2 hops), 2 bundles, 2 decisions, 1 crash, failing reads and writes, removals in steps |
| `MergeBundles` | finding | 2 templates, 2 bundles, 1 decision, 1 restart |
| `Drain` | do all indexes hold the table, do templates fit, is a line found again, who is forgotten | 8 lines of 2 and 3 tokens with numbers and words in front, fan-out 2, leaf cap 2, table cap 3, threshold 2/3, 6 lines trained: both evictions, pruning of a parameter child and referrals all occur |
| `Intake` | is anything accepted lost by a stop, is an answered export whole, do lines keep their order, does every wait end | 1 connection, both channels of 1, an export of 2 records, a journal, 1 board, an engine that may die |
| `Board` | is whatever the page shows wrong made good, does it catch up | 2 alarms of 1 version, feed and wire of 1, 1 fetch out |
| `Lines` | is the written bundle sound; does a line keep its own time, host and context | 2 starting bundles, 3 corpora, answers of up to 2 of 8 proposals, one for each check of the parser; frames of 18 days around two New Years and a leap day, from a device in the daemon's zone and one a day off it, with delays of 2 days either way and of 10, from which no year around has the leap day; requests of 2 resources, 3 scopes, 4 records |

Why such bounds are enough: every property relates at most two keys, two alarm
ids or two judgements of one template; a third id or a second crash only
repeats a step the state has forgotten. The time constants are one tick, the
least at which a timer can be armed, fire and be raced; the theorems lift
the safety properties to all values (section 4 says under which hypotheses).
The merges of `MergeSafety` are a chain: a template merged into two lesser ones,
and a chain longer than the hops of `resolve`, are left to the theorems. In `Intake` a channel of one place is full as often as it can be,
the pipeline adds a second place and the engine's channel a third; one
connection, the export and the journal compete for the place, so a line of three
can form. No property reads the shed counter, so it stands still there
(`MaxShed` 0). In `Board` one fetch out at a time and one place of feed are
enough for a lag, an answer overtaken by the stream, and a stream overtaken by
an answer. Bounds that
cap a counter (`MaxAlarms`, `MaxCount`, `MaxRecords`, `MaxDecisions`,
`MaxRestarts`, `MaxNow`, `MaxLines`, `MaxTicks`, `MaxBoards`, `MaxFetches`) stand in the guard of the action that
would exceed them, and liveness properties except the states that have met them.
`EngineSafety`, `JudgeSafety`, `MergeSafety` and `Windows` use symmetry of
hosts, templates or bundles; they check no liveness.

Deadlock is checked in every run: a stopped engine can always start, lookups
can always miss, the clocks of the windows and of the clusterer stutter at
their bounds, a process that is over stays over, and a settled board waits.

### Fairness

`FairSpec` of the engine: the select loop is polled for ever and `tokio::select!`
picks a ready branch at random, so a branch that stays ready is taken in the
end: weak fairness of each handler whose input is there (outcomes, notices, the
first-sighting loop, timers, the reload). Nothing makes a line arrive, a model answer
a question, or a merge happen. A check has its timeout, hence always an outcome.
`FairSpec` of the judges: the loop and each spawned task are polled, calls end
(by their timeout), permits are fair. Nothing makes a template miss or a pair be
referred.

`Intake`: tasks are polled and threads run, so each task that can go on does
(weak fairness of the step it is at). A connection selects between its next line
and the token at random, with lines always at hand: that it sees the token in
the end is strong fairness of `ConnStops`. Nobody has to send anything, sign
off, or ask for a stop, and a board may stay for ever: its stream ends by the
token it races. `Board`: the engine publishes what it wrote, the browser
reconnects (EventSource does), events and answers arrive; `quiet` says that
nothing changes, fails or breaks any more, and nothing makes it quiet.

## 4. Proofs

Each component has one module of theorems; PROJECT.json lists those a reader
should know of. They assume the named assumptions on the constants
(`EngineAssumption`, `NullAssumption`, `WindowAssumption`, `NullIsNoWindow`, `WindowsAssumption`,
`WindowsNull`, `JudgeAssumption`, `MergeAssumption`, `IntakeAssumption`, `BoardAssumption`,
`DrainAssumption`, `CalendarAssumption`, `SynthesisAssumption`,
`LinesAssumption`), which TLC evaluates in the runs of those modules, and what a
theorem itself names:

| Hypothesis | Of | Why |
|---|---|---|
| `[][NoticesFit]_vars` | `NobodyWaitsInVain` (judge) | a notice dropped at a full channel does leave its hosts waiting; no configuration rules that out, so the engine's theorem (`ForgettingIsBounded`) says what remains without it |
| `~StoreFaults` | `LifecycleImplemented`, `BurstHolds` | a write that failed is missing from the rows, a verdict that cannot be read gates nothing |
| `Param \notin Token` | `FitHolds`, `RefindHolds` | a line holding the parameter's own text loses its cluster (section 5) |

* **Engine.** `Bookkeeping` alone is not inductive: that inserting an alarm
  leaves the tables in agreement needs its id to be new or to come from a closed
  alarm, so `IdsAreUnique` and `TombstonesAreClosed` join it; that the reload
  inserts a row not yet indexed needs `ReloadIsClean`; that a late check or
  notice raises only behind the gate needs `PendingIsGated`. `IndInv` is their
  conjunction with `TypeOK`. The proof goes by lemmas on the two operations that
  touch all tables (insert and clear), then by action, and the action properties
  (`OnlySilenceClears`, `AlarmsOnlyGrow`, `RaisesAreGated`,
  `IdsAreNotRecycled`) follow from the invariant and one step. `DurabilityHolds`
  proves that without faults the rows are the snapshot, rows still to load
  aside; `FeedHolds` and `ChecksHold` are inductive over `IndInv`; `TablesHold`
  and `SurfacedHolds` put together what `EngineSafety` checks. `ReloadHolds`
  needs the reload to go in the order of ids (`ReloadInOrder`), which is what
  makes the last row of a key the newest. `LifecycleImplemented` simulates
  `AlarmLifecycle` step by step over `IndInv` and `StoreMirrorsOpen`: that no key
  ever has two rows holds while running because the rows are the snapshot, and
  across a stop and a reload because rows are only read there
  (`RowsStayApart`). `ForgettingIsBounded` needs no assumption on the channel: it
  says of every step that what was owed stays owed unless the channel was full.
* **Engine on its windows.** `WindowsRestrict` says that `WindowedSpec` only does
  what `Spec` does, so every theorem of the engine holds there. `BurstHolds` needs
  only the types of the windows and `IndInv`. `RaisesHold` also needs that the hosts of the loop of a first sighting bypass (`LoopBypasses`, proved
  for any windows) and that a check below the bypass was spawned out of a triggered
  window (`BurstsTriggered`, an invariant of `bursts`). It goes handler by handler:
  what new the board shows was raised by the line, by a check in flight, or by
  the loop.
* **Windows.** Slots are reused modulo the bucket count, so what a ring says
  follows only from knowing what each slot holds: `RingTrue` says that a slot
  counts just the lines of the bucket it names, and that no line is of a later
  bucket than the one its slot names; `HostsTrue` says the same of hosts, against
  the lines taken since the window was opened (`WindowsTrue`). A total is then the
  number of lines in live buckets, by comparing marks and lines slot by slot up to
  the least slot at which they could part (`TotalTrue`), for want of induction.
  `TriggersHold` then lays the rates the rule compares beside those of the lines,
  whose span and counts bound them (`Scaled`, `RatesCompare`).
* **Judge.** The in-flight set is a partition of who works on what; a record
  precedes its verdict and the verdict the cache in the program order of a task
  (`RecordedFirst`, `AnswersAreKnown`); `OneRow` and `OnlyUnjudgedInHand` give
  that no row is ever superseded, hence that a cached row is the newest.
  `WaitingIsOwed` is not inductive: the engine decides to wait after a lookup the
  judge may overtake, so what is owed is already owed to a reader that found
  nothing (`MissesAreOwed`).
* **Intake.** That a stop leaves nothing behind does not follow from where main
  stands: it needs `EndsInOrder` (what ends, ends after what feeds it), and that
  the pipeline ends with nobody in line needs `WaitersAreReal` (who waits is
  there, waits once, and only on a full channel). What an answered export
  guarantees needs the same: a place freed by `recv` is taken by the record the
  export is at. `IndInv` is their conjunction with `TypeOK` and
  `ExportsAtLeastOnce`. The proof goes by lemmas on the line (joining it, its
  head, leaving it), one on `Send`, then by action. From it follow
  `StopLeavesNothing` and `ExportsAreAccepted`, and `StepsImplementRelay`: under
  the mapping of `Promised`, with lemmas on concatenated sequences, every step
  is one of `Relay` or stutters.
* **Merges.** Until a read fails over a row or a removal begins, every alias has
  its yes, and every yes of the running bundle that no task works on is hooked.
  That is not inductive: a yes lacks its alias only on its way there (`Hooked`), and the
  hook of a job is right only while the store holds that job's decision and no
  other of its pair (`DecidedOnce`, `InHand`). What is cached or persisted has
  its record whatever fails (`Recorded`), and a table descends whatever is
  removed or reloaded (`AliasesDescend`). `IndInv` is their conjunction with
  `TypeOK` and `KeyedOnce`; the reload needs that `Max` of a bounded set of
  numbers is in it, taken from the library's well-foundedness of `<` on the
  naturals. `TableHolds`, `CacheAgrees` and `NoSecondCall` follow.
* **Resolution.** `resolve` recurses over its hops. With no induction theorem
  to instantiate, each fact about a walk is the absence of a least
  counterexample (`LeastNumber`): that the recursion defines a function, that
  there is one walk, that it descends and stays at a root. `ResolutionEnds` puts
  no bound on the number of templates: a walk that is not at a root has gone down
  at every hop (`HopsSpent`), so it ends at a root or `MaxHops` below where it
  began. That a hook moves just what resolved as its greater template did
  (`HookMoves`) gives `AnswersMove`, for steps before and after which no chain is
  longer than the hops and no removal is under way; the engine's `MergeLands`
  takes that for granted. That two templates once joined stay so is not claimed.
* **Drain.** The tree is a function of the table: its nodes are the prefixes of
  the recorded paths, a leaf holds the clusters of its path (`TreeHolds`).
  Stated so, pruning bottom up is a lemma on sets of paths, and forgetting keeps
  it whichever clusters go (`Holds`). `FanOutHolds` is what lets `insert` rely on
  a place for the parameter child: a node without one keeps it free, also after
  pruning. An opened cluster puts at most one too many into a leaf or the table,
  so each eviction has at most one victim (`MadeRoom`), the least recently used
  and never the new one; hence `EvictionHolds`. `FitHolds` follows joins alone: a
  join passed the threshold on words that stay words. `RefindHolds` compares the
  walks of `search` and `insert`: what `insert` opened, `search` goes down; a
  join took the path that is searched again, and a victim's pruning can only
  take nodes the path does not use; in the leaf a cluster that matched in full
  would have been found before one was opened, so the new one wins.
* **Board.** The invariant reads what is on the way to the page as one sequence
  of words: the wire, the feed, and the change not yet published (`Way`). The
  last word about an alarm is true unless a fetch is to come after it (`Sound`),
  and a page, or an answer on its way to it, is right about every alarm the way
  holds no word on (`Good`), doubt aside.
* **Lines.** `BundleInv` follows the synthesis: whatever was proposed, the slots
  accepted merge with the bundle started from, and a bundle with one of them
  passes `Checks` unchanged up to the daemon that loads it. From it follows
  also that the `expect` at the end of `run` never fires (`AcceptedMerge`). That
  a yearless frame is dated by the day its device wrote (`FramesHold`) rests on
  the calendar: one date of two years lies at least a year of common length apart
  (`DatesApart`), the day written lies within half a year of the intake, so it is
  nearest, and no other candidate ties with it (`YearIsResolved`). The moment is
  that of sending when the device is in the daemon's zone, and nothing is claimed
  of a frame under way for longer. That a frame is split just when it is dated
  (`FrameIsRead`) holds for every delay. That a
  request loses no record and mixes none up (`RequestsHold`) rests on
  `FlattenIs`: what `FlattenSeq` recurses to has the members of all lists and the
  length of the sets they stand for, again by the least place at which that
  could fail. The two are `EventsHold`.

Only model-checked: liveness, out of the prover's reach (`ChecksResolve`,
`FirstSightingRaises`, `RestartReopens`, `OrphanedAlarmClears`, `QueuedIsJudged`,
`WaitsEnd`, `BoardCatchesUp`, and of `ImplementsRelay` that what was accepted is
handled, its steps being proved). Every invariant the passing runs check is a
theorem, and so is every action property, under the hypotheses of the table.

## 5. Disagreements

Shown by a run, `MergeBundles`: a decision taken under one mask bundle is served
from its row and hooked after a restart with another, and its pair is not judged
again, since `read_latest_pair` and `load_aliases` skip rows of other questions and not
of other bundles. merges.rs:59-61 says that a bundle edit must re-judge rather than serve
such a merge, and the M5.5 spec that a changed bundle misses the key. So no
property claims anything of another bundle's decisions.

Stated in a module and refuted by TLC, though no run is kept for them (a
small configuration that lists the operator shows each at once, `SettledIdsStay` one
without caps):

* `RefetchIsCorrect` (`Board`): connection.svelte.ts:9-10 holds that re-fetching
  the list is always correct. An answer that was taken before a change and
  arrives after it replaces the newer list, and nothing corrects it until the alarm
  changes again. `ListIsMadeGood` and `BoardCatchesUp` set that case aside by
  `doubt`.
* `EveryMergeHolds` (`MergeAliases`): merge_cache.rs:9-10 says that every merged
  decision maps the greater id to the lesser; one greater id merged into two lesser
  ones keeps the alias hooked last, and of the other merge the templates resolve
  apart.
* `SettledIdsStay` (`DrainTable`): tree.rs:338 says that a line a cluster already
  matches never moves its id, and docs/research/2026-09-22-lean-with-agents.md:188
  that settled ids never move; a child opened later for a line's first word
  routes it past its cluster under the parameter node, into a new cluster.
* `HostsAreNamed` (`Lines`): host.rs:8 says the host of a syslog event is the
  frame's hostname, else the peer's address; of a frame without a timestamp it is a
  word the parser guessed out of the text, as the comment at syslog.rs:147-149 knows.
* `RecordsStayReadable` (`VerdictJudgeProps`): a failed index write logs that the
  record stays readable via the legacy scan; the scan runs only for a template
  with no index entry.

Met in traces while modelling, not kept as runs: `on_judged` raises a key a
check has just suppressed, which the log line says never surfaces; the engine's
loop ends on its closed input while contextual checks are out and drops their
bursts; a check that returns after its template was merged away raises on the
old template; an answer overtaken by an alarm of its key is dropped without the
count bump its comment mentions; a notice dropped at a full channel leaves its
hosts waiting until a later line of theirs; at and above the bypass severity no
line looks at the suppression a check has left, so it stays until the process
ends; a comment says that a single gated event inside the cooldown must not re-open
what took a window to open, and by the rate rule one line can be a window, on a
template seen a few times in the hour; a short line holding the parameter's own text never finds
its cluster again, since parameter positions count for nothing, and opens a
cluster every time it comes (such lines are left out of `Drain`);
`--max-candidates 0` cuts the candidates to none before the test for having
nothing to ask, so nothing is ever asked (the model takes at least one); the report
of a synthesis may name a slot as dropped whose second proposal is in
the bundle; the detail panel shows the newest record of a template, which may be
a contextual check's and not the verdict's; the judge's `close` joins its loop and
not the calls it has spawned; a signal between the first bind and the handler
of `shutdown_signal` ends the process as a crash does.

## 6. Not modelled, and why

Question texts, prompts and the decoding of answers are functions of text: a
call answers with any verdict, or any list of slots, or fails. The syntax
`syslog_loose` and the framing of TCP cut a frame by, the curated regular
expressions and the flags of the command line are data. `by_key`, `for_template`,
the detail panel and the other read-only views change nothing. The rendering
components of the board read the list `Board` models and keep no state another
part reads. Model changes within the alias table, and ties of `judged_at` and
`opened_at` to the second, are abstracted. The cut at `max_tokens` and the order
of referrals are outside `DrainTable`; synthesis groups lines by length and first
word and leaves the rest of its throwaway Drain out. `Intake` takes the engine's
handlers as one step, which `AlarmEngine` opens up. A file that was half written
when the process died is the file system's matter.

## 7. Plan

1. **Composition.** `VerdictJudge` shown to implement the judge side the engine
   assumes (`JudgeLands`, notices).
2. **Proofs.** The steps of `WindowTable` and `AlarmWindows` joined: what
   `record` answers the engine, as one refinement. The masker's one pass over a
   line (`Template`): that it covers a line from end to end.
3. **Decoding.** The questions, the gate and the contextual check's answers as
   one function from an answer to a lane, with missing and mistyped answers.
