----------------------------- MODULE WindowTable -----------------------------
(***************************************************************************)
(* The per-template windows of oarfish-engine (windows.rs): a short and a  *)
(* long ring of counters, the hosts last seen and the first sighting, in a *)
(* bounded table that evicts idle templates; and the raise rule that reads *)
(* them (window_triggered).                                                *)
(*                                                                         *)
(* Time is whole seconds since the table started, as `secs` computes it;   *)
(* the eviction's comparisons of instants are made in seconds too.  Rates  *)
(* are compared as exact fractions, where the code divides floats.         *)
(***************************************************************************)
EXTENDS Integers, Sequences, FiniteSets

CONSTANTS
  Template, Host,
  ShortBuckets, ShortWidth,  \* the short ring: buckets, seconds per bucket
  LongBuckets, LongWidth,    \* the long ring
  SweepInterval,             \* at most one idle sweep per interval
  MaxWindows,                \* max_windows, at least 1
  CountThreshold,            \* config.window_count_threshold
  RateMultiple,              \* config.rate_multiple
  Gaps,                      \* how far the clock may advance between lines
  MaxNow,                    \* bound: seconds
  MaxLines,                  \* bound: lines one window takes
  Null

ShortWindow == ShortBuckets * ShortWidth
LongWindow  == LongBuckets * LongWidth     \* also the idle limit: twelve short windows

ASSUME WindowAssumption ==
  /\ {ShortBuckets, ShortWidth, LongBuckets, LongWidth, MaxWindows} \subseteq Nat \ {0}
  /\ {SweepInterval, CountThreshold, RateMultiple, MaxNow, MaxLines} \subseteq Nat
  /\ Gaps \subseteq Nat \ {0}
  /\ ShortWindow <= LongWindow

RingType(buckets) == [0 .. buckets - 1 -> [epoch : Int, count : Nat]]

Window == [short : RingType(ShortBuckets), long : RingType(LongBuckets),
           hosts : [Host -> Nat \union {Null}], first : Nat, last : Nat]

\* Null stands for "no window" and "not seen".
ASSUME NullIsNoWindow == Null \notin Nat /\ Null \notin Window

VARIABLES
  now,        \* seconds since the table started
  windows,    \* template -> its window, or Null
  lastSweep,  \* last_idle_sweep
  stats,      \* what the last `record` returned, and for which template
  history     \* history: template -> the lines its window has taken, <<at, host>>

vars == <<now, windows, lastSweep, stats, history>>

Tracked == {t \in Template : windows[t] # Null}

-----------------------------------------------------------------------------
(* One ring: slots that name the bucket they count.                        *)

\* A slot never written is older than any window.
NewRing(buckets) == [s \in 0 .. buckets - 1 |-> [epoch |-> -buckets, count |-> 0]]

\* Mutant of AddTo: a slot that holds an older bucket is counted on.
AddToStale(ring, bucket) ==
  [ring EXCEPT ![bucket % Cardinality(DOMAIN ring)] = [epoch |-> bucket, count |-> @.count + 1]]

\* A slot that holds an older bucket starts over.
AddTo(ring, bucket) ==
  LET slot == bucket % Cardinality(DOMAIN ring)
  IN  [ring EXCEPT ![slot] = [epoch |-> bucket,
                              count |-> IF @.epoch = bucket THEN @.count + 1 ELSE 1]]

\* The total over the buckets that are not stale: as many as they have marks.
Total(ring, bucket) ==
  LET live == {s \in DOMAIN ring : bucket - ring[s].epoch < Cardinality(DOMAIN ring)}
  IN  Cardinality(UNION {{s} \X (1 .. ring[s].count) : s \in live})

-----------------------------------------------------------------------------
(* record.                                                                 *)

NewWindow(at) ==
  [short |-> NewRing(ShortBuckets), long |-> NewRing(LongBuckets),
   hosts |-> [h \in Host |-> Null], first |-> at, last |-> at]

\* One line of `host`: both rings, and the hosts of the trailing hour.
Counted(w, host, at) ==
  [short |-> AddTo(w.short, at \div ShortWidth),
   long  |-> AddTo(w.long, at \div LongWidth),
   hosts |-> [h \in Host |-> IF h = host THEN at
                             ELSE IF w.hosts[h] # Null /\ at - w.hosts[h] <= LongWindow
                                  THEN w.hosts[h] ELSE Null],
   first |-> w.first, last |-> at]

Lesser(a, b) == IF a <= b THEN a ELSE b

\* stats_for.
StatsFor(t, w, at) ==
  [template |-> t,
   short |-> Total(w.short, at \div ShortWidth),
   long  |-> Total(w.long, at \div LongWidth),
   hosts |-> Cardinality({h \in Host : w.hosts[h] # Null /\ at - w.hosts[h] < ShortWindow}),
   span  |-> Lesser(at - w.first, LongWindow)]

\* The window of t takes a line and answers with its stats; `rest` is the
\* table without the windows that went.
Record(t, host, rest) ==
  LET w == Counted(IF rest[t] = Null THEN NewWindow(now) ELSE rest[t], host, now)
  IN  /\ windows' = [rest EXCEPT ![t] = w]
      /\ stats' = StatsFor(t, w, now)
      /\ history' = [x \in Template |->
                       IF x = t THEN Append(IF rest[t] = Null THEN <<>> ELSE history[t],
                                            <<now, host>>)
                       ELSE IF rest[x] = Null THEN <<>> ELSE history[x]]
      /\ UNCHANGED now

Without(gone) == [t \in Template |-> IF t \in gone THEN Null ELSE windows[t]]

RecordTracked(t, host) ==
  /\ t \in Tracked
  /\ Len(history[t]) < MaxLines
  /\ Record(t, host, windows)
  /\ UNCHANGED lastSweep

\* A template not tracked, and room for it: the idle sweep is not due.
RecordNew(t, host) ==
  /\ t \notin Tracked
  /\ Cardinality(Tracked) < MaxWindows
  /\ now - lastSweep < SweepInterval
  /\ Record(t, host, windows)
  /\ UNCHANGED lastSweep

\* Mutant of Idle: measured from the first sighting.
IdleSinceFirst == {t \in Tracked : now - windows[t].first > LongWindow}

Idle == {t \in Tracked : now - windows[t].last > LongWindow}

\* The sweep is due: every template idle for over an hour goes.
RecordSweeping(t, host) ==
  /\ t \notin Tracked
  /\ Cardinality(Tracked) < MaxWindows
  /\ now - lastSweep >= SweepInterval
  /\ Record(t, host, Without(Idle))
  /\ lastSweep' = now

\* The table is full: the stalest goes at once (any of them, on a tie).
RecordEvicting(t, host) ==
  /\ t \notin Tracked
  /\ Cardinality(Tracked) >= MaxWindows
  /\ \E gone \in SUBSET Tracked :
       /\ Cardinality(gone) = Cardinality(Tracked) - MaxWindows + 1
       /\ \A x \in gone, y \in Tracked \ gone : windows[x].last <= windows[y].last
       /\ Record(t, host, Without(gone))
  /\ UNCHANGED lastSweep

RecordLine(t, host) ==
  \/ RecordTracked(t, host)
  \/ RecordNew(t, host)
  \/ RecordSweeping(t, host)
  \/ RecordEvicting(t, host)

\* Time passes; the clock of the model stops at MaxNow.
Advance(gap) ==
  /\ now' = Lesser(now + gap, MaxNow)
  /\ stats' = Null
  /\ UNCHANGED <<windows, lastSweep, history>>

-----------------------------------------------------------------------------
(* The raise rule: count, or rate over the history there is.               *)

\* Mutant of Triggered: a rate over the whole hour, however young the window.
TriggeredOverHour(s) ==
  \/ s.short >= CountThreshold
  \/ s.long # 0 /\ s.short * LongWindow >= RateMultiple * s.long * ShortWindow

Triggered(s) ==
  \/ s.short >= CountThreshold
  \/ /\ s.span >= ShortWindow
     /\ s.long # 0
     /\ s.short * s.span >= RateMultiple * s.long * ShortWindow

-----------------------------------------------------------------------------
Init ==
  /\ now = 0
  /\ windows = [t \in Template |-> Null]
  /\ lastSweep = 0
  /\ stats = Null
  /\ history = [t \in Template |-> <<>>]

Next ==
  \/ \E t \in Template, h \in Host : RecordLine(t, h)
  \/ \E gap \in Gaps : Advance(gap)

Spec == Init /\ [][Next]_vars

-----------------------------------------------------------------------------
(* What the windows owe.                                                   *)

\* Every variable stays in its type, and no window is younger than its lines.
TypeOK ==
  /\ now \in Nat /\ lastSweep \in 0 .. now
  /\ \A t \in Tracked : windows[t] \in Window
  /\ \A t \in Tracked : windows[t].first <= windows[t].last /\ windows[t].last <= now

\* How many lines the window of t took in the last `age` seconds.
LinesWithin(t, age) ==
  Cardinality({n \in DOMAIN history[t] : now - history[t][n][1] <= age})

\* A bucketed count is a sliding count up to one bucket: it holds every line
\* younger than all but one of its buckets, and none as old as all of them.
\* No slot is read stale, none is zeroed early (Ring::add, Ring::total).
SlidesOver(t, count, buckets, width) ==
  /\ count >= LinesWithin(t, (buckets - 1) * width)
  /\ count <= LinesWithin(t, buckets * width - 1)

\* Both totals of `record` slide so, whatever came before them.
TotalsSlide(s) ==
  /\ SlidesOver(s.template, s.short, ShortBuckets, ShortWidth)
  /\ SlidesOver(s.template, s.long, LongBuckets, LongWidth)

\* The distinct hosts are those with a line in the short window, however
\* often and in whatever order they spoke, and the pruning loses none.
HostsAreDistinct(s) ==
  s.hosts = Cardinality({history[s.template][n][2] :
                          n \in {m \in DOMAIN history[s.template] :
                                   now - history[s.template][m][1] < ShortWindow}})

\* A span short of the long window starts at the first line.
SpanStartsAtLine(s) == s.span < LongWindow => now - history[s.template][1][1] = s.span

\* The rate rule divides by the time its lines really cover: no line it
\* counts is older than the span, and a short span starts at a line
\* (stats_for, "a young template is never an infinite multiple").
SpanCoversLines(s) == s.long <= LinesWithin(s.template, s.span) /\ SpanStartsAtLine(s)

\* The table keeps its bound in the middle of a runaway (evict_idle).
TableKeepsBound == Cardinality(Tracked) <= MaxWindows

\* The table keeps its bound, and what a line is judged by is true of the
\* lines its window took: both totals, the distinct hosts and the span the rate
\* divides by.
WindowsSlide ==
  /\ TypeOK
  /\ TableKeepsBound
  /\ stats # Null => TotalsSlide(stats) /\ HostsAreDistinct(stats) /\ SpanCoversLines(stats)

\* How long the window of t has been filling, up to the hour.
Filled(t) == Lesser(now - history[t][1][1], LongWindow)

\* What the config asks of a burst, of `short` recent lines among `long` in all:
\* enough of them, or a multiple of the average rate over the time that the
\* window has been filling, a short window at least.
IsBurst(t, short, long) ==
  \/ short >= CountThreshold
  \/ /\ Filled(t) >= ShortWindow
     /\ short * Filled(t) >= RateMultiple * long * ShortWindow

\* A line triggers its window at a burst, up to one bucket: not unless the lines
\* of the whole short window are one, among those surely in the long window, and
\* whenever those surely in the short window are (window_triggered).  A young
\* or quiet window makes no line a multiple of nothing.
TriggersAreBursts ==
  stats # Null =>
    LET t == stats.template
    IN  /\ Triggered(stats) =>
             IsBurst(t, LinesWithin(t, ShortWindow - 1),
                        LinesWithin(t, (LongBuckets - 1) * LongWidth))
        /\ IsBurst(t, LinesWithin(t, (ShortBuckets - 1) * ShortWidth),
                      LinesWithin(t, LongWindow - 1)) => Triggered(stats)

\* A window goes only when its template was idle for the long window, or the
\* table was full and nothing tracked was staler; a template that was not
\* tracked takes its place.
OnlyIdleOrStalestGo ==
  [][\A t \in Tracked : windows'[t] = Null =>
       /\ \/ now - windows[t].last > LongWindow
          \/ /\ Cardinality(Tracked) = MaxWindows
             /\ \A x \in Tracked : windows[t].last <= windows[x].last
       /\ \E x \in Template \ Tracked : windows'[x] # Null]_vars
=============================================================================
