---------------------------- MODULE AlarmWindows ----------------------------
(***************************************************************************)
(* The alarm engine and its windows together (machine.rs, on_classified):  *)
(* every line is first recorded in the window of its template, judged or   *)
(* not, and the raise rule reads what `record` returned.  Silence and the  *)
(* flap cooldown run on the same clock as the windows.  No merge lands     *)
(* here and the store does not fail: AlarmEngine alone has both.           *)
(***************************************************************************)
EXTENDS AlarmEngineProps

CONSTANTS
  ShortBuckets, ShortWidth, LongBuckets, LongWidth, SweepInterval, MaxWindows,
  CountThreshold, RateMultiple, Gaps, MaxNow, MaxLines

VARIABLES
  now, windows, lastSweep, stats, history,  \* as in WindowTable
  bursts  \* key -> the stats its check in flight was spawned with (BurstContext)

windowVars == <<now, windows, lastSweep, stats, history>>

W == INSTANCE WindowTable

ASSUME WindowsAssumption == W!WindowAssumption

ASSUME WindowsNull == Null \notin W!Window

allVars == <<vars, windowVars, bursts>>

\* spawn_check: a check carries the stats of the line that spawned it, and
\* they go with its answer.
BurstsFollow(current) ==
  bursts' = [k \in Key |-> IF k \notin inFlight' THEN Null
                           ELSE IF k \in inFlight THEN bursts[k] ELSE current]

\* Mutant of LineArrives: judged with the stats of the line before it.
LineArrivesLate(t, h) ==
  /\ Idle
  /\ W!RecordLine(survivor[t], h)
  /\ LET triggered == stats # Null /\ W!Triggered(stats)
     IN  Line(t, h, triggered) \/ LineIgnored(t, h, triggered)
  /\ BurstsFollow(stats')

\* One line: recorded under the surviving template, then judged with the
\* stats of the window it just entered.
LineArrives(t, h) ==
  /\ Idle
  /\ W!RecordLine(survivor[t], h)
  /\ LET triggered == W!Triggered(stats')
     IN  Line(t, h, triggered) \/ LineIgnored(t, h, triggered)
  /\ BurstsFollow(stats')

\* One tick of silence, cooldown and windows alike.
TimePasses ==
  /\ Tick \/ (Ticks = {} /\ Aging = {} /\ UNCHANGED vars)
  /\ W!Advance(1)
  /\ UNCHANGED bursts

\* A new process starts with empty windows.
Restarts ==
  /\ Start
  /\ now' = 0
  /\ windows' = [t \in Template |-> Null]
  /\ lastSweep' = 0
  /\ stats' = Null
  /\ history' = [t \in Template |-> <<>>]
  /\ bursts' = [k \in Key |-> Null]

\* What the engine does besides, with no line.
EngineActs ==
  /\ \/ \E k \in Key : Apply(k) \/ RaiseFirstSighting(k)
     \/ \E t \in Template : JudgeLands(t) \/ JudgeFails(t) \/ Judged(t)
     \/ \E i \in Id : Clear(i) \/ LoadNext(i)
     \/ Stop
     \/ Run
  /\ UNCHANGED windowVars
  /\ BurstsFollow(Null)

WindowedInit == Init /\ W!Init /\ bursts = [k \in Key |-> Null]

WindowedNext ==
  \/ \E t \in Template, h \in Host : LineArrives(t, h)
  \/ TimePasses
  \/ Restarts
  \/ EngineActs

WindowedSpec == WindowedInit /\ [][WindowedNext]_allVars

-----------------------------------------------------------------------------
\* The step records a line of key k in the window of its template.
TakesLine(k) ==
  LET lines == history'[k[1]]
  IN  lines # history[k[1]] /\ lines # <<>> /\ lines[Len(lines)][2] = k[2]

\* No burst goes unanswered, and none is kept quiet longer than it lasts
\* (on_classified, whatever happened to the key before).  A gated line that
\* trips leaves its key with an alarm or with a check out, unless the last check
\* had silenced the key before it came; one that does not trip ends that silence.
BurstIsCovered ==
  [][\A k \in Key :
       (TakesLine(k) /\ verdict[k[1]] # Null /\ Gated(verdict[k[1]])) =>
         IF Trips(verdict[k[1]], W!Triggered(stats'))
         THEN open'[k] # Null \/ k \in inFlight' \/ (k \in suppressed /\ k \in suppressed')
         ELSE k \notin suppressed']_allVars

\* Below critical, an alarm appears only out of a triggered window: at a line
\* of its own key that triggers it, or when a check returns that such a line
\* started, whatever came between (spawn_check, apply).
RaisesTookAWindow ==
  [][mode = "running" =>
       \A i \in Id : board[i] = Null /\ board'[i] # Null =>
         LET k == board'[i].key
         IN  \/ Bypasses(verdict[k[1]])
             \/ TakesLine(k) /\ W!Triggered(stats')
             \/ k \in inFlight /\ W!Triggered(bursts[k])]_allVars
=============================================================================
