--------------------------- MODULE AlarmLifecycle ---------------------------
(***************************************************************************)
(* What the alarm engine promises about the durable open alarms, with none *)
(* of its machinery: one open alarm per key; an id opens once, and again   *)
(* only while it rests after a clear; an open alarm only grows; a crash    *)
(* takes no open alarm away, only the memory of the resting ones.          *)
(***************************************************************************)
EXTENDS Naturals

CONSTANTS Key, Id, Lane, Null

VARIABLES
  alarms,   \* id -> the open alarm, or Null
  resting,  \* key -> the last alarm of the key, cleared and still revivable, or Null
  born      \* the newest id

lifecycleVars == <<alarms, resting, born>>

OpenIds(k) == {i \in Id : alarms[i] # Null /\ alarms[i].key = k}

\* Resting alarms are forgotten at any moment: the cooldown ends, or a crash.
SomeForgotten(k) == resting'[k] = resting[k] \/ resting'[k] = Null

LifecycleInit ==
  /\ alarms = [i \in Id |-> Null]
  /\ resting = [k \in Key |-> Null]
  /\ born = 0

\* Only alarm i changes, to an alarm that `as` accepts.
Replaced(i, as(_)) ==
  /\ alarms'[i] # Null
  /\ as(alarms'[i])
  /\ \A j \in Id \ {i} : alarms'[j] = alarms[j]

Fresh(a, i, k, lane) ==
  a = [id |-> i, key |-> k, severity |-> a.severity, count |-> 1, lane |-> lane]

\* One more occurrence of alarm a.
Grown(a, b) ==
  /\ b = [a EXCEPT !.count = @ + 1, !.severity = b.severity]
  /\ b.severity >= a.severity

Open(i, k, lane) ==
  /\ OpenIds(k) = {}
  /\ i > born
  /\ born' = i
  /\ LET Opened(a) == Fresh(a, i, k, lane) IN Replaced(i, Opened)
  /\ \A x \in Key : SomeForgotten(x)

Grow(i) ==
  /\ alarms[i] # Null
  /\ LET More(b) == Grown(alarms[i], b) IN Replaced(i, More)
  /\ UNCHANGED <<resting, born>>

Close(i) ==
  /\ alarms[i] # Null
  /\ alarms' = [alarms EXCEPT ![i] = Null]
  /\ resting'[alarms[i].key] = alarms[i]
  /\ \A x \in Key \ {alarms[i].key} : SomeForgotten(x)
  /\ UNCHANGED born

Reopen(k) ==
  /\ resting[k] # Null
  /\ OpenIds(k) = {}
  /\ LET More(b) == Grown(resting[k], b) IN Replaced(resting[k].id, More)
  /\ resting' = [resting EXCEPT ![k] = Null]
  /\ UNCHANGED born

Forget == (\A x \in Key : SomeForgotten(x)) /\ UNCHANGED <<alarms, born>>

LifecycleNext ==
  \/ \E i \in Id, k \in Key, lane \in Lane : Open(i, k, lane)
  \/ \E i \in Id : Grow(i) \/ Close(i)
  \/ \E k \in Key : Reopen(k)
  \/ Forget

LifecycleSpec == LifecycleInit /\ [][LifecycleNext]_lifecycleVars

\* Two open alarms never share a key: the dedupe rule on (template, host).
OneOpenPerKey ==
  \A i, j \in Id : (alarms[i] # Null /\ alarms[j] # Null /\ alarms[i].key = alarms[j].key) => i = j
=============================================================================
