------------------------- MODULE AlarmEngineProofs -------------------------
(***************************************************************************)
(* The engine's type correctness, its bookkeeping, the properties that     *)
(* rest on them and the durable lifecycle it implements; then what holds   *)
(* of it on its real windows.  For every value of the constants.           *)
(***************************************************************************)
EXTENDS AlarmWindows, Integers, TLAPS

\* The five tables an open alarm lives in have their types.
TablesOK ==
  /\ open \in [Key -> Alarm \union {Null}]
  /\ byId \in [Id -> Key \union {Null}]
  /\ timers \in [Id -> (0 .. Silence) \union {Null}]
  /\ store \in [Id -> Alarm \union {Null}]
  /\ snapshot \in [Id -> Alarm \union {Null}]

LEMMA WriteResultsAreBooleans == WriteResults \subseteq BOOLEAN
  BY DEF WriteResults

\* insert_open of an alarm whose id is not indexed keeps the tables typed and
\* the bookkeeping, whatever alarm it displaces.
LEMMA InsertKeepsBookkeeping ==
  ASSUME TablesOK, Bookkeeping, NEW a \in Alarm, byId[a.id] = Null, InsertOpen(a)
  PROVE  /\ TablesOK'
         /\ Bookkeeping'
         /\ \A i \in Id : byId'[i] # Null => byId[i] # Null \/ i = a.id
         /\ \A i \in Id : store'[i] \in {store[i], Null} \/ (i = a.id /\ store'[i] = a)
         /\ \A i \in Id : store'[i] = Null => store[i] = Null \/ byId[i] # Null
         /\ \A i \in Id : snapshot'[i] \in {snapshot[i], Null} \/ i = a.id
<1> DEFINE displaced == {i \in Id : open[a.key] # Null /\ open[a.key].id = i}
<1>0. a.key \in Key /\ a.id \in Id /\ a # Null
  BY NullAssumption DEF Alarm
<1>1. /\ open' = [open EXCEPT ![a.key] = a]
      /\ byId' = [i \in Id |-> IF i \in displaced THEN Null
                               ELSE IF i = a.id THEN a.key ELSE byId[i]]
      /\ timers' = [i \in Id |-> IF i \in displaced THEN Null
                                 ELSE IF i = a.id THEN Silence ELSE timers[i]]
  BY DEF InsertOpen
<1>2. PICK saved \in BOOLEAN, deleted \in BOOLEAN : SaveAndSnapshot(a, displaced, saved, deleted)
  BY WriteResultsAreBooleans DEF InsertOpen
<1>3. /\ store' \in [Id -> Alarm \union {Null}]
      /\ snapshot' \in [Id -> Alarm \union {Null}]
      /\ \A i \in Id : store'[i] \in {store[i], Null} \/ (i = a.id /\ store'[i] = a)
      /\ \A i \in Id : store'[i] = Null => store[i] = Null \/ i \in displaced
      /\ \A i \in Id : snapshot'[i] = IF i = a.id THEN a
                                      ELSE IF i \in displaced THEN Null ELSE snapshot[i]
  <2>1. store' = [i \in Id |-> IF i = a.id /\ saved THEN a
                               ELSE IF i \in displaced /\ deleted THEN Null ELSE store[i]]
    BY <1>2 DEF SaveAndSnapshot
  <2>2. snapshot' = [i \in Id |-> IF i = a.id THEN a
                                  ELSE IF i \in displaced THEN Null ELSE snapshot[i]]
    BY <1>2 DEF SaveAndSnapshot
  <2> HIDE DEF displaced
  <2>3. store' \in [Id -> Alarm \union {Null}]
    BY <2>1 DEF TablesOK
  <2>4. snapshot' \in [Id -> Alarm \union {Null}]
    BY <2>2 DEF TablesOK
  <2>5. ASSUME NEW i \in Id
        PROVE  /\ store'[i] \in {store[i], Null} \/ (i = a.id /\ store'[i] = a)
               /\ store'[i] = Null => store[i] = Null \/ i \in displaced
    BY <2>1, <1>0
  <2> QED BY <2>2, <2>3, <2>4, <2>5
<1>4. \A i \in displaced : byId[i] = a.key /\ i # a.id
  BY <1>0, NullAssumption DEF Bookkeeping, OpenIsIndexed, TablesOK
<1>5. TablesOK'
  BY <1>0, <1>1, <1>3, EngineAssumption DEF TablesOK
<1>6. OpenIsIndexed'
  BY <1>0, <1>1, <1>4, NullAssumption DEF TablesOK, Alarm, Bookkeeping, OpenIsIndexed
<1>7. IndexIsOpen'
  BY <1>0, <1>1, <1>4, NullAssumption DEF TablesOK, Alarm, Bookkeeping, OpenIsIndexed, IndexIsOpen
<1>8. TimersArmOpen'
  BY <1>0, <1>1, NullAssumption, EngineAssumption DEF TablesOK, Bookkeeping, TimersArmOpen
<1>9. SnapshotIsOpen'
  BY <1>0, <1>1, <1>3, <1>4, NullAssumption
     DEF TablesOK, Bookkeeping, OpenIsIndexed, IndexIsOpen, SnapshotIsOpen
<1>10. \A i \in Id : byId'[i] # Null => byId[i] # Null \/ i = a.id
  BY <1>1
<1>11. \A i \in displaced : byId[i] # Null
  BY <1>0, <1>4, NullAssumption
<1> QED BY <1>3, <1>5, <1>6, <1>7, <1>8, <1>9, <1>10, <1>11 DEF Bookkeeping

-----------------------------------------------------------------------------
(* The part of the inductive invariant about the tables, action by action. *)

Core == TablesOK /\ Bookkeeping /\ TombstonesAreClosed /\ IdsAreUnique /\ ReloadIsClean

\* A step that leaves the tables alone and at most drops tombstones.
LEMMA BystanderKeepsCore ==
  ASSUME Core, UNCHANGED <<mode, loading, open, byId, timers, store, snapshot, lastId>>,
         \A x \in Key : tombstones'[x] \in {tombstones[x], Null}
  PROVE  Core'
<1>1. TablesOK' /\ Bookkeeping'
  BY DEF Core, TablesOK, Bookkeeping, OpenIsIndexed, IndexIsOpen, TimersArmOpen, SnapshotIsOpen
<1>2. TombstonesAreClosed'
  BY DEF Core, TombstonesAreClosed
<1>3. IdsAreUnique'
  BY DEF Core, IdsAreUnique
<1>4. ReloadIsClean'
  BY DEF Core, ReloadIsClean
<1> QED BY <1>1, <1>2, <1>3, <1>4 DEF Core

\* raise on a key: a fresh id enters all tables at once.
LEMMA RaiseKeepsCore ==
  ASSUME Core, TypeOK, mode = "running",
         NEW k \in Key, NEW severity \in Nat, NEW lane \in Lane,
         Raise(k, severity, lane), UNCHANGED <<mode, loading>>,
         \A x \in Key : tombstones'[x] \in {tombstones[x], Null}
  PROVE  Core' /\ board' \in [Id -> Alarm \union {Null}] /\ lastId' \in 0 .. MaxAlarms
<1>1. PICK a \in Alarm : /\ a.id = lastId + 1
                        /\ a.key = k
                        /\ InsertOpen(a)
                        /\ Publish(a)
  <2> DEFINE a == [id |-> lastId + 1, key |-> k, severity |-> severity, count |-> 1, lane |-> lane]
  <2>1. a \in Alarm
    BY EngineAssumption DEF Raise, Alarm, Id, TypeOK
  <2> QED BY <2>1 DEF Raise
<1>2. lastId' = lastId + 1 /\ a.id \in Id /\ lastId \in 0 .. MaxAlarms /\ lastId < MaxAlarms
  BY <1>1 DEF Raise, TypeOK, Alarm
<1>3. byId[a.id] = Null
  BY <1>1, <1>2 DEF Core, IdsAreUnique, Id
<1>4. /\ TablesOK' /\ Bookkeeping'
      /\ \A i \in Id : byId'[i] # Null => byId[i] # Null \/ i = a.id
      /\ \A i \in Id : store'[i] \in {store[i], Null} \/ (i = a.id /\ store'[i] = a)
  BY <1>1, <1>3, InsertKeepsBookkeeping DEF Core
<1>5. TombstonesAreClosed'
  BY <1>1, <1>2, <1>4 DEF Core, TombstonesAreClosed, IdsAreUnique, TypeOK, Tombstone, Alarm, Id
<1>6. IdsAreUnique'
  <2>1. \A i \in Id : byId'[i] # Null => i <= lastId'
    BY <1>1, <1>2, <1>4 DEF Core, IdsAreUnique, Id
  <2>2. \A i \in Id : store'[i] # Null => store'[i].id = i /\ i <= lastId'
    BY <1>1, <1>2, <1>4 DEF Core, IdsAreUnique, Id
  <2>3. ASSUME NEW x \in Key, tombstones'[x] # Null
        PROVE  /\ tombstones'[x].alarm.id <= lastId'
               /\ \A y \in Key : tombstones'[y] # Null /\ tombstones'[y].alarm.id = tombstones'[x].alarm.id
                                 => y = x
    <3>1. tombstones'[x] = tombstones[x] /\ tombstones[x] \in Tombstone
      BY <2>3 DEF TypeOK
    <3>2. tombstones[x].alarm.id \in Id /\ tombstones[x].alarm.id <= lastId
      BY <2>3, <3>1 DEF Core, IdsAreUnique, Tombstone, Alarm
    <3>3. ASSUME NEW y \in Key, tombstones'[y] # Null, tombstones'[y].alarm.id = tombstones'[x].alarm.id
          PROVE  y = x
      BY <2>3, <3>1, <3>3 DEF Core, IdsAreUnique
    <3> QED BY <1>2, <3>1, <3>2, <3>3 DEF Id
  <2> QED BY <2>1, <2>2, <2>3 DEF IdsAreUnique
<1>7. ReloadIsClean'
  BY DEF Core, ReloadIsClean
<1>8. board' \in [Id -> Alarm \union {Null}]
  BY <1>1 DEF Publish, Put, TypeOK, Alarm
<1>9. lastId' \in 0 .. MaxAlarms
  BY <1>2, EngineAssumption
<1> QED BY <1>4, <1>5, <1>6, <1>7, <1>8, <1>9 DEF Core

\* A line's key and severity are of their types.
LEMMA KeyAndSeverity ==
  ASSUME TypeOK, NEW t \in Template, NEW h \in Host, NEW triggered \in BOOLEAN,
         Passes(t, h, triggered)
  PROVE  /\ KeyOf(t, h) \in Key
         /\ survivor[t] \in Template
         /\ verdict[survivor[t]] \in Verdicts
         /\ verdict[survivor[t]].severity \in Nat
         /\ mode = "running"
<1>1. survivor[t] \in Template /\ verdict[survivor[t]] \in Verdicts
  BY DEF TypeOK, Passes
<1>2. verdict[survivor[t]].severity \in Nat
  BY <1>1, EngineAssumption
<1> QED BY <1>1, <1>2 DEF KeyOf, Key, Passes, Idle

\* Another occurrence of an alarm is an alarm of the same id and key.
LEMMA BumpedIsAlarm ==
  ASSUME NEW a \in Alarm, NEW severity \in Nat, a.count < MaxCount
  PROVE  /\ Bumped(a, severity) \in Alarm
         /\ Bumped(a, severity).id = a.id
         /\ Bumped(a, severity).key = a.key
         /\ Bumped(a, severity).lane = a.lane
         /\ Bumped(a, severity).count = a.count + 1
         /\ Bumped(a, severity).severity >= a.severity
<1>1. Higher(a.severity, severity) \in Nat /\ Higher(a.severity, severity) >= a.severity
  BY DEF Higher, Alarm
<1>2. a.count + 1 \in 1 .. MaxCount
  BY EngineAssumption DEF Alarm
<1> DEFINE counted == [a EXCEPT !.count = @ + 1]
<1>3. /\ counted \in Alarm
      /\ counted.id = a.id /\ counted.key = a.key /\ counted.lane = a.lane
      /\ counted.count = a.count + 1 /\ counted.severity = a.severity
  BY <1>2 DEF Alarm
<1>4. Bumped(a, severity) = [counted EXCEPT !.severity = Higher(counted.severity, severity)]
  BY Zenon DEF Bumped
<1> HIDE DEF counted
<1> QED BY <1>1, <1>3, <1>4 DEF Alarm

\* A bump changes one open alarm in place.
LEMMA BumpKeepsCore ==
  ASSUME Core, TypeOK, NEW t \in Template, NEW h \in Host, NEW triggered \in BOOLEAN,
         LineBumps(t, h, triggered)
  PROVE  Core' /\ board' \in [Id -> Alarm \union {Null}]
<1>1. PICK k \in Key : k = KeyOf(t, h)
  BY KeyAndSeverity DEF LineBumps
<1>2. open[k] \in Alarm /\ open[k] # Null /\ open[k].count < MaxCount
  BY <1>1 DEF LineBumps, TypeOK
<1>3. PICK a \in Alarm : /\ a.id = open[k].id
                        /\ a.key = open[k].key
                        /\ a = Bumped(open[k], verdict[survivor[t]].severity)
  BY <1>2, KeyAndSeverity, BumpedIsAlarm DEF LineBumps
<1>4. /\ open' = [open EXCEPT ![k] = a]
      /\ timers' = [timers EXCEPT ![a.id] = Silence]
      /\ board' = [board EXCEPT ![a.id] = a]
      /\ UNCHANGED <<mode, loading, byId, tombstones, lastId>>
  BY <1>1, <1>3 DEF LineBumps, Publish, Put
<1>5. PICK saved \in BOOLEAN :
        /\ store' = [i \in Id |-> IF i = a.id /\ saved THEN a ELSE store[i]]
        /\ snapshot' = [i \in Id |-> IF i = a.id THEN a ELSE snapshot[i]]
  BY <1>1, <1>3, WriteResultsAreBooleans DEF LineBumps, SaveAndSnapshot
<1>6. a.id \in Id /\ byId[a.id] = k /\ a.key = k /\ a # Null /\ k # Null
  BY <1>2, <1>3, NullAssumption DEF Core, Bookkeeping, OpenIsIndexed, Alarm
<1>7. TablesOK'
  <2>1. open' \in [Key -> Alarm \union {Null}] /\ byId' \in [Id -> Key \union {Null}]
    BY <1>4 DEF Core, TablesOK
  <2>2. Silence \in 0 .. Silence
    BY EngineAssumption
  <2>3. timers' \in [Id -> (0 .. Silence) \union {Null}]
    BY <1>4, <2>2 DEF Core, TablesOK
  <2>4. store' \in [Id -> Alarm \union {Null}] /\ snapshot' \in [Id -> Alarm \union {Null}]
    BY <1>5 DEF Core, TablesOK
  <2> QED BY <2>1, <2>3, <2>4 DEF TablesOK
<1>8. OpenIsIndexed' /\ IndexIsOpen'
  BY <1>4, <1>6 DEF Core, TablesOK, Bookkeeping, OpenIsIndexed, IndexIsOpen
<1>9. TimersArmOpen'
  BY <1>4, <1>6, EngineAssumption, NullAssumption DEF Core, TablesOK, Bookkeeping, TimersArmOpen
<1>10. SnapshotIsOpen'
  BY <1>4, <1>5, <1>6
     DEF Core, TablesOK, Bookkeeping, OpenIsIndexed, IndexIsOpen, SnapshotIsOpen
<1>11. TombstonesAreClosed'
  BY <1>4 DEF Core, TombstonesAreClosed
<1>12. IdsAreUnique'
  BY <1>4, <1>5, <1>6 DEF Core, IdsAreUnique
<1>13. ReloadIsClean'
  <2>1. mode = "running"
    BY KeyAndSeverity DEF LineBumps
  <2> QED BY <2>1, <1>4 DEF Core, ReloadIsClean
<1>14. board' \in [Id -> Alarm \union {Null}]
  BY <1>4, <1>6 DEF TypeOK
<1> QED BY <1>7, <1>8, <1>9, <1>10, <1>11, <1>12, <1>13, <1>14 DEF Core, Bookkeeping

\* Reviving opens the tombstone's alarm, which no table knows.
LEMMA ReviveKeepsCore ==
  ASSUME Core, TypeOK, NEW t \in Template, NEW h \in Host, NEW triggered \in BOOLEAN,
         LineRevives(t, h, triggered)
  PROVE  Core' /\ board' \in [Id -> Alarm \union {Null}]
<1>1. PICK k \in Key : k = KeyOf(t, h)
  BY KeyAndSeverity DEF LineRevives
<1>2. /\ tombstones[k] # Null
      /\ tombstones[k] \in Tombstone
      /\ tombstones[k].alarm \in Alarm
      /\ tombstones[k].alarm.count < MaxCount
  BY <1>1 DEF LineRevives, LiveTombstone, TypeOK, Tombstone
<1>3. PICK a \in Alarm : /\ a.id = tombstones[k].alarm.id
                        /\ a.key = tombstones[k].alarm.key
                        /\ a = Bumped(tombstones[k].alarm, verdict[survivor[t]].severity)
  BY <1>2, KeyAndSeverity, BumpedIsAlarm DEF LineRevives
<1>4. /\ InsertOpen(a)
      /\ board' = [board EXCEPT ![a.id] = a]
      /\ tombstones' = [tombstones EXCEPT ![k] = Null]
      /\ UNCHANGED <<mode, loading, lastId>>
      /\ mode = "running"
  BY <1>1, <1>3, KeyAndSeverity DEF LineRevives, Publish, Put
<1>5. a.id \in Id /\ byId[a.id] = Null /\ a.id <= lastId
  BY <1>2, <1>3 DEF Core, TombstonesAreClosed, IdsAreUnique, Alarm
<1>6. /\ TablesOK' /\ Bookkeeping'
      /\ \A i \in Id : byId'[i] # Null => byId[i] # Null \/ i = a.id
      /\ \A i \in Id : store'[i] \in {store[i], Null} \/ (i = a.id /\ store'[i] = a)
  BY <1>4, <1>5, InsertKeepsBookkeeping DEF Core
<1>7. \A x \in Key \ {k} : tombstones[x] # Null => tombstones[x].alarm.id # a.id
  BY <1>2, <1>3 DEF Core, IdsAreUnique
<1>8. /\ tombstones'[k] = Null
      /\ \A x \in Key \ {k} : tombstones'[x] = tombstones[x]
  BY <1>4 DEF TypeOK
<1>9. TombstonesAreClosed'
  <2> SUFFICES ASSUME NEW x \in Key, tombstones'[x] # Null
               PROVE  tombstones'[x].alarm.key = x /\ byId'[tombstones'[x].alarm.id] = Null
    BY DEF TombstonesAreClosed
  <2>1. x # k /\ tombstones'[x] = tombstones[x] /\ tombstones[x] # Null
    BY <1>8
  <2>2. tombstones[x].alarm.key = x /\ byId[tombstones[x].alarm.id] = Null
    BY <2>1 DEF Core, TombstonesAreClosed
  <2>3. tombstones[x].alarm.id \in Id /\ tombstones[x].alarm.id # a.id
    BY <1>7, <2>1 DEF TypeOK, Tombstone, Alarm
  <2> QED BY <1>6, <2>1, <2>2, <2>3
<1>10. IdsAreUnique'
  <2>1. \A i \in Id : byId'[i] # Null => i <= lastId'
    BY <1>4, <1>5, <1>6 DEF Core, IdsAreUnique
  <2>2. \A i \in Id : store'[i] # Null => store'[i].id = i /\ i <= lastId'
    BY <1>4, <1>5, <1>6 DEF Core, IdsAreUnique
  <2>3. \A x \in Key : tombstones'[x] # Null =>
          /\ tombstones'[x].alarm.id <= lastId'
          /\ \A y \in Key : tombstones'[y] # Null /\ tombstones'[y].alarm.id = tombstones'[x].alarm.id
                            => y = x
    BY <1>4, <1>8 DEF Core, IdsAreUnique
  <2> QED BY <2>1, <2>2, <2>3 DEF IdsAreUnique
<1>11. ReloadIsClean'
  BY <1>4 DEF Core, ReloadIsClean
<1>12. board' \in [Id -> Alarm \union {Null}]
  BY <1>4 DEF TypeOK
<1> QED BY <1>6, <1>9, <1>10, <1>11, <1>12 DEF Core

\* A tick moves timers and tombstone ages, and nothing appears or vanishes.
LEMMA TickKeepsCore ==
  ASSUME Core, TypeOK, Tick
  PROVE  Core' /\ tombstones' \in [Key -> Tombstone \union {Null}]
<1>1. /\ timers' = [i \in Id |-> IF i \in Ticks THEN timers[i] - 1 ELSE timers[i]]
      /\ tombstones' = [k \in Key |-> IF k \in Aging
                                      THEN [tombstones[k] EXCEPT !.age = @ + 1]
                                      ELSE tombstones[k]]
      /\ UNCHANGED <<mode, loading, open, byId, store, snapshot, lastId>>
  BY DEF Tick, published
<1>2. \A i \in Ticks : i \in Id /\ timers[i] # Null /\ timers[i] - 1 \in 0 .. Silence
  BY EngineAssumption DEF Ticks, TypeOK
<1>3. \A k \in Key : /\ tombstones'[k] = Null <=> tombstones[k] = Null
                     /\ tombstones'[k] # Null => /\ tombstones'[k] \in Tombstone
                                                /\ tombstones'[k].alarm = tombstones[k].alarm
  <2> SUFFICES ASSUME NEW k \in Key
               PROVE  /\ tombstones'[k] = Null <=> tombstones[k] = Null
                      /\ tombstones'[k] # Null => /\ tombstones'[k] \in Tombstone
                                                 /\ tombstones'[k].alarm = tombstones[k].alarm
    OBVIOUS
  <2>1. CASE k \in Aging
    <3>1. tombstones[k] \in Tombstone /\ tombstones[k] # Null /\ tombstones[k].age <= Cooldown
      BY <2>1 DEF Aging, LiveTombstone, TypeOK
    <3>2. tombstones[k].age + 1 \in 0 .. Cooldown + 1
      BY <3>1, EngineAssumption DEF Tombstone
    <3>3. tombstones'[k] = [tombstones[k] EXCEPT !.age = tombstones[k].age + 1]
      BY <1>1, <2>1
    <3> QED BY <3>1, <3>2, <3>3, NullAssumption DEF Tombstone
  <2>2. CASE k \notin Aging
    BY <1>1, <2>2 DEF TypeOK
  <2> QED BY <2>1, <2>2
<1>4. tombstones' \in [Key -> Tombstone \union {Null}]
  BY <1>1, <1>3
<1>5. timers' \in [Id -> (0 .. Silence) \union {Null}]
  BY <1>1, <1>2 DEF TypeOK
<1>6. TablesOK'
  BY <1>1, <1>5 DEF Core, TablesOK
<1>7. \A i \in Id : timers'[i] = Null <=> timers[i] = Null
  BY <1>1, <1>2, NullAssumption, EngineAssumption
<1>8. Bookkeeping'
  BY <1>1, <1>7 DEF Core, Bookkeeping, OpenIsIndexed, IndexIsOpen, TimersArmOpen, SnapshotIsOpen
<1>9. TombstonesAreClosed'
  BY <1>1, <1>3 DEF Core, TombstonesAreClosed
<1>10. IdsAreUnique'
  <2>1. \A x \in Key : tombstones'[x] # Null =>
          /\ tombstones'[x].alarm.id <= lastId'
          /\ \A y \in Key : tombstones'[y] # Null /\ tombstones'[y].alarm.id = tombstones'[x].alarm.id
                            => y = x
    BY <1>1, <1>3 DEF Core, IdsAreUnique
  <2> QED BY <1>1, <2>1 DEF Core, IdsAreUnique
<1>11. ReloadIsClean'
  BY <1>1, <1>3 DEF Core, ReloadIsClean
<1> QED BY <1>4, <1>6, <1>8, <1>9, <1>10, <1>11 DEF Core

\* clear takes an alarm out of every table and leaves its tombstone.
LEMMA ClearKeepsCore ==
  ASSUME Core, TypeOK, NEW i \in Id, Clear(i)
  PROVE  /\ Core'
         /\ tombstones' \in [Key -> Tombstone \union {Null}]
         /\ board' \in [Id -> Alarm \union {Null}]
<1>1. PICK k \in Key : byId[i] = k /\ open[k] # Null /\ open[k].id = i
  BY DEF Clear, TypeOK, Core, Bookkeeping, IndexIsOpen
<1>2. /\ timers' = [timers EXCEPT ![i] = Null]
      /\ byId' = [byId EXCEPT ![i] = Null]
      /\ open' = [open EXCEPT ![k] = Null]
      /\ snapshot' = [snapshot EXCEPT ![i] = Null]
      /\ board' = [board EXCEPT ![i] = Null]
      /\ tombstones' = [x \in Key |->
                          IF x = k THEN [alarm |-> open[k], age |-> 0]
                          ELSE IF LiveTombstone(x) THEN tombstones[x] ELSE Null]
      /\ UNCHANGED <<mode, loading, lastId>>
      /\ mode = "running"
  BY <1>1 DEF Clear, Idle
<1>3. store' \in [Id -> Alarm \union {Null}] /\ \A j \in Id : store'[j] \in {store[j], Null}
  <2>1. store' = store \/ store' = [store EXCEPT ![i] = Null]
    BY DEF Clear
  <2> QED BY <2>1 DEF TypeOK
<1>4. open[k] \in Alarm /\ open[k].key = k
  BY <1>1 DEF TypeOK, Core, Bookkeeping, OpenIsIndexed
<1>5. [alarm |-> open[k], age |-> 0] \in Tombstone
  BY <1>4, EngineAssumption DEF Tombstone
<1>6. tombstones' \in [Key -> Tombstone \union {Null}]
  BY <1>2, <1>5 DEF TypeOK
<1>7. TablesOK'
  BY <1>2, <1>3 DEF Core, TablesOK
<1>8. Bookkeeping'
  <2>1. OpenIsIndexed' /\ IndexIsOpen'
    BY <1>1, <1>2, NullAssumption DEF Core, TablesOK, Bookkeeping, OpenIsIndexed, IndexIsOpen
  <2>2. TimersArmOpen'
    BY <1>2 DEF Core, TablesOK, Bookkeeping, TimersArmOpen
  <2>3. SnapshotIsOpen'
    BY <1>1, <1>2 DEF Core, TablesOK, Bookkeeping, OpenIsIndexed, IndexIsOpen, SnapshotIsOpen
  <2> QED BY <2>1, <2>2, <2>3 DEF Bookkeeping
<1>9. \A x \in Key \ {k} : tombstones'[x] # Null =>
        /\ tombstones'[x] = tombstones[x]
        /\ tombstones[x] # Null
        /\ tombstones[x].alarm.id \in Id
        /\ tombstones[x].alarm.key = x
        /\ byId[tombstones[x].alarm.id] = Null
        /\ tombstones[x].alarm.id # i
  BY <1>1, <1>2, NullAssumption DEF Core, TombstonesAreClosed, TypeOK, Tombstone, Alarm
<1>10. tombstones'[k] # Null /\ tombstones'[k].alarm = open[k]
  BY <1>2, <1>5, NullAssumption
<1>11. TombstonesAreClosed'
  BY <1>1, <1>2, <1>4, <1>9, <1>10 DEF TombstonesAreClosed, TypeOK
<1>12. IdsAreUnique'
  <2>1. \A j \in Id : byId'[j] # Null => j <= lastId'
    BY <1>2 DEF Core, IdsAreUnique, TypeOK
  <2>2. \A j \in Id : store'[j] # Null => store'[j].id = j /\ j <= lastId'
    BY <1>2, <1>3 DEF Core, IdsAreUnique
  <2>3. \A x \in Key : tombstones'[x] # Null =>
          /\ tombstones'[x].alarm.id <= lastId'
          /\ \A y \in Key : tombstones'[y] # Null /\ tombstones'[y].alarm.id = tombstones'[x].alarm.id
                            => y = x
    <3>1. i <= lastId
      BY <1>1, NullAssumption DEF Core, IdsAreUnique
    <3> QED BY <1>1, <1>2, <1>9, <1>10, <3>1 DEF Core, IdsAreUnique
  <2> QED BY <2>1, <2>2, <2>3 DEF IdsAreUnique
<1>13. ReloadIsClean'
  BY <1>2 DEF Core, ReloadIsClean
<1>14. board' \in [Id -> Alarm \union {Null}]
  BY <1>2 DEF TypeOK
<1> QED BY <1>6, <1>7, <1>8, <1>11, <1>12, <1>13, <1>14 DEF Core

\* A restart empties every table but the store, and owes a row per alarm.
LEMMA StartKeepsCore ==
  ASSUME Core, TypeOK, Start
  PROVE  /\ Core'
         /\ loading' \subseteq Id
         /\ tombstones' \in [Key -> Tombstone \union {Null}]
         /\ board' \in [Id -> Alarm \union {Null}]
<1>0. loading' \subseteq {i \in Id : store[i] # Null}
  BY DEF Start, ReadableRows
<1>1. /\ mode' = "loading"
      /\ loading' \subseteq {i \in Id : store[i] # Null}
      /\ open' = [k \in Key |-> Null]
      /\ byId' = [i \in Id |-> Null]
      /\ timers' = [i \in Id |-> Null]
      /\ tombstones' = [k \in Key |-> Null]
      /\ snapshot' = [i \in Id |-> Null]
      /\ board' = [i \in Id |-> Null]
      /\ UNCHANGED <<store, lastId>>
  BY <1>0 DEF Start
<1>2. TablesOK'
  BY <1>1 DEF Core, TablesOK
<1>3. Bookkeeping'
  BY <1>1 DEF Bookkeeping, OpenIsIndexed, IndexIsOpen, TimersArmOpen, SnapshotIsOpen
<1>4. TombstonesAreClosed' /\ IdsAreUnique' /\ ReloadIsClean'
  BY <1>1 DEF Core, TombstonesAreClosed, IdsAreUnique, ReloadIsClean
<1> QED BY <1>1, <1>2, <1>3, <1>4 DEF Core

\* The reload loop inserts a row under its own id, which no table knows yet.
LEMMA LoadKeepsCore ==
  ASSUME Core, TypeOK, NEW i \in Id, LoadNext(i)
  PROVE  /\ Core'
         /\ board' \in [Id -> Alarm \union {Null}]
<1>1. PICK a \in Alarm : a = store[i] /\ a.id = i /\ byId[i] = Null /\ i <= lastId
  BY DEF LoadNext, Core, ReloadIsClean, IdsAreUnique, TypeOK
<1>2. /\ InsertOpen(a)
      /\ loading' = loading \ {i}
      /\ board' = snapshot'
      /\ UNCHANGED <<mode, tombstones, lastId>>
      /\ mode = "loading"
  BY <1>1 DEF LoadNext
<1>3. /\ TablesOK' /\ Bookkeeping'
      /\ \A j \in Id : byId'[j] # Null => byId[j] # Null \/ j = i
      /\ \A j \in Id : store'[j] \in {store[j], Null} \/ (j = i /\ store'[j] = a)
      /\ \A j \in Id : store'[j] = Null => store[j] = Null \/ byId[j] # Null
  BY <1>1, <1>2, InsertKeepsBookkeeping DEF Core
<1>4. TombstonesAreClosed'
  BY <1>2 DEF Core, ReloadIsClean, TombstonesAreClosed
<1>5. IdsAreUnique'
  BY <1>1, <1>2, <1>3 DEF Core, ReloadIsClean, IdsAreUnique
<1>6. ReloadIsClean'
  BY <1>2, <1>3 DEF Core, ReloadIsClean, TypeOK
<1> QED BY <1>2, <1>3, <1>4, <1>5, <1>6 DEF Core, TablesOK

-----------------------------------------------------------------------------
(* The inductive invariant.                                                *)

\* The types of the variables that are not tables.
RestOK ==
  /\ mode \in {"loading", "running", "stopped"}
  /\ loading \subseteq Id
  /\ tombstones \in [Key -> Tombstone \union {Null}]
  /\ inFlight \subseteq Key
  /\ suppressed \subseteq Key
  /\ unjudged \in [Template -> SUBSET Host]
  /\ raising \subseteq Key
  /\ checks \in [Key -> Seq(Nat)]
  /\ judged \subseteq Template
  /\ asked \subseteq Template
  /\ verdict \in [Template -> Verdicts \union {Null}]
  /\ survivor \in [Template -> Template]
  /\ board \in [Id -> Alarm \union {Null}]
  /\ lastId \in 0 .. MaxAlarms

LEMMA IndInvParts == IndInv <=> Core /\ RestOK /\ PendingIsGated
  BY DEF IndInv, Core, TypeOK, TablesOK, RestOK

LEMMA IndInvNext == Core' /\ RestOK' /\ PendingIsGated' => IndInv'
  BY DEF IndInv, Core, TypeOK, TablesOK, RestOK

\* The first start has empty tables.
LEMMA InitIndInv == Init => IndInv
<1> SUFFICES ASSUME Init PROVE IndInv
  OBVIOUS
<1>1. TypeOK
  BY EngineAssumption DEF Init, TypeOK
<1>2. Bookkeeping
  BY DEF Init, Bookkeeping, OpenIsIndexed, IndexIsOpen, TimersArmOpen, SnapshotIsOpen
<1>3. TombstonesAreClosed /\ IdsAreUnique /\ ReloadIsClean
  BY DEF Init, TombstonesAreClosed, IdsAreUnique, ReloadIsClean
<1>4. PendingIsGated
  BY DEF Init, PendingIsGated
<1> QED BY <1>1, <1>2, <1>3, <1>4 DEF IndInv

\* One step per kind of line.
LEMMA LineKeepsTables ==
  ASSUME IndInv, NEW t \in Template, NEW h \in Host, NEW triggered \in BOOLEAN,
         Line(t, h, triggered)
  PROVE  Core' /\ RestOK'
<1> Core /\ TypeOK /\ RestOK
  BY IndInvParts DEF IndInv
<1>1. CASE LineUnjudged(t, h)
  <2>1. Core'
    BY <1>1, BystanderKeepsCore DEF LineUnjudged, tables, published
  <2>2. RestOK'
    BY <1>1 DEF LineUnjudged, tables, published, RestOK
  <2> QED BY <2>1, <2>2
<1>2. CASE LineBumps(t, h, triggered)
  <2>1. Core' /\ board' \in [Id -> Alarm \union {Null}]
    BY <1>2, BumpKeepsCore
  <2>2. RestOK'
    BY <1>2, <2>1 DEF LineBumps, Passes, outside, RestOK
  <2> QED BY <2>1, <2>2
<1>3. CASE LineRevives(t, h, triggered)
  <2>1. Core' /\ board' \in [Id -> Alarm \union {Null}]
    BY <1>3, ReviveKeepsCore
  <2>2. tombstones' \in [Key -> Tombstone \union {Null}]
    BY <1>3 DEF LineRevives, RestOK
  <2>3. RestOK'
    BY <1>3, <2>1, <2>2 DEF LineRevives, Passes, outside, RestOK
  <2> QED BY <2>1, <2>3
<1>4. ASSUME Unopened(KeyOf(t, h), verdict[survivor[t]], triggered)
      PROVE  /\ tombstones' \in [Key -> Tombstone \union {Null}]
             /\ \A x \in Key : tombstones'[x] \in {tombstones[x], Null}
  BY <1>4 DEF Unopened, RestOK
<1>5. CASE LineCools(t, h, triggered)
  <2>1. Core'
    BY <1>4, <1>5, BystanderKeepsCore DEF LineCools, tables, published
  <2>2. RestOK'
    BY <1>4, <1>5 DEF LineCools, Passes, outside, published, RestOK
  <2> QED BY <2>1, <2>2
<1>6. CASE LineChecks(t, h, triggered)
  <2>1. Core'
    BY <1>4, <1>6, BystanderKeepsCore DEF LineChecks, tables, published
  <2>2. PICK k \in Key : k = KeyOf(t, h)
    BY <1>6, KeyAndSeverity DEF LineChecks
  <2>3. PICK severity \in Nat : severity = verdict[survivor[t]].severity
    BY <1>6, KeyAndSeverity DEF LineChecks
  <2>4. checks' = [checks EXCEPT ![k] = Append(checks[k], severity)]
    BY <1>6, <2>2, <2>3 DEF LineChecks
  <2>5. checks' \in [Key -> Seq(Nat)]
    BY <2>4 DEF RestOK
  <2>6. inFlight' \subseteq Key
    BY <1>6, <2>2 DEF LineChecks, RestOK
  <2>7. RestOK'
    BY <1>4, <1>6, <2>5, <2>6 DEF LineChecks, Passes, outside, published, RestOK
  <2> QED BY <2>1, <2>7
<1>7. CASE LineRaises(t, h, triggered)
  <2>1. PICK k \in Key : k = KeyOf(t, h)
    BY <1>7, KeyAndSeverity DEF LineRaises
  <2>2. PICK severity \in Nat : severity = verdict[survivor[t]].severity
    BY <1>7, KeyAndSeverity DEF LineRaises
  <2>3. Raise(k, severity, "Dashboard")
    BY <1>7, <2>1, <2>2 DEF LineRaises
  <2>4. /\ Core'
        /\ board' \in [Id -> Alarm \union {Null}]
        /\ lastId' \in 0 .. MaxAlarms
    BY <1>4, <1>7, <2>3, KeyAndSeverity, RaiseKeepsCore DEF LineRaises, Lane
  <2>5. RestOK'
    BY <1>4, <1>7, <2>4 DEF LineRaises, Passes, outside, RestOK
  <2> QED BY <2>4, <2>5
<1> QED BY <1>1, <1>2, <1>3, <1>5, <1>6, <1>7 DEF Line

\* A returning check.
LEMMA ApplyKeepsTables ==
  ASSUME IndInv, NEW k \in Key, Apply(k)
  PROVE  Core' /\ RestOK'
<1> Core /\ TypeOK /\ RestOK
  BY IndInvParts DEF IndInv
<1>1. Returns(k)
  BY DEF Apply, CheckOvertaken, CheckRaises, CheckSilences
<1>2. Head(checks[k]) \in Nat /\ checks' \in [Key -> Seq(Nat)] /\ inFlight' \subseteq Key
  <2>1. checks[k] \in Seq(Nat) /\ checks[k] # <<>>
    BY <1>1 DEF Returns, RestOK
  <2>2. Head(checks[k]) \in Nat /\ Tail(checks[k]) \in Seq(Nat)
    BY <2>1
  <2>3. checks' = [checks EXCEPT ![k] = Tail(checks[k])] /\ inFlight' = inFlight \ {k}
    BY <1>1 DEF Returns
  <2> QED BY <2>2, <2>3 DEF RestOK
<1>3. CASE CheckOvertaken(k)
  <2>1. Core'
    BY <1>1, <1>3, BystanderKeepsCore DEF CheckOvertaken, Returns, tables, published
  <2>2. RestOK'
    BY <1>1, <1>2, <1>3 DEF CheckOvertaken, Returns, outside, published, RestOK
  <2> QED BY <2>1, <2>2
<1>4. CASE CheckRaises(k)
  <2>1. PICK lane \in Lane : Raise(k, Head(checks[k]), lane)
    BY <1>4 DEF CheckRaises
  <2>2. PICK severity \in Nat : severity = Head(checks[k])
    BY <1>2
  <2>3. Raise(k, severity, lane)
    BY <2>1, <2>2
  <2>4. /\ Core'
        /\ board' \in [Id -> Alarm \union {Null}]
        /\ lastId' \in 0 .. MaxAlarms
    BY <1>1, <2>3, RaiseKeepsCore DEF Returns, Idle
  <2>5. RestOK'
    BY <1>1, <1>2, <1>4, <2>4 DEF CheckRaises, Returns, outside, RestOK
  <2> QED BY <2>4, <2>5
<1>5. CASE CheckSilences(k)
  <2>1. Core'
    BY <1>1, <1>5, BystanderKeepsCore DEF CheckSilences, Returns, tables, published
  <2>2. RestOK'
    BY <1>1, <1>2, <1>5 DEF CheckSilences, Returns, outside, published, RestOK
  <2> QED BY <2>1, <2>2
<1> QED BY <1>3, <1>4, <1>5 DEF Apply

\* One host of the on_judged loop.
LEMMA FirstSightingKeepsTables ==
  ASSUME IndInv, NEW k \in Key, RaiseFirstSighting(k)
  PROVE  Core' /\ RestOK'
<1> Core /\ TypeOK /\ RestOK
  BY IndInvParts DEF IndInv
<1>1. CASE open[k] # Null
  <2>1. Core'
    BY <1>1, BystanderKeepsCore DEF RaiseFirstSighting, tables, published
  <2>2. RestOK'
    BY <1>1 DEF RaiseFirstSighting, outside, published, RestOK
  <2> QED BY <2>1, <2>2
<1>2. CASE open[k] = Null
  <2>1. k[1] \in Template /\ verdict[k[1]] \in Verdicts
    BY IndInvParts DEF RaiseFirstSighting, PendingIsGated, Key, RestOK
  <2>2. PICK severity \in Nat : severity = verdict[k[1]].severity
    BY <2>1, EngineAssumption
  <2>3. Raise(k, severity, "Dashboard")
    BY <1>2, <2>2 DEF RaiseFirstSighting
  <2>4. /\ Core'
        /\ board' \in [Id -> Alarm \union {Null}]
        /\ lastId' \in 0 .. MaxAlarms
    BY <2>3, RaiseKeepsCore DEF RaiseFirstSighting, Lane
  <2>5. RestOK'
    BY <1>2, <2>4 DEF RaiseFirstSighting, outside, RestOK
  <2> QED BY <2>4, <2>5
<1> QED BY <1>1, <1>2

\* Every step keeps the tables and the types: one step per action.
LEMMA NextKeepsTables == IndInv /\ [Next]_vars => Core' /\ RestOK'
<1> SUFFICES ASSUME IndInv, [Next]_vars PROVE Core' /\ RestOK'
  OBVIOUS
<1> Core /\ TypeOK /\ RestOK
  BY IndInvParts DEF IndInv
<1>1. ASSUME NEW t \in Template, NEW h \in Host, NEW triggered \in BOOLEAN, Line(t, h, triggered)
      PROVE  Core' /\ RestOK'
  BY <1>1, LineKeepsTables
<1>2. ASSUME NEW k \in Key, Apply(k)
      PROVE  Core' /\ RestOK'
  BY <1>2, ApplyKeepsTables
<1>3. ASSUME NEW k \in Key, RaiseFirstSighting(k)
      PROVE  Core' /\ RestOK'
  BY <1>3, FirstSightingKeepsTables
<1>4. ASSUME NEW t \in Template, JudgeLands(t)
      PROVE  Core' /\ RestOK'
  <2>1. Core'
    BY <1>4, BystanderKeepsCore DEF JudgeLands, tables, published
  <2>2. RestOK'
    BY <1>4 DEF JudgeLands, published, RestOK
  <2> QED BY <2>1, <2>2
<1>5. ASSUME NEW t \in Template, JudgeFails(t)
      PROVE  Core' /\ RestOK'
  BY <1>5, BystanderKeepsCore DEF JudgeFails, tables, published, RestOK
<1>6. ASSUME NEW t \in Template, Judged(t)
      PROVE  Core' /\ RestOK'
  <2>1. Core'
    BY <1>6, BystanderKeepsCore DEF Judged, tables, published
  <2>2. raising' \subseteq Key
    BY <1>6 DEF Judged, Key, RestOK
  <2>3. RestOK'
    BY <1>6, <2>2 DEF Judged, outside, published, RestOK
  <2> QED BY <2>1, <2>3
<1>7. ASSUME NEW t \in Template, JudgedUnread(t)
      PROVE  Core' /\ RestOK'
  BY <1>7, BystanderKeepsCore DEF JudgedUnread, tables, published, RestOK
<1>8. ASSUME NEW hi \in Template, NEW lo \in Template, MergeLands(hi, lo)
      PROVE  Core' /\ RestOK'
  BY <1>8, BystanderKeepsCore DEF MergeLands, tables, published, RestOK
<1>9. ASSUME NEW i \in Id, Clear(i)
      PROVE  Core' /\ RestOK'
  BY <1>9, ClearKeepsCore DEF Clear, outside, RestOK
<1>10. ASSUME NEW i \in Id, LoadNext(i)
       PROVE  Core' /\ RestOK'
  BY <1>10, LoadKeepsCore DEF LoadNext, outside, RestOK
<1>11. CASE Tick
  BY <1>11, TickKeepsCore DEF Tick, outside, published, RestOK
<1>12. ASSUME mode' \in {"stopped", "running"}, mode' = "running" => loading = {},
              UNCHANGED <<loading, tables, tombstones, inFlight, suppressed, unjudged, raising,
                          checks, judged, outside, published, lastId>>
       PROVE  Core' /\ RestOK'
  <2>1. TablesOK' /\ Bookkeeping'
    BY <1>12 DEF Core, tables, published, TablesOK, Bookkeeping, OpenIsIndexed, IndexIsOpen,
                 TimersArmOpen, SnapshotIsOpen
  <2>2. TombstonesAreClosed' /\ IdsAreUnique' /\ ReloadIsClean'
    BY <1>12 DEF Core, tables, published, TombstonesAreClosed, IdsAreUnique, ReloadIsClean
  <2>3. RestOK'
    BY <1>12 DEF RestOK, outside, published
  <2> QED BY <2>1, <2>2, <2>3 DEF Core
<1>13. CASE Stop
  BY <1>12, <1>13 DEF Stop
<1>14. CASE Run
  BY <1>12, <1>14 DEF Run
<1>15. CASE Start
  <2>1. /\ Core'
        /\ loading' \subseteq Id
        /\ tombstones' \in [Key -> Tombstone \union {Null}]
        /\ board' \in [Id -> Alarm \union {Null}]
    BY <1>15, StartKeepsCore
  <2>2. survivor' \in [Template -> Template]
    BY <1>15 DEF Start, Rehooked
  <2>3. RestOK'
    BY <1>15, <2>1, <2>2 DEF Start, RestOK
  <2> QED BY <2>1, <2>3
<1>16. CASE UNCHANGED vars
  BY <1>16, BystanderKeepsCore DEF vars, tables, outside, published, RestOK
<1> QED BY <1>1, <1>2, <1>3, <1>4, <1>5, <1>6, <1>7, <1>8, <1>9, <1>10, <1>11,
           <1>13, <1>14, <1>15, <1>16 DEF Next

\* Verdicts are never taken back while a check or a notice rests on them, and
\* every new check, notice and loop of on_judged has a gated one.
LEMMA NextKeepsPending == IndInv /\ [Next]_vars => PendingIsGated'
<1> SUFFICES ASSUME IndInv, [Next]_vars PROVE PendingIsGated'
  OBVIOUS
<1> PendingIsGated /\ TypeOK
  BY DEF IndInv
<1>1. ASSUME UNCHANGED <<judged, raising, checks, verdict>>
      PROVE  PendingIsGated'
  BY <1>1 DEF PendingIsGated
<1>2. ASSUME NEW t \in Template, NEW h \in Host, NEW triggered \in BOOLEAN, Line(t, h, triggered)
      PROVE  PendingIsGated'
  <2>1. CASE LineChecks(t, h, triggered)
    <3>1. /\ verdict[survivor[t]] # Null /\ Gated(verdict[survivor[t]])
          /\ UNCHANGED <<judged, raising, verdict>>
          /\ checks' = [checks EXCEPT ![KeyOf(t, h)] =
                           Append(@, verdict[survivor[t]].severity)]
      BY <2>1 DEF LineChecks, Passes, outside
    <3>2. \A k \in Key : checks'[k] = checks[k] \/ k[1] = survivor[t]
      BY <3>1 DEF TypeOK, KeyOf
    <3> QED BY <3>1, <3>2 DEF PendingIsGated
  <2>2. CASE ~LineChecks(t, h, triggered)
    <3>1. UNCHANGED <<judged, raising, checks, verdict>>
      BY <1>2, <2>2 DEF Line, LineUnjudged, LineBumps, LineRevives, LineCools, LineRaises, outside
    <3> QED BY <3>1, <1>1
  <2> QED BY <2>1, <2>2
<1>3. ASSUME NEW k \in Key, Apply(k)
      PROVE  PendingIsGated'
  <2>1. /\ checks[k] # <<>>
        /\ checks' = [checks EXCEPT ![k] = Tail(checks[k])]
        /\ UNCHANGED <<judged, raising, verdict>>
    BY <1>3 DEF Apply, CheckOvertaken, CheckRaises, CheckSilences, Returns, outside
  <2>2. \A x \in Key : checks'[x] # <<>> => checks[x] # <<>>
    BY <2>1 DEF TypeOK
  <2> QED BY <2>1, <2>2 DEF PendingIsGated
<1>4. ASSUME NEW k \in Key, RaiseFirstSighting(k)
      PROVE  PendingIsGated'
  BY <1>4 DEF RaiseFirstSighting, outside, PendingIsGated
<1>5. ASSUME NEW t \in Template, JudgeLands(t)
      PROVE  PendingIsGated'
  <2>1. PICK v \in Verdicts : verdict' = [verdict EXCEPT ![t] = v]
    BY <1>5 DEF JudgeLands
  <2>2. /\ verdict[t] = Null
        /\ judged' \subseteq judged \union {t}
        /\ UNCHANGED <<raising, checks>>
    BY <1>5 DEF JudgeLands
  <2>3. /\ verdict'[t] # Null
        /\ \A x \in Template : verdict[x] # Null => verdict'[x] = verdict[x]
    BY <2>1, <2>2, NullAssumption DEF TypeOK
  <2>4. \A x \in judged' : verdict'[x] # Null
    BY <2>2, <2>3 DEF PendingIsGated, TypeOK
  <2>5. \A k \in Key : k[1] \in Template
    BY DEF Key
  <2>6. \A k \in Key : verdict[k[1]] # Null /\ Gated(verdict[k[1]])
                        => verdict'[k[1]] # Null /\ Gated(verdict'[k[1]])
    BY <2>3, <2>5 DEF Gated
  <2> QED BY <2>2, <2>4, <2>6 DEF PendingIsGated, TypeOK
<1>6. ASSUME NEW t \in Template, Judged(t)
      PROVE  PendingIsGated'
  <2>1. /\ t \in judged
        /\ judged' = judged \ {t}
        /\ UNCHANGED <<checks, verdict>>
        /\ \/ raising' = {}
           \/ Gated(verdict[t]) /\ raising' = {t} \X unjudged[t]
    BY <1>6 DEF Judged, outside
  <2>2. \A k \in raising' : verdict[k[1]] # Null /\ Gated(verdict[k[1]])
    BY <2>1 DEF PendingIsGated
  <2> QED BY <2>1, <2>2 DEF PendingIsGated
<1>7. ASSUME NEW t \in Template, JudgeFails(t) \/ JudgedUnread(t)
      PROVE  PendingIsGated'
  BY <1>7 DEF JudgeFails, JudgedUnread, PendingIsGated
<1>8. ASSUME NEW hi \in Template, NEW lo \in Template, MergeLands(hi, lo)
      PROVE  PendingIsGated'
  BY <1>1, <1>8 DEF MergeLands
<1>9. ASSUME NEW i \in Id, Clear(i) \/ LoadNext(i)
      PROVE  PendingIsGated'
  BY <1>1, <1>9 DEF Clear, LoadNext, outside
<1>10. CASE Tick \/ Stop \/ Run
  BY <1>1, <1>10 DEF Tick, Stop, Run, outside
<1>11. CASE Start
  BY <1>11 DEF Start, PendingIsGated
<1>12. CASE UNCHANGED vars
  BY <1>1, <1>12 DEF vars, outside
<1> QED BY <1>2, <1>3, <1>4, <1>5, <1>6, <1>7, <1>8, <1>9, <1>10, <1>11, <1>12 DEF Next

LEMMA NextIndInv == IndInv /\ [Next]_vars => IndInv'
  BY NextKeepsTables, NextKeepsPending, IndInvNext

\* IndInv is inductive: it holds in every reachable state.
THEOREM InductiveInvariant == Spec => []IndInv
  BY InitIndInv, NextIndInv, PTL DEF Spec

\* Every variable stays in its type.
THEOREM TypeCorrectness == Spec => []TypeOK
<1>1. IndInv => TypeOK
  BY DEF IndInv
<1> QED BY <1>1, InductiveInvariant, PTL

\* After every handler of the engine open, by_id, the timers and the snapshot
\* tell the same story: one open alarm per key, each with its timer.
THEOREM BookkeepingHolds == Spec => []Bookkeeping
<1>1. IndInv => Bookkeeping
  BY DEF IndInv
<1> QED BY <1>1, InductiveInvariant, PTL

\* A tombstone keeps an alarm of its key that is closed.
THEOREM TombstonesHold == Spec => []TombstonesAreClosed
<1>1. IndInv => TombstonesAreClosed
  BY DEF IndInv
<1> QED BY <1>1, InductiveInvariant, PTL

-----------------------------------------------------------------------------
(* What a step may never do.                                               *)

\* Where the one alarm that a step shows comes from: one more occurrence of
\* an open alarm, a fresh id, or the alarm of a live tombstone.
Grows(a) == \E k \in Key : /\ open[k] # Null
                           /\ open[k].id = a.id
                           /\ a.key = open[k].key
                           /\ a.lane = open[k].lane
                           /\ a.count = open[k].count + 1
                           /\ a.severity >= open[k].severity

Opens(a) == byId[a.id] = Null /\ a.id > lastId /\ a.count = 1

Reopens(a) == /\ byId[a.id] = Null
              /\ LiveTombstone(a.key)
              /\ tombstones[a.key].alarm.id = a.id
              /\ a.count = tombstones[a.key].alarm.count + 1

\* A step shows one alarm, which stands behind the gate.
Shows(a) ==
  /\ board' = [board EXCEPT ![a.id] = a]
  /\ snapshot' = [snapshot EXCEPT ![a.id] = a]
  /\ verdict[a.key[1]] # Null
  /\ Gated(verdict[a.key[1]])
  /\ Grows(a) \/ Opens(a) \/ Reopens(a)

ShowsGated == \E a \in Alarm : Shows(a)

\* insert_open on a free key displaces nothing.
LEMMA InsertOnFreeKey ==
  ASSUME TypeOK, NEW a \in Alarm, open[a.key] = Null, InsertOpen(a)
  PROVE  snapshot' = [snapshot EXCEPT ![a.id] = a]
<1>1. PICK saved \in BOOLEAN, deleted \in BOOLEAN : SaveAndSnapshot(a, {}, saved, deleted)
  <2>1. {i \in Id : open[a.key] # Null /\ open[a.key].id = i} = {}
    OBVIOUS
  <2> QED BY <2>1, WriteResultsAreBooleans DEF InsertOpen
<1>2. snapshot' = [i \in Id |-> IF i = a.id THEN a ELSE snapshot[i]]
  BY <1>1 DEF SaveAndSnapshot
<1> QED BY <1>2 DEF TypeOK

LEMMA RaiseShowsGated ==
  ASSUME IndInv, NEW k \in Key, NEW severity \in Nat, NEW lane \in Lane,
         Raise(k, severity, lane), open[k] = Null, verdict[k[1]] # Null, Gated(verdict[k[1]])
  PROVE  ShowsGated
<1> TypeOK /\ IdsAreUnique
  BY DEF IndInv
<1>1. PICK a \in Alarm : a = [id |-> lastId + 1, key |-> k, severity |-> severity,
                             count |-> 1, lane |-> lane]
  <2>1. lastId + 1 \in Id /\ 1 \in 1 .. MaxCount
    BY EngineAssumption DEF Raise, Id, TypeOK
  <2>2. [id |-> lastId + 1, key |-> k, severity |-> severity, count |-> 1, lane |-> lane] \in Alarm
    BY <2>1 DEF Alarm
  <2> QED BY <2>2
<1>2. board' = [board EXCEPT ![a.id] = a] /\ InsertOpen(a)
  BY <1>1 DEF Raise, Publish, Put
<1>3. a.key = k /\ a.id = lastId + 1 /\ a.count = 1 /\ a.id \in Id /\ lastId \in Nat
  BY <1>1 DEF Alarm, TypeOK
<1>4. Opens(a)
  BY <1>3 DEF Opens, IdsAreUnique, Id
<1>5. snapshot' = [snapshot EXCEPT ![a.id] = a]
  BY <1>2, <1>3, InsertOnFreeKey
<1> QED BY <1>2, <1>3, <1>4, <1>5 DEF ShowsGated, Shows

LEMMA LineShowsGated ==
  ASSUME IndInv, NEW t \in Template, NEW h \in Host, NEW triggered \in BOOLEAN,
         Line(t, h, triggered)
  PROVE  UNCHANGED <<board, snapshot>> \/ ShowsGated
<1> TypeOK /\ Bookkeeping /\ TombstonesAreClosed
  BY DEF IndInv
<1>1. ASSUME Passes(t, h, triggered)
      PROVE  \E k \in Key, severity \in Nat :
               /\ k = KeyOf(t, h)
               /\ severity = verdict[survivor[t]].severity
               /\ verdict[k[1]] # Null
               /\ Gated(verdict[k[1]])
  <2>1. verdict[KeyOf(t, h)[1]] # Null /\ Gated(verdict[KeyOf(t, h)[1]])
    BY <1>1 DEF Passes, KeyOf
  <2> QED BY <1>1, <2>1, KeyAndSeverity
<1>2. CASE LineBumps(t, h, triggered)
  <2>1. PICK k \in Key, severity \in Nat :
               /\ k = KeyOf(t, h)
               /\ severity = verdict[survivor[t]].severity
               /\ verdict[k[1]] # Null
               /\ Gated(verdict[k[1]])
    BY <1>1, <1>2 DEF LineBumps
  <2>2. open[k] \in Alarm /\ open[k].count < MaxCount /\ open[k].key = k
    BY <1>2, <2>1 DEF LineBumps, TypeOK, Bookkeeping, OpenIsIndexed
  <2>3. PICK a \in Alarm : a = Bumped(open[k], severity) /\ a.key = k /\ Grows(a)
    <3>1. open[k] # Null
      BY <1>2, <2>1 DEF LineBumps
    <3> QED BY <2>2, <3>1, BumpedIsAlarm DEF Grows
  <2>4. board' = [board EXCEPT ![a.id] = a]
    BY <1>2, <2>1, <2>3 DEF LineBumps, Publish, Put
  <2>5. snapshot' = [snapshot EXCEPT ![a.id] = a]
    <3>1. PICK saved \in BOOLEAN : SaveAndSnapshot(a, {}, saved, TRUE)
      BY <1>2, <2>1, <2>3, WriteResultsAreBooleans DEF LineBumps
    <3>2. snapshot' = [i \in Id |-> IF i = a.id THEN a ELSE snapshot[i]]
      BY <3>1 DEF SaveAndSnapshot
    <3> QED BY <3>2 DEF TypeOK
  <2> QED BY <2>1, <2>3, <2>4, <2>5 DEF ShowsGated, Shows
<1>3. CASE LineRevives(t, h, triggered)
  <2>1. PICK k \in Key, severity \in Nat :
               /\ k = KeyOf(t, h)
               /\ severity = verdict[survivor[t]].severity
               /\ verdict[k[1]] # Null
               /\ Gated(verdict[k[1]])
    BY <1>1, <1>3 DEF LineRevives
  <2>2. /\ tombstones[k].alarm \in Alarm
        /\ tombstones[k].alarm.count < MaxCount
        /\ tombstones[k].alarm.key = k
    BY <1>3, <2>1 DEF LineRevives, LiveTombstone, TypeOK, Tombstone, TombstonesAreClosed
  <2>3. PICK a \in Alarm : /\ a = Bumped(tombstones[k].alarm, severity)
                          /\ a.key = k
                          /\ a.id = tombstones[k].alarm.id
                          /\ a.count = tombstones[k].alarm.count + 1
    BY <2>2, BumpedIsAlarm
  <2>4. /\ board' = [board EXCEPT ![a.id] = a]
        /\ InsertOpen(a)
        /\ open[a.key] = Null
        /\ LiveTombstone(a.key)
    BY <1>3, <2>1, <2>3 DEF LineRevives, Publish, Put
  <2>5. snapshot' = [snapshot EXCEPT ![a.id] = a]
    BY <2>4, InsertOnFreeKey
  <2>6. Reopens(a)
    BY <2>3, <2>4 DEF Reopens, TombstonesAreClosed, LiveTombstone
  <2> QED BY <2>1, <2>3, <2>4, <2>5, <2>6 DEF ShowsGated, Shows
<1>4. CASE LineRaises(t, h, triggered)
  <2>1. PICK k \in Key, severity \in Nat :
               /\ k = KeyOf(t, h)
               /\ severity = verdict[survivor[t]].severity
               /\ verdict[k[1]] # Null
               /\ Gated(verdict[k[1]])
    BY <1>1, <1>4 DEF LineRaises
  <2>2. Raise(k, severity, "Dashboard") /\ open[k] = Null
    BY <1>4, <2>1 DEF LineRaises, Unopened
  <2> QED BY <2>1, <2>2, RaiseShowsGated DEF Lane
<1>5. CASE LineUnjudged(t, h) \/ LineCools(t, h, triggered) \/ LineChecks(t, h, triggered)
  BY <1>5 DEF LineUnjudged, LineCools, LineChecks, published
<1> QED BY <1>2, <1>3, <1>4, <1>5 DEF Line

\* How a running engine changes the board: not at all, by clearing an alarm
\* whose silence has run out, or by showing one alarm behind the gate.
LEMMA BoardSteps ==
  ASSUME IndInv, [Next]_vars, mode = "running"
  PROVE  \/ UNCHANGED <<board, snapshot>>
         \/ \E i \in Id : /\ board' = [board EXCEPT ![i] = Null]
                         /\ snapshot' = [snapshot EXCEPT ![i] = Null]
                         /\ timers[i] = 0
         \/ ShowsGated
<1> TypeOK /\ PendingIsGated
  BY DEF IndInv
<1>1. ASSUME NEW t \in Template, NEW h \in Host, NEW triggered \in BOOLEAN, Line(t, h, triggered)
      PROVE  UNCHANGED <<board, snapshot>> \/ ShowsGated
  BY <1>1, LineShowsGated
<1>2. ASSUME NEW k \in Key, Apply(k)
      PROVE  UNCHANGED <<board, snapshot>> \/ ShowsGated
  <2>1. CASE CheckRaises(k)
    <3>1. checks[k] \in Seq(Nat) /\ checks[k] # <<>>
      BY <2>1 DEF CheckRaises, Returns, TypeOK
    <3>2. PICK severity \in Nat : severity = Head(checks[k])
      BY <3>1
    <3>3. PICK lane \in Lane : Raise(k, severity, lane)
      BY <2>1, <3>2 DEF CheckRaises
    <3>4. open[k] = Null
      BY <2>1 DEF CheckRaises
    <3> QED BY <3>1, <3>3, <3>4, RaiseShowsGated DEF PendingIsGated
  <2>2. CASE CheckOvertaken(k) \/ CheckSilences(k)
    BY <2>2 DEF CheckOvertaken, CheckSilences, published
  <2> QED BY <1>2, <2>1, <2>2 DEF Apply
<1>3. ASSUME NEW k \in Key, RaiseFirstSighting(k)
      PROVE  UNCHANGED <<board, snapshot>> \/ ShowsGated
  <2>1. verdict[k[1]] # Null /\ Gated(verdict[k[1]]) /\ verdict[k[1]] \in Verdicts
    BY <1>3 DEF RaiseFirstSighting, PendingIsGated, TypeOK, Key
  <2>2. PICK severity \in Nat : severity = verdict[k[1]].severity
    BY <2>1, EngineAssumption
  <2>3. UNCHANGED <<board, snapshot>> \/ (open[k] = Null /\ Raise(k, severity, "Dashboard"))
    BY <1>3, <2>2 DEF RaiseFirstSighting, published
  <2> QED BY <2>1, <2>3, RaiseShowsGated DEF Lane
<1>4. ASSUME NEW i \in Id, Clear(i)
      PROVE  /\ board' = [board EXCEPT ![i] = Null]
             /\ snapshot' = [snapshot EXCEPT ![i] = Null]
             /\ timers[i] = 0
  BY <1>4 DEF Clear
<1>5. ASSUME NEW t \in Template,
             JudgeLands(t) \/ JudgeFails(t) \/ Judged(t) \/ JudgedUnread(t)
      PROVE  UNCHANGED <<board, snapshot>>
  BY <1>5 DEF JudgeLands, JudgeFails, Judged, JudgedUnread, published
<1>6. ASSUME NEW hi \in Template, NEW lo \in Template, MergeLands(hi, lo)
      PROVE  UNCHANGED <<board, snapshot>>
  BY <1>6 DEF MergeLands, published
<1>7. CASE Tick \/ Stop
  BY <1>7 DEF Tick, Stop, published
<1>8. ~Start /\ ~Run /\ \A i \in Id : ~LoadNext(i)
  BY DEF Start, Run, LoadNext
<1>9. CASE UNCHANGED vars
  BY <1>9 DEF vars, published
<1> QED BY <1>1, <1>2, <1>3, <1>4, <1>5, <1>6, <1>7, <1>8, <1>9 DEF Next

\* An engine that does not run keeps its tables, its rows and what it shows,
\* but for what a reload brings back.
LEMMA QuietSteps ==
  ASSUME [Next]_vars, mode # "running"
  PROVE  UNCHANGED <<loading, tables, published>> \/ Start \/ \E i \in Id : LoadNext(i)
<1>1. CASE UNCHANGED vars
  BY <1>1 DEF vars
<1>2. CASE Run \/ Stop
  BY <1>2 DEF Run, Stop
<1>3. CASE \E t \in Template : JudgeLands(t) \/ JudgeFails(t)
  BY <1>3 DEF JudgeLands, JudgeFails
<1>4. CASE \E hi, lo \in Template : MergeLands(hi, lo)
  BY <1>4 DEF MergeLands
<1>5. ASSUME NEW t \in Template, NEW h \in Host, NEW triggered \in BOOLEAN
      PROVE  ~Line(t, h, triggered)
  <2>1. ~Idle /\ ~Passes(t, h, triggered)
    BY DEF Idle, Passes
  <2> QED BY <2>1 DEF Line, LineUnjudged, LineBumps, LineRevives, LineCools, LineChecks,
                      LineRaises
<1>6. ASSUME NEW k \in Key
      PROVE  ~Apply(k) /\ ~RaiseFirstSighting(k)
  <2>1. ~Returns(k)
    BY DEF Idle, Returns
  <2> QED BY <2>1 DEF Apply, CheckOvertaken, CheckRaises, CheckSilences,
                           RaiseFirstSighting
<1>7. /\ \A t \in Template : ~Judged(t) /\ ~JudgedUnread(t)
      /\ \A i \in Id : ~Clear(i)
      /\ ~Tick
  BY DEF Judged, JudgedUnread, Clear, Tick, Idle
<1> QED BY <1>1, <1>2, <1>3, <1>4, <1>5, <1>6, <1>7 DEF Next

\* A subscriber that applied every published change shows the open alarms.
THEOREM FeedHolds == Spec => []FeedMirrorsSnapshot
<1>1. Init => FeedMirrorsSnapshot
  BY DEF Init, FeedMirrorsSnapshot
<1>2. IndInv /\ FeedMirrorsSnapshot /\ [Next]_vars => FeedMirrorsSnapshot'
  <2> SUFFICES ASSUME IndInv, FeedMirrorsSnapshot, [Next]_vars PROVE FeedMirrorsSnapshot'
    OBVIOUS
  <2>1. CASE mode = "running"
    BY <2>1, BoardSteps DEF ShowsGated, Shows, FeedMirrorsSnapshot
  <2>2. CASE mode # "running"
    <3>1. CASE UNCHANGED <<board, snapshot>>
      BY <3>1 DEF FeedMirrorsSnapshot
    <3>2. CASE Start \/ \E i \in Id : LoadNext(i)
      BY <3>2 DEF Start, LoadNext, FeedMirrorsSnapshot
    <3> QED BY <2>2, <3>1, <3>2, QuietSteps DEF published
  <2> QED BY <2>1, <2>2
<1> QED BY <1>1, <1>2, InductiveInvariant, PTL DEF Spec

\* The tables, the feed and the tombstones agree after every handler, whatever
\* the store does.
THEOREM TablesHold == Spec => []TablesAgree
<1>1. Bookkeeping /\ FeedMirrorsSnapshot /\ TombstonesAreClosed => TablesAgree
  BY DEF TablesAgree
<1> QED BY <1>1, BookkeepingHolds, FeedHolds, TombstonesHold, PTL

\* An alarm leaves the board only when its silence has run out.
THEOREM NothingWithdrawn == Spec => OnlySilenceClears
<1>1. IndInv /\ [Next]_vars =>
        [mode = "running" =>
           \A i \in Id : board[i] # Null /\ board'[i] = Null => timers[i] = 0]_vars
  <2> SUFFICES ASSUME IndInv, [Next]_vars, mode = "running", NEW i \in Id,
                      board[i] # Null, board'[i] = Null
               PROVE  timers[i] = 0
    OBVIOUS
  <2> QED BY BoardSteps, NullAssumption DEF ShowsGated, Shows, IndInv, TypeOK
<1> QED BY <1>1, InductiveInvariant, PTL DEF Spec, OnlySilenceClears

\* Nothing raises that the gate does not let through.
THEOREM GateHolds == Spec => RaisesAreGated
<1>1. IndInv /\ [Next]_vars =>
        [mode = "running" =>
           \A i \in Id : board[i] = Null /\ board'[i] # Null =>
             /\ verdict[board'[i].key[1]] # Null
             /\ Gated(verdict[board'[i].key[1]])]_vars
  <2> SUFFICES ASSUME IndInv, [Next]_vars, mode = "running", NEW i \in Id,
                      board[i] = Null, board'[i] # Null
               PROVE  /\ verdict[board'[i].key[1]] # Null
                      /\ Gated(verdict[board'[i].key[1]])
    OBVIOUS
  <2>1. PICK a \in Alarm : Shows(a) /\ board'[i] = a
    BY BoardSteps DEF ShowsGated, Shows, IndInv, TypeOK
  <2> QED BY <2>1 DEF Shows
<1> QED BY <1>1, InductiveInvariant, PTL DEF Spec, RaisesAreGated

\* An id comes back only as the alarm of the tombstone it left.
THEOREM IdsHold == Spec => IdsAreNotRecycled
<1> DEFINE NewOrRevived(i) ==
      \/ i > lastId /\ board'[i].count = 1
      \/ LET k == board'[i].key
         IN  /\ tombstones[k] # Null
             /\ tombstones[k].age <= Cooldown
             /\ tombstones[k].alarm.id = i
             /\ board'[i].count = tombstones[k].alarm.count + 1
<1>1. IndInv /\ FeedMirrorsSnapshot /\ [Next]_vars =>
        [mode = "running" =>
           \A i \in Id : board[i] = Null /\ board'[i] # Null => NewOrRevived(i)]_vars
  <2> SUFFICES ASSUME IndInv, FeedMirrorsSnapshot, [Next]_vars, mode = "running", NEW i \in Id,
                      board[i] = Null, board'[i] # Null
               PROVE  NewOrRevived(i)
    OBVIOUS
  <2>1. PICK a \in Alarm : Shows(a) /\ board'[i] = a /\ i = a.id
    BY BoardSteps DEF ShowsGated, Shows, IndInv, TypeOK
  <2>2. ~Grows(a)
    BY <2>1, NullAssumption
       DEF Grows, IndInv, TypeOK, Alarm, Bookkeeping, OpenIsIndexed, SnapshotIsOpen, FeedMirrorsSnapshot
  <2> QED BY <2>1, <2>2 DEF Shows, Opens, Reopens, LiveTombstone
<1> QED BY <1>1, InductiveInvariant, FeedHolds, PTL DEF Spec, IdsAreNotRecycled

\* While it is shown, an alarm keeps its key and lane, and count and severity
\* only grow.
THEOREM GrowthHolds == Spec => AlarmsOnlyGrow
<1> DEFINE Grown(i) == /\ board'[i].key = board[i].key
                       /\ board'[i].lane = board[i].lane
                       /\ board'[i].count >= board[i].count
                       /\ board'[i].severity >= board[i].severity
<1>1. IndInv /\ FeedMirrorsSnapshot /\ [Next]_vars =>
        [\A i \in Id : board[i] # Null /\ board'[i] # Null => Grown(i)]_vars
  <2> SUFFICES ASSUME IndInv, FeedMirrorsSnapshot, [Next]_vars, NEW i \in Id,
                      board[i] # Null, board'[i] # Null
               PROVE  Grown(i)
    OBVIOUS
  <2> TypeOK /\ Bookkeeping /\ ReloadIsClean
    BY DEF IndInv
  <2>1. /\ board[i] \in Alarm
        /\ board[i] = snapshot[i]
        /\ byId[i] # Null
        /\ board[i] = open[byId[i]]
    BY NullAssumption DEF TypeOK, FeedMirrorsSnapshot, Bookkeeping, SnapshotIsOpen
  <2>2. ASSUME board'[i] = board[i]
        PROVE  Grown(i)
    BY <2>1, <2>2 DEF Alarm
  <2>3. CASE mode = "running"
    <3>1. ASSUME NEW a \in Alarm, Shows(a), i = a.id
          PROVE  Grown(i)
      <4>1. board'[i] = a
        BY <3>1 DEF Shows, TypeOK
      <4>2. PICK k \in Key : /\ open[k] # Null
                            /\ open[k].id = i
                            /\ a.key = open[k].key
                            /\ a.lane = open[k].lane
                            /\ a.count = open[k].count + 1
                            /\ a.severity >= open[k].severity
        BY <2>1, <3>1 DEF Shows, Opens, Reopens, Grows
      <4>3. open[k] = board[i]
        BY <2>1, <4>2 DEF Bookkeeping, OpenIsIndexed
      <4> QED BY <2>1, <4>1, <4>2, <4>3 DEF Alarm
    <3>2. ASSUME NEW a \in Alarm, Shows(a), i # a.id
          PROVE  board'[i] = board[i]
      BY <3>2 DEF Shows, TypeOK
    <3>3. CASE UNCHANGED <<board, snapshot>>
      BY <2>2, <3>3
    <3>4. ASSUME NEW j \in Id, board' = [board EXCEPT ![j] = Null]
          PROVE  board'[i] = board[i]
      BY <3>4 DEF TypeOK
    <3> QED BY <2>2, <2>3, <3>1, <3>2, <3>3, <3>4, BoardSteps DEF ShowsGated
  <2>4. CASE mode # "running"
    <3>1. ASSUME NEW j \in Id, LoadNext(j)
          PROVE  board'[i] = board[i]
      <4>1. PICK a \in Alarm : a = store[j] /\ a.id = j /\ byId[a.id] = Null
        BY <3>1 DEF LoadNext, IndInv, ReloadIsClean, IdsAreUnique, TypeOK
      <4>2. snapshot'[i] \in {snapshot[i], Null} \/ i = j
        <5>1. TablesOK /\ InsertOpen(a)
          BY <3>1, <4>1 DEF LoadNext, TypeOK, TablesOK
        <5> QED BY <4>1, <5>1, InsertKeepsBookkeeping
      <4> QED BY <2>1, <3>1, <4>1, <4>2 DEF LoadNext
    <3>2. CASE ~ \E j \in Id : LoadNext(j)
      <4>1. board' = board \/ Start
        BY <2>4, <3>2, QuietSteps DEF published
      <4>2. ~Start
        BY DEF Start
      <4> QED BY <2>2, <4>1, <4>2
    <3> QED BY <2>2, <3>1, <3>2
  <2> QED BY <2>3, <2>4
<1> QED BY <1>1, InductiveInvariant, FeedHolds, PTL DEF Spec, AlarmsOnlyGrow

\* An alarm that surfaced is neither withdrawn nor changed into another.
THEOREM SurfacedHolds == Spec => SurfacedStays
<1> QED BY NothingWithdrawn, GrowthHolds DEF SurfacedStays

-----------------------------------------------------------------------------
(* One contextual check per key.                                           *)

\* The mark and the check are set together and released together.
THEOREM ChecksHold == Spec => []OneCheckInFlight
<1>1. Init => OneCheckInFlight
  BY DEF Init, OneCheckInFlight
<1>2. TypeOK /\ OneCheckInFlight /\ [Next]_vars => OneCheckInFlight'
  <2> SUFFICES ASSUME TypeOK, OneCheckInFlight, [Next]_vars PROVE OneCheckInFlight'
    OBVIOUS
  <2>1. ASSUME UNCHANGED <<checks, inFlight>>, suppressed' \subseteq suppressed
        PROVE  OneCheckInFlight'
    BY <2>1 DEF OneCheckInFlight
  <2>2. ASSUME NEW t \in Template, NEW h \in Host, NEW triggered \in BOOLEAN, Line(t, h, triggered)
        PROVE  OneCheckInFlight'
    <3>1. CASE LineChecks(t, h, triggered)
      <4>1. PICK k \in Key, severity \in Nat :
                   k = KeyOf(t, h) /\ severity = verdict[survivor[t]].severity
        BY <3>1, KeyAndSeverity DEF LineChecks
      <4>2. /\ k \notin inFlight
            /\ suppressed' = suppressed \ {k}
            /\ inFlight' = inFlight \union {k}
            /\ checks' = [checks EXCEPT ![k] = Append(checks[k], severity)]
        BY <3>1, <4>1 DEF LineChecks, Passes
      <4>3. checks[k] \in Seq(Nat) /\ Len(checks[k]) = 0
        BY <4>2 DEF TypeOK, OneCheckInFlight
      <4>4. Len(checks'[k]) = 1
        BY <4>2, <4>3 DEF TypeOK
      <4>5. \A x \in Key : Len(checks'[x]) = IF x \in inFlight' THEN 1 ELSE 0
        BY <4>2, <4>4 DEF TypeOK, OneCheckInFlight
      <4> QED BY <4>2, <4>5 DEF OneCheckInFlight
    <3>2. CASE ~LineChecks(t, h, triggered)
      BY <2>1, <2>2, <3>2
         DEF Line, LineUnjudged, LineBumps, LineRevives, LineCools, LineRaises, Passes
    <3> QED BY <3>1, <3>2
  <2>3. ASSUME NEW k \in Key, Apply(k)
        PROVE  OneCheckInFlight'
    <3>1. /\ checks[k] # <<>>
          /\ checks' = [checks EXCEPT ![k] = Tail(checks[k])]
          /\ inFlight' = inFlight \ {k}
      BY <2>3 DEF Apply, CheckOvertaken, CheckRaises, CheckSilences, Returns
    <3>2. suppressed' \subseteq suppressed \union {k}
      BY <2>3 DEF Apply, CheckOvertaken, CheckRaises, CheckSilences
    <3>3. checks[k] \in Seq(Nat) /\ Len(checks[k]) = 1
      BY <3>1 DEF TypeOK, OneCheckInFlight
    <3>4. Len(checks'[k]) = 0
      BY <3>1, <3>3 DEF TypeOK
    <3>5. \A x \in Key : Len(checks'[x]) = IF x \in inFlight' THEN 1 ELSE 0
      BY <3>1, <3>4 DEF TypeOK, OneCheckInFlight
    <3> QED BY <3>1, <3>2, <3>5 DEF OneCheckInFlight
  <2>4. ASSUME NEW k \in Key, RaiseFirstSighting(k)
        PROVE  OneCheckInFlight'
    BY <2>1, <2>4 DEF RaiseFirstSighting
  <2>5. ASSUME NEW t \in Template,
               JudgeLands(t) \/ JudgeFails(t) \/ Judged(t) \/ JudgedUnread(t)
        PROVE  OneCheckInFlight'
    BY <2>1, <2>5 DEF JudgeLands, JudgeFails, Judged, JudgedUnread
  <2>6. ASSUME NEW hi \in Template, NEW lo \in Template, MergeLands(hi, lo)
        PROVE  OneCheckInFlight'
    BY <2>1, <2>6 DEF MergeLands
  <2>7. ASSUME NEW i \in Id, Clear(i) \/ LoadNext(i)
        PROVE  OneCheckInFlight'
    BY <2>1, <2>7 DEF Clear, LoadNext
  <2>8. CASE Tick \/ Stop \/ Run \/ UNCHANGED vars
    BY <2>1, <2>8 DEF Tick, Stop, Run, vars
  <2>9. CASE Start
    BY <2>9 DEF Start, OneCheckInFlight
  <2> QED BY <2>2, <2>3, <2>4, <2>5, <2>6, <2>7, <2>8, <2>9 DEF Next
<1> QED BY <1>1, <1>2, TypeCorrectness, PTL DEF Spec

-----------------------------------------------------------------------------
(* Durability.                                                             *)

\* With a store that does not fail, insert_open treats a row as it treats the
\* snapshot entry.
LEMMA InsertKeepsRows ==
  ASSUME ~StoreFaults, NEW a \in Alarm, InsertOpen(a), NEW i \in Id,
         store[i] = snapshot[i] \/ i = a.id
  PROVE  store'[i] = snapshot'[i]
<1> DEFINE displaced == {j \in Id : open[a.key] # Null /\ open[a.key].id = j}
<1>1. WriteResults = {TRUE}
  BY DEF WriteResults
<1>2. SaveAndSnapshot(a, displaced, TRUE, TRUE)
  BY <1>1 DEF InsertOpen
<1>3. /\ store' = [j \in Id |-> IF j = a.id THEN a ELSE IF j \in displaced THEN Null ELSE store[j]]
      /\ snapshot' = [j \in Id |-> IF j = a.id THEN a
                                   ELSE IF j \in displaced THEN Null ELSE snapshot[j]]
  BY <1>2 DEF SaveAndSnapshot
<1> HIDE DEF displaced
<1> QED BY <1>3

\* What a restart would reload is what the API serves: a crash between any two
\* handlers neither drops nor resurrects an open alarm.
THEOREM DurabilityHolds == Spec => []StoreMirrorsOpen
<1>1. Init => StoreMirrorsOpen
  BY DEF Init, StoreMirrorsOpen
<1>2. IndInv /\ StoreMirrorsOpen /\ [Next]_vars => StoreMirrorsOpen'
  <2> SUFFICES ASSUME IndInv, StoreMirrorsOpen, [Next]_vars, ~StoreFaults
               PROVE  \A i \in Id : i \notin loading' => store'[i] = snapshot'[i]
    BY DEF StoreMirrorsOpen
  <2> TypeOK /\ Bookkeeping /\ TombstonesAreClosed /\ ReloadIsClean /\ IdsAreUnique
    BY DEF IndInv
  <2> \A i \in Id : i \notin loading => store[i] = snapshot[i]
    BY DEF StoreMirrorsOpen
  <2>1. ASSUME UNCHANGED <<loading, store, snapshot>>
        PROVE  \A i \in Id : i \notin loading' => store'[i] = snapshot'[i]
    BY <2>1
  <2>2. ASSUME NEW a \in Alarm, InsertOpen(a), loading \subseteq loading' \union {a.id}
        PROVE  \A i \in Id : i \notin loading' => store'[i] = snapshot'[i]
    BY <2>2, InsertKeepsRows
  <2>3. ASSUME NEW k \in Key, NEW severity \in Nat, NEW lane \in Lane,
               Raise(k, severity, lane), UNCHANGED loading
        PROVE  \A i \in Id : i \notin loading' => store'[i] = snapshot'[i]
    <3>1. PICK a \in Alarm : InsertOpen(a)
      <4>1. lastId + 1 \in Id /\ 1 \in 1 .. MaxCount
        BY <2>3, EngineAssumption DEF Raise, Id, TypeOK
      <4>2. [id |-> lastId + 1, key |-> k, severity |-> severity, count |-> 1, lane |-> lane] \in Alarm
        BY <4>1 DEF Alarm
      <4> QED BY <2>3, <4>2 DEF Raise
    <3> QED BY <2>2, <2>3, <3>1
  <2>4. ASSUME NEW t \in Template, NEW h \in Host, NEW triggered \in BOOLEAN, Line(t, h, triggered)
        PROVE  \A i \in Id : i \notin loading' => store'[i] = snapshot'[i]
    <3>1. ASSUME Passes(t, h, triggered)
          PROVE  \E k \in Key, severity \in Nat :
                   k = KeyOf(t, h) /\ severity = verdict[survivor[t]].severity
      BY <3>1, KeyAndSeverity
    <3>2. CASE LineBumps(t, h, triggered)
      <4>1. PICK k \in Key, severity \in Nat :
                   k = KeyOf(t, h) /\ severity = verdict[survivor[t]].severity
        BY <3>1, <3>2 DEF LineBumps
      <4>2. open[k] \in Alarm /\ open[k].count < MaxCount
        BY <3>2, <4>1 DEF LineBumps, TypeOK
      <4>3. PICK a \in Alarm : a = Bumped(open[k], severity)
        BY <4>2, BumpedIsAlarm
      <4>4. SaveAndSnapshot(a, {}, TRUE, TRUE) /\ UNCHANGED loading
        BY <3>2, <4>1, <4>3 DEF LineBumps, WriteResults
      <4>5. /\ store' = [i \in Id |-> IF i = a.id THEN a ELSE store[i]]
            /\ snapshot' = [i \in Id |-> IF i = a.id THEN a ELSE snapshot[i]]
        BY <4>4 DEF SaveAndSnapshot
      <4> QED BY <4>4, <4>5
    <3>3. CASE LineRevives(t, h, triggered)
      <4>1. PICK k \in Key, severity \in Nat :
                   k = KeyOf(t, h) /\ severity = verdict[survivor[t]].severity
        BY <3>1, <3>3 DEF LineRevives
      <4>2. tombstones[k].alarm \in Alarm /\ tombstones[k].alarm.count < MaxCount
        BY <3>3, <4>1 DEF LineRevives, LiveTombstone, TypeOK, Tombstone
      <4>3. PICK a \in Alarm : a = Bumped(tombstones[k].alarm, severity)
        BY <4>2, BumpedIsAlarm
      <4>4. InsertOpen(a) /\ UNCHANGED loading
        BY <3>3, <4>1, <4>3 DEF LineRevives
      <4> QED BY <2>2, <4>4
    <3>4. CASE LineRaises(t, h, triggered)
      <4>1. PICK k \in Key, severity \in Nat :
                   k = KeyOf(t, h) /\ severity = verdict[survivor[t]].severity
        BY <3>1, <3>4 DEF LineRaises
      <4>2. Raise(k, severity, "Dashboard") /\ UNCHANGED loading
        BY <3>4, <4>1 DEF LineRaises
      <4> QED BY <2>3, <4>2 DEF Lane
    <3>5. CASE LineUnjudged(t, h) \/ LineCools(t, h, triggered) \/ LineChecks(t, h, triggered)
      BY <2>1, <3>5 DEF LineUnjudged, LineCools, LineChecks, published
    <3> QED BY <2>4, <3>2, <3>3, <3>4, <3>5 DEF Line
  <2>5. ASSUME NEW k \in Key, Apply(k)
        PROVE  \A i \in Id : i \notin loading' => store'[i] = snapshot'[i]
    <3>1. CASE CheckRaises(k)
      <4>1. checks[k] \in Seq(Nat) /\ checks[k] # <<>> /\ UNCHANGED loading
        BY <3>1 DEF CheckRaises, Returns, TypeOK
      <4>2. PICK severity \in Nat : severity = Head(checks[k])
        BY <4>1
      <4>3. PICK lane \in Lane : Raise(k, severity, lane)
        BY <3>1, <4>2 DEF CheckRaises
      <4> QED BY <2>3, <4>1, <4>3
    <3>2. CASE CheckOvertaken(k) \/ CheckSilences(k)
      BY <2>1, <3>2 DEF CheckOvertaken, CheckSilences, Returns, published
    <3> QED BY <2>5, <3>1, <3>2 DEF Apply
  <2>6. ASSUME NEW k \in Key, RaiseFirstSighting(k)
        PROVE  \A i \in Id : i \notin loading' => store'[i] = snapshot'[i]
    <3>1. verdict[k[1]] \in Verdicts
      BY <2>6 DEF RaiseFirstSighting, IndInv, PendingIsGated, TypeOK, Key
    <3>2. PICK severity \in Nat : severity = verdict[k[1]].severity
      BY <3>1, EngineAssumption
    <3>3. UNCHANGED loading /\ (UNCHANGED <<store, snapshot>> \/ Raise(k, severity, "Dashboard"))
      BY <2>6, <3>2 DEF RaiseFirstSighting, published
    <3> QED BY <2>1, <2>3, <3>3 DEF Lane
  <2>7. ASSUME NEW i \in Id, Clear(i)
        PROVE  \A j \in Id : j \notin loading' => store'[j] = snapshot'[j]
    <3>1. /\ store' = [store EXCEPT ![i] = Null]
          /\ snapshot' = [snapshot EXCEPT ![i] = Null]
          /\ UNCHANGED loading
      BY <2>7 DEF Clear, WriteResults
    <3> QED BY <3>1 DEF TypeOK
  <2>8. ASSUME NEW i \in Id, LoadNext(i)
        PROVE  \A j \in Id : j \notin loading' => store'[j] = snapshot'[j]
    <3>1. PICK a \in Alarm : a = store[i] /\ a.id = i /\ InsertOpen(a)
      BY <2>8 DEF LoadNext, ReloadIsClean, IdsAreUnique, TypeOK
    <3>2. loading \subseteq loading' \union {a.id}
      BY <2>8, <3>1 DEF LoadNext
    <3> QED BY <2>2, <3>1, <3>2
  <2>9. ASSUME NEW t \in Template,
               JudgeLands(t) \/ JudgeFails(t) \/ Judged(t) \/ JudgedUnread(t)
        PROVE  \A i \in Id : i \notin loading' => store'[i] = snapshot'[i]
    BY <2>1, <2>9 DEF JudgeLands, JudgeFails, Judged, JudgedUnread, published
  <2>10. ASSUME NEW hi \in Template, NEW lo \in Template, MergeLands(hi, lo)
         PROVE  \A i \in Id : i \notin loading' => store'[i] = snapshot'[i]
    BY <2>1, <2>10 DEF MergeLands, published
  <2>11. CASE Tick \/ Stop \/ Run \/ UNCHANGED vars
    BY <2>1, <2>11 DEF Tick, Stop, Run, vars, published
  <2>12. CASE Start
    BY <2>12 DEF Start, ReadableRows
  <2> QED BY <2>4, <2>5, <2>6, <2>7, <2>8, <2>9, <2>10, <2>11, <2>12 DEF Next
<1> QED BY <1>1, <1>2, InductiveInvariant, PTL DEF Spec

-----------------------------------------------------------------------------
(* Who waits for a verdict, and what is told to them.                      *)

\* A host remembered for a template is owed an answer from the line that made
\* it wait to the notice that visits it, unless the notice met a full channel
\* (on_classified, on_judged, judge_one).
THEOREM ForgettingIsBounded == Spec => OnlyAFullChannelForgets
<1>1. TypeOK /\ [Next]_vars =>
        [mode = "running" /\ ~StoreFaults =>
           \A t \in Template :
             Owed(t) /\ ~Owed(t)' => ~(Cardinality(judged) < JudgedCapacity)]_vars
  <2> SUFFICES ASSUME TypeOK, Next, mode = "running", ~StoreFaults,
                      NEW x \in Template, Owed(x), ~Owed(x)'
               PROVE  ~(Cardinality(judged) < JudgedCapacity)
    OBVIOUS
  <2>1. ASSUME UNCHANGED <<unjudged, verdict, judged>> PROVE FALSE
    BY <2>1 DEF Owed
  <2>2. ASSUME NEW t \in Template, NEW h \in Host, NEW triggered \in BOOLEAN, Line(t, h, triggered)
        PROVE  FALSE
    <3>1. CASE LineUnjudged(t, h)
      <4>1. /\ verdict[survivor[t]] = Null
            /\ unjudged' = [unjudged EXCEPT ![survivor[t]] = @ \union {h}]
            /\ UNCHANGED <<verdict, judged>>
        BY <3>1 DEF LineUnjudged
      <4>2. unjudged'[x] = unjudged[x] \/ x = survivor[t]
        BY <4>1 DEF TypeOK
      <4> QED BY <4>1, <4>2 DEF Owed
    <3>2. CASE ~LineUnjudged(t, h)
      <4>1. UNCHANGED <<unjudged, verdict, judged>>
        BY <2>2, <3>2 DEF Line, LineBumps, LineRevives, LineCools, LineChecks, LineRaises, outside
      <4> QED BY <2>1, <4>1
    <3> QED BY <3>1, <3>2
  <2>3. ASSUME NEW k \in Key, Apply(k) \/ RaiseFirstSighting(k)
        PROVE  FALSE
    BY <2>1, <2>3 DEF Apply, CheckOvertaken, CheckRaises, CheckSilences, Returns,
                      RaiseFirstSighting, outside
  <2>4. ASSUME NEW t \in Template, JudgeLands(t)
        PROVE  ~(Cardinality(judged) < JudgedCapacity)
    <3>1. /\ UNCHANGED unjudged /\ judged \subseteq judged'
          /\ \A y \in Template : y # t => verdict'[y] = verdict[y]
      BY <2>4 DEF JudgeLands, TypeOK
    <3>2. x = t /\ t \notin judged'
      BY <3>1 DEF Owed
    <3>3. judged' # judged \union {t}
      BY <3>2
    <3> QED BY <2>4, <3>3 DEF JudgeLands
  <2>5. ASSUME NEW t \in Template, Judged(t)
        PROVE  FALSE
    <3>1. /\ UNCHANGED verdict /\ judged' = judged \ {t}
          /\ unjudged'[t] = {} /\ (x # t => unjudged'[x] = unjudged[x])
      BY <2>5 DEF Judged, outside, TypeOK
    <3> QED BY <3>1 DEF Owed
  <2>6. ASSUME NEW t \in Template, JudgeFails(t) \/ JudgedUnread(t)
        PROVE  FALSE
    BY <2>1, <2>6 DEF JudgeFails, JudgedUnread
  <2>7. ASSUME NEW hi \in Template, NEW lo \in Template, MergeLands(hi, lo)
        PROVE  FALSE
    BY <2>1, <2>7 DEF MergeLands
  <2>8. ASSUME NEW i \in Id, Clear(i) \/ LoadNext(i)
        PROVE  FALSE
    BY <2>1, <2>8 DEF Clear, LoadNext, outside
  <2>9. CASE Tick \/ Stop \/ Run
    BY <2>1, <2>9 DEF Tick, Stop, Run, outside
  <2>10. CASE Start
    BY <2>10 DEF Start
  <2> QED BY <2>2, <2>3, <2>4, <2>5, <2>6, <2>7, <2>8, <2>9, <2>10 DEF Next
<1> QED BY <1>1, TypeCorrectness, PTL DEF Spec, OnlyAFullChannelForgets

-----------------------------------------------------------------------------
(* The reload.                                                             *)

\* The reload goes up: every alarm it has opened is older than every row it
\* has still to insert.
ReloadInOrder ==
  mode = "loading" => \A i, j \in Id : i \in loading /\ byId[j] # Null => j < i

\* What a step of the reload does to the open alarms: its oldest row takes the
\* place of the alarm of its key, if there is one, and no other key changes.
LEMMA LoadOpensOldest ==
  ASSUME IndInv, NEW i \in Id, LoadNext(i)
  PROVE  /\ store[i] \in Alarm /\ store[i].id = i
         /\ open' = [open EXCEPT ![store[i].key] = store[i]]
         /\ loading' = loading \ {i}
         /\ \A j \in loading : i <= j
         /\ \A j \in Id : byId'[j] # Null => byId[j] # Null \/ j = i
<1> TypeOK /\ Core
  BY IndInvParts DEF IndInv
<1>1. PICK a \in Alarm : a = store[i] /\ a.id = i /\ byId[a.id] = Null
  BY DEF LoadNext, Core, ReloadIsClean, IdsAreUnique, TypeOK
<1>2. InsertOpen(a) /\ loading' = loading \ {i} /\ \A j \in loading : i <= j
  BY <1>1 DEF LoadNext
<1>3. \A j \in Id : byId'[j] # Null => byId[j] # Null \/ j = i
  BY <1>1, <1>2, InsertKeepsBookkeeping DEF Core
<1> QED BY <1>1, <1>2, <1>3 DEF InsertOpen

\* Only a start, a stop and the end of a reload change the mode.
LEMMA ModeSteps == [Next]_vars => mode' = mode \/ Start \/ Stop \/ Run
<1>1. ASSUME NEW t \in Template, NEW h \in Host, NEW triggered \in BOOLEAN, Line(t, h, triggered)
      PROVE  mode' = mode
  BY <1>1 DEF Line, LineUnjudged, LineBumps, LineRevives, LineCools, LineChecks, LineRaises
<1>2. ASSUME NEW k \in Key, Apply(k) \/ RaiseFirstSighting(k)
      PROVE  mode' = mode
  BY <1>2 DEF Apply, CheckOvertaken, CheckRaises, CheckSilences, Returns, RaiseFirstSighting
<1>3. ASSUME NEW t \in Template,
             JudgeLands(t) \/ JudgeFails(t) \/ Judged(t) \/ JudgedUnread(t)
      PROVE  mode' = mode
  BY <1>3 DEF JudgeLands, JudgeFails, Judged, JudgedUnread
<1>4. ASSUME NEW hi \in Template, NEW lo \in Template, MergeLands(hi, lo)
      PROVE  mode' = mode
  BY <1>4 DEF MergeLands
<1>5. ASSUME NEW i \in Id, Clear(i) \/ LoadNext(i)
      PROVE  mode' = mode
  BY <1>5 DEF Clear, LoadNext
<1>6. CASE Tick \/ UNCHANGED vars
  BY <1>6 DEF Tick, vars
<1> QED BY <1>1, <1>2, <1>3, <1>4, <1>5, <1>6 DEF Next

\* A start finds every table empty; the loop takes the oldest row each time.
LEMMA ReloadStaysInOrder == IndInv /\ ReloadInOrder /\ [Next]_vars => ReloadInOrder'
<1> SUFFICES ASSUME IndInv, ReloadInOrder, [Next]_vars, mode' = "loading",
                    NEW i \in Id, NEW j \in Id, i \in loading', byId'[j] # Null
             PROVE  j < i
  BY DEF ReloadInOrder
<1>1. CASE mode = "loading"
  <2>1. ASSUME NEW l \in Id, LoadNext(l)
        PROVE  j < i
    <3>1. i \in loading /\ i # l /\ l <= i /\ (byId[j] # Null \/ j = l)
      BY <2>1, LoadOpensOldest
    <3> QED BY <1>1, <3>1 DEF ReloadInOrder, Id
  <2>2. CASE UNCHANGED <<loading, tables, published>>
    BY <1>1, <2>2 DEF ReloadInOrder, tables
  <2>3. ~Start
    BY <1>1 DEF Start
  <2> QED BY <1>1, <2>1, <2>2, <2>3, QuietSteps
<1>2. CASE mode # "loading"
  <2>1. Start
    BY <1>2, ModeSteps DEF Stop, Run
  <2> QED BY <2>1 DEF Start
<1> QED BY <1>1, <1>2

\* Of several rows of one key the reload keeps the newest: a row it reads opens
\* an alarm of its key, and never takes the place of a younger one.
THEOREM ReloadHolds == Spec => ReloadKeepsNewest
<1>1. Init => ReloadInOrder
  BY DEF Init, ReloadInOrder
<1>2. IndInv /\ ReloadInOrder /\ [Next]_vars =>
        [mode = "loading" =>
           /\ \A i \in loading \ loading' : open'[store[i].key] # Null
           /\ \A k \in Key : open[k] # Null =>
                open'[k] # Null /\ open'[k].id >= open[k].id]_vars
  <2> SUFFICES ASSUME IndInv, ReloadInOrder, [Next]_vars, mode = "loading"
               PROVE  /\ \A i \in loading \ loading' : open'[store[i].key] # Null
                      /\ \A k \in Key : open[k] # Null =>
                           open'[k] # Null /\ open'[k].id >= open[k].id
    OBVIOUS
  <2> TypeOK /\ Bookkeeping
    BY DEF IndInv
  <2>1. ASSUME NEW k \in Key, open[k] # Null
        PROVE  open[k].id \in Id /\ byId[open[k].id] # Null
    BY <2>1, NullAssumption DEF TypeOK, Alarm, Bookkeeping, OpenIsIndexed
  <2>2. ASSUME NEW i \in Id, LoadNext(i)
        PROVE  /\ \A j \in loading \ loading' : open'[store[j].key] # Null
               /\ \A k \in Key : open[k] # Null =>
                    open'[k] # Null /\ open'[k].id >= open[k].id
    <3>1. PICK a \in Alarm : a = store[i] /\ a.id = i
      BY <2>2, LoadOpensOldest
    <3>2. open' = [open EXCEPT ![a.key] = a] /\ loading' = loading \ {i} /\ i \in loading
      BY <2>2, <3>1, LoadOpensOldest DEF LoadNext
    <3>3. a # Null /\ a.key \in Key
      BY <3>1, NullAssumption DEF Alarm
    <3>4. open'[a.key] = a /\ \A k \in Key \ {a.key} : open'[k] = open[k]
      BY <3>2, <3>3 DEF TypeOK
    <3>5. ASSUME NEW k \in Key, open[k] # Null
          PROVE  open'[k] # Null /\ open'[k].id >= open[k].id
      BY <2>1, <3>1, <3>2, <3>3, <3>4, <3>5 DEF ReloadInOrder, Id
    <3> QED BY <3>1, <3>2, <3>3, <3>4, <3>5
  <2>3. CASE UNCHANGED <<loading, tables, published>>
    BY <2>1, <2>3 DEF Id, tables
  <2>4. ~Start
    BY DEF Start
  <2> QED BY <2>2, <2>3, <2>4, QuietSteps
<1> QED BY <1>1, <1>2, ReloadStaysInOrder, InductiveInvariant, PTL DEF Spec, ReloadKeepsNewest

-----------------------------------------------------------------------------
(* The store of a running engine: the rows are the open alarms.            *)

\* A running engine whose store does not fail has a row for each open alarm,
\* the alarm itself, and no other row.
LEMMA RowsAreOpen ==
  ASSUME ~StoreFaults, IndInv, StoreMirrorsOpen, mode = "running"
  PROVE  /\ \A i \in Id : store[i] # Null =>
              /\ byId[i] \in Key
              /\ open[byId[i]] = store[i]
              /\ store[i].key = byId[i]
         /\ \A k \in Key : open[k] # Null =>
              open[k].id \in Id /\ open[k].key = k /\ store[open[k].id] = open[k]
<1> TypeOK /\ Bookkeeping /\ loading = {}
  BY DEF IndInv, ReloadIsClean
<1>1. \A i \in Id : store[i] = IF byId[i] = Null THEN Null ELSE open[byId[i]]
  BY DEF StoreMirrorsOpen, Bookkeeping, SnapshotIsOpen
<1>2. \A k \in Key : open[k] # Null => /\ open[k].id \in Id
                                       /\ open[k].key = k
                                       /\ byId[open[k].id] = k
  BY DEF TypeOK, Alarm, Bookkeeping, OpenIsIndexed
<1>3. ASSUME NEW i \in Id, store[i] # Null
      PROVE  byId[i] \in Key /\ open[byId[i]] = store[i] /\ store[i].key = byId[i]
  BY <1>1, <1>2, <1>3 DEF TypeOK
<1>4. \A k \in Key : k # Null
  BY NullAssumption
<1> QED BY <1>1, <1>2, <1>3, <1>4

\* So a key that is not open has no row.
LEMMA ClosedKeyHasNoRow ==
  ASSUME ~StoreFaults, IndInv, StoreMirrorsOpen, mode = "running", NEW k \in Key, open[k] = Null
  PROVE  Lifecycle!OpenIds(k) = {}
  BY RowsAreOpen DEF Lifecycle!OpenIds

Running == mode = "running"

LEMMA RunningHasOneRowPerKey ==
  ~StoreFaults /\ IndInv /\ StoreMirrorsOpen /\ Running => Lifecycle!OneOpenPerKey
<1> SUFFICES ASSUME ~StoreFaults, IndInv, StoreMirrorsOpen, mode = "running",
                    NEW i \in Id, NEW j \in Id, store[i] # Null, store[j] # Null,
                    store[i].key = store[j].key
             PROVE  i = j
  BY DEF Running, Lifecycle!OneOpenPerKey
<1>1. byId[i] = byId[j] /\ store[i] = store[j]
  BY RowsAreOpen
<1>2. store[i].id = i /\ store[j].id = j
  BY DEF IndInv, IdsAreUnique
<1> QED BY <1>1, <1>2

\* insert_open on a key that is not open writes one row.
LEMMA InsertWritesRow ==
  ASSUME ~StoreFaults, TypeOK, NEW a \in Alarm, open[a.key] = Null, InsertOpen(a)
  PROVE  store' = [store EXCEPT ![a.id] = a]
<1>1. SaveAndSnapshot(a, {}, TRUE, TRUE)
  <2>1. {i \in Id : open[a.key] # Null /\ open[a.key].id = i} = {}
    OBVIOUS
  <2>2. WriteResults = {TRUE}
    BY DEF WriteResults
  <2> QED BY <2>1, <2>2 DEF InsertOpen
<1>2. store' = [i \in Id |-> IF i = a.id THEN a ELSE store[i]]
  BY <1>1 DEF SaveAndSnapshot
<1> QED BY <1>2 DEF TypeOK

-----------------------------------------------------------------------------
(* Step by step.                                                           *)

\* What the lifecycle knows is left alone.
LEMMA Unseen ==
  ASSUME UNCHANGED <<store, lastId>>,
         \A x \in Key : (tombstones'[x] = Null <=> tombstones[x] = Null)
                       /\ (tombstones[x] # Null => tombstones'[x].alarm = tombstones[x].alarm)
  PROVE  UNCHANGED Lifecycle!lifecycleVars
  BY DEF Lifecycle!lifecycleVars

\* Dropping tombstones forgets what rested.
LEMMA DropsForget ==
  ASSUME NEW x \in Key, tombstones'[x] \in {tombstones[x], Null}
  PROVE  Lifecycle!SomeForgotten(x)
  BY DEF Lifecycle!SomeForgotten

LEMMA StepForgets ==
  ASSUME UNCHANGED <<store, lastId>>, \A x \in Key : tombstones'[x] \in {tombstones[x], Null}
  PROVE  Lifecycle!LifecycleNext
<1>1. Lifecycle!Forget
  BY DropsForget DEF Lifecycle!Forget
<1> QED BY <1>1 DEF Lifecycle!LifecycleNext

\* raise opens an alarm under a new id.
LEMMA RaiseOpens ==
  ASSUME ~StoreFaults, IndInv, StoreMirrorsOpen, mode = "running",
         NEW k \in Key, NEW severity \in Nat, NEW lane \in Lane,
         Raise(k, severity, lane), open[k] = Null,
         \A x \in Key : tombstones'[x] \in {tombstones[x], Null}
  PROVE  Lifecycle!LifecycleNext
<1> TypeOK
  BY DEF IndInv
<1>1. PICK a \in Alarm : a = [id |-> lastId + 1, key |-> k, severity |-> severity,
                             count |-> 1, lane |-> lane]
  <2>1. lastId + 1 \in Id /\ 1 \in 1 .. MaxCount
    BY EngineAssumption DEF Raise, Id, TypeOK
  <2>2. [id |-> lastId + 1, key |-> k, severity |-> severity, count |-> 1, lane |-> lane] \in Alarm
    BY <2>1 DEF Alarm
  <2> QED BY <2>2
<1>2. InsertOpen(a) /\ lastId' = lastId + 1
  BY <1>1 DEF Raise
<1>3. a.key = k /\ a.id = lastId' /\ a.id \in Id /\ a # Null
  BY <1>1, <1>2, NullAssumption DEF Alarm
<1>4. store' = [store EXCEPT ![a.id] = a]
  BY <1>2, <1>3, InsertWritesRow
<1>5. lastId' > lastId
  BY <1>2 DEF TypeOK
<1>6. Lifecycle!Open(lastId', k, lane)
  <2>1. Lifecycle!OpenIds(k) = {}
    BY ClosedKeyHasNoRow
  <2>2. /\ store'[lastId'] # Null
        /\ store'[lastId'] = [id |-> lastId', key |-> k, severity |-> store'[lastId'].severity,
                              count |-> 1, lane |-> lane]
        /\ \A j \in Id \ {lastId'} : store'[j] = store[j]
    BY <1>1, <1>2, <1>3, <1>4 DEF TypeOK
  <2> QED BY <1>5, <2>1, <2>2, DropsForget
          DEF Lifecycle!Open, Lifecycle!Replaced, Lifecycle!Fresh
<1> QED BY <1>3, <1>6 DEF Lifecycle!LifecycleNext

\* A line that finds its alarm open grows it.
LEMMA BumpGrows ==
  ASSUME ~StoreFaults, IndInv, StoreMirrorsOpen,
         NEW t \in Template, NEW h \in Host, NEW triggered \in BOOLEAN,
         LineBumps(t, h, triggered)
  PROVE  Lifecycle!LifecycleNext
<1> TypeOK
  BY DEF IndInv
<1>1. PICK k \in Key, severity \in Nat :
             k = KeyOf(t, h) /\ severity = verdict[survivor[t]].severity /\ mode = "running"
  BY KeyAndSeverity DEF LineBumps
<1>2. open[k] \in Alarm /\ open[k] # Null /\ open[k].count < MaxCount
  BY <1>1 DEF LineBumps, TypeOK
<1>3. PICK a \in Alarm : /\ a = Bumped(open[k], severity)
                        /\ a.id = open[k].id
                        /\ a.severity >= open[k].severity
  BY <1>2, BumpedIsAlarm
<1>4. SaveAndSnapshot(a, {}, TRUE, TRUE) /\ UNCHANGED <<tombstones, lastId>>
  BY <1>1, <1>3 DEF LineBumps, WriteResults
<1>5. store' = [i \in Id |-> IF i = a.id THEN a ELSE store[i]]
  BY <1>4 DEF SaveAndSnapshot
<1>6. a.id \in Id /\ store[a.id] = open[k]
  BY <1>1, <1>2, <1>3, RowsAreOpen
<1>7. a = [open[k] EXCEPT !.count = @ + 1, !.severity = a.severity]
  BY <1>2, <1>3 DEF Bumped, Alarm
<1>8. Lifecycle!Grow(a.id)
  BY <1>2, <1>3, <1>4, <1>5, <1>6, <1>7, NullAssumption
     DEF Lifecycle!Grow, Lifecycle!Replaced, Lifecycle!Grown
<1> QED BY <1>6, <1>8 DEF Lifecycle!LifecycleNext

\* A line inside the cooldown re-opens the alarm that rests.
LEMMA ReviveReopens ==
  ASSUME ~StoreFaults, IndInv, StoreMirrorsOpen,
         NEW t \in Template, NEW h \in Host, NEW triggered \in BOOLEAN,
         LineRevives(t, h, triggered)
  PROVE  Lifecycle!LifecycleNext
<1> TypeOK
  BY DEF IndInv
<1>1. PICK k \in Key, severity \in Nat :
             k = KeyOf(t, h) /\ severity = verdict[survivor[t]].severity /\ mode = "running"
  BY KeyAndSeverity DEF LineRevives
<1> DEFINE rests == tombstones[k].alarm
<1>2. /\ tombstones[k] # Null
      /\ rests \in Alarm
      /\ rests.count < MaxCount
      /\ rests.key = k
  BY <1>1 DEF LineRevives, LiveTombstone, TypeOK, Tombstone, IndInv, TombstonesAreClosed
<1>3. PICK a \in Alarm : /\ a = Bumped(rests, severity)
                        /\ a.id = rests.id
                        /\ a.key = k
                        /\ a.severity >= rests.severity
  BY <1>2, BumpedIsAlarm
<1>4. /\ InsertOpen(a)
      /\ open[a.key] = Null
      /\ tombstones' = [tombstones EXCEPT ![k] = Null]
      /\ UNCHANGED lastId
  BY <1>1, <1>3 DEF LineRevives
<1>5. store' = [store EXCEPT ![a.id] = a] /\ a.id \in Id /\ a # Null
  BY <1>4, InsertWritesRow, NullAssumption DEF Alarm
<1>6. Lifecycle!OpenIds(k) = {}
  BY <1>1, <1>3, <1>4, ClosedKeyHasNoRow
<1>7. a = [rests EXCEPT !.count = @ + 1, !.severity = a.severity]
  BY <1>2, <1>3 DEF Bumped, Alarm
<1>8. store'[a.id] = a /\ \A j \in Id \ {a.id} : store'[j] = store[j]
  BY <1>5 DEF TypeOK
<1>9. rests # Null
  BY <1>2, NullAssumption
<1>10. tombstones'[k] = Null /\ \A x \in Key \ {k} : tombstones'[x] = tombstones[x]
  BY <1>4 DEF TypeOK
<1> HIDE DEF rests
<1>11. Lifecycle!Reopen(k)
  <2> DEFINE resting == [x \in Key |-> IF tombstones[x] = Null THEN Null ELSE tombstones[x].alarm]
  <2>1. resting[k] = rests
    BY <1>2 DEF rests
  <2>2. resting' = [resting EXCEPT ![k] = Null]
    BY <1>10
  <2> HIDE DEF resting
  <2>3. a = [resting[k] EXCEPT !.count = @ + 1, !.severity = a.severity]
    BY <1>7, <2>1
  <2>4. /\ resting[k] # Null
        /\ store'[resting[k].id] = a
        /\ a # Null
        /\ a.severity >= resting[k].severity
        /\ \A j \in Id \ {resting[k].id} : store'[j] = store[j]
    BY <1>3, <1>5, <1>8, <1>9, <2>1
  <2> QED BY <1>4, <1>6, <2>2, <2>3, <2>4
          DEF Lifecycle!Reopen, Lifecycle!Replaced, Lifecycle!Grown, resting
<1> QED BY <1>11 DEF Lifecycle!LifecycleNext

LEMMA LineImplements ==
  ASSUME ~StoreFaults, IndInv, StoreMirrorsOpen,
         NEW t \in Template, NEW h \in Host, NEW triggered \in BOOLEAN,
         Line(t, h, triggered)
  PROVE  Lifecycle!LifecycleNext
<1> TypeOK
  BY DEF IndInv
<1>1. CASE LineUnjudged(t, h)
  BY <1>1, StepForgets DEF LineUnjudged, published
<1>2. CASE LineBumps(t, h, triggered)
  BY <1>2, BumpGrows
<1>3. CASE LineRevives(t, h, triggered)
  BY <1>3, ReviveReopens
<1>4. ASSUME Unopened(KeyOf(t, h), verdict[survivor[t]], triggered)
      PROVE  /\ open[KeyOf(t, h)] = Null
             /\ \A x \in Key : tombstones'[x] \in {tombstones[x], Null}
  BY <1>4 DEF Unopened, TypeOK
<1>5. CASE LineCools(t, h, triggered) \/ LineChecks(t, h, triggered)
  BY <1>4, <1>5, StepForgets DEF LineCools, LineChecks, published
<1>6. CASE LineRaises(t, h, triggered)
  <2>1. PICK k \in Key, severity \in Nat :
               k = KeyOf(t, h) /\ severity = verdict[survivor[t]].severity /\ mode = "running"
    BY <1>6, KeyAndSeverity DEF LineRaises
  <2>2. Raise(k, severity, "Dashboard")
    BY <1>6, <2>1 DEF LineRaises
  <2>3. open[k] = Null /\ \A x \in Key : tombstones'[x] \in {tombstones[x], Null}
    BY <1>4, <1>6, <2>1 DEF LineRaises
  <2> QED BY <2>1, <2>2, <2>3, RaiseOpens DEF Lane
<1> QED BY <1>1, <1>2, <1>3, <1>5, <1>6 DEF Line

\* A returning check and a host of the on_judged loop raise, or leave the
\* alarms alone.
LEMMA ApplyImplements ==
  ASSUME ~StoreFaults, IndInv, StoreMirrorsOpen, NEW k \in Key, Apply(k)
  PROVE  Lifecycle!LifecycleNext
<1>1. Returns(k) /\ mode = "running" /\ UNCHANGED tombstones
  BY DEF Apply, CheckOvertaken, CheckRaises, CheckSilences, Returns, Idle
<1>2. CASE CheckRaises(k)
  <2>1. checks[k] \in Seq(Nat) /\ checks[k] # <<>>
    BY <1>1 DEF Returns, IndInv, TypeOK
  <2>2. PICK severity \in Nat : severity = Head(checks[k])
    BY <2>1
  <2>3. PICK lane \in Lane : Raise(k, severity, lane)
    BY <1>2, <2>2 DEF CheckRaises
  <2> QED BY <1>1, <1>2, <2>3, RaiseOpens DEF CheckRaises
<1>3. CASE CheckOvertaken(k) \/ CheckSilences(k)
  BY <1>1, <1>3, StepForgets DEF CheckOvertaken, CheckSilences, published
<1> QED BY <1>2, <1>3 DEF Apply

LEMMA FirstSightingImplements ==
  ASSUME ~StoreFaults, IndInv, StoreMirrorsOpen, NEW k \in Key, RaiseFirstSighting(k)
  PROVE  Lifecycle!LifecycleNext
<1>1. mode = "running" /\ UNCHANGED tombstones
  BY DEF RaiseFirstSighting
<1>2. verdict[k[1]] \in Verdicts
  BY DEF RaiseFirstSighting, IndInv, PendingIsGated, TypeOK, Key
<1>3. PICK severity \in Nat : severity = verdict[k[1]].severity
  BY <1>2, EngineAssumption
<1>4. CASE open[k] = Null
  <2>1. Raise(k, severity, "Dashboard")
    BY <1>3, <1>4 DEF RaiseFirstSighting
  <2> QED BY <1>1, <1>4, <2>1, RaiseOpens DEF Lane
<1>5. CASE open[k] # Null
  BY <1>1, <1>5, StepForgets DEF RaiseFirstSighting, published
<1> QED BY <1>4, <1>5

\* A clear closes the alarm, which then rests.
LEMMA ClearCloses ==
  ASSUME ~StoreFaults, IndInv, StoreMirrorsOpen, NEW i \in Id, Clear(i)
  PROVE  Lifecycle!LifecycleNext
<1> TypeOK /\ Bookkeeping
  BY DEF IndInv
<1>1. PICK k \in Key : byId[i] = k /\ open[k] # Null /\ open[k].id = i /\ open[k].key = k
  BY DEF Clear, TypeOK, Bookkeeping, IndexIsOpen, OpenIsIndexed
<1>2. /\ store' = [store EXCEPT ![i] = Null]
      /\ tombstones' = [x \in Key |->
                          IF x = k THEN [alarm |-> open[k], age |-> 0]
                          ELSE IF LiveTombstone(x) THEN tombstones[x] ELSE Null]
      /\ UNCHANGED lastId
      /\ mode = "running"
  BY <1>1 DEF Clear, Idle, WriteResults
<1>3. store[i] = open[k]
  BY <1>1, <1>2, RowsAreOpen
<1>4. [alarm |-> open[k], age |-> 0] \in Tombstone
  BY <1>1, EngineAssumption DEF TypeOK, Tombstone
<1>5. tombstones'[k] # Null /\ tombstones'[k].alarm = open[k]
  BY <1>2, <1>4, NullAssumption
<1>6. \A x \in Key \ {k} : Lifecycle!SomeForgotten(x)
  BY <1>2, DropsForget
<1>7. Lifecycle!Close(i)
  BY <1>1, <1>2, <1>3, <1>5, <1>6 DEF Lifecycle!Close
<1> QED BY <1>7 DEF Lifecycle!LifecycleNext

\* The reload writes each row back as it was: rows of distinct keys displace
\* nothing.
LEMMA LoadLeavesRows ==
  ASSUME ~StoreFaults, IndInv, StoreMirrorsOpen, Lifecycle!OneOpenPerKey,
         NEW i \in Id, LoadNext(i)
  PROVE  UNCHANGED <<store, lastId, tombstones>>
<1> TypeOK /\ Bookkeeping /\ ReloadIsClean
  BY DEF IndInv
<1>1. PICK a \in Alarm : a = store[i] /\ a.id = i /\ InsertOpen(a) /\ byId[i] = Null
  BY LoadOpensOldest DEF LoadNext, ReloadIsClean
<1>2. open[a.key] = Null
  <2> SUFFICES ASSUME open[a.key] # Null PROVE FALSE
    OBVIOUS
  <2>1. PICK b \in Alarm : b = open[a.key] /\ b.key = a.key /\ byId[b.id] = a.key
    BY <1>1 DEF TypeOK, Alarm, Bookkeeping, OpenIsIndexed
  <2>2. a.key # Null /\ b.id \in Id /\ b.id # i
    BY <1>1, <2>1, NullAssumption DEF Alarm
  <2>3. b.id \notin loading
    BY <2>1, <2>2 DEF ReloadIsClean
  <2>4. store[b.id] = b
    BY <2>1, <2>2, <2>3 DEF StoreMirrorsOpen, Bookkeeping, SnapshotIsOpen
  <2>5. a # Null /\ b # Null
    BY NullAssumption
  <2> QED BY <1>1, <2>1, <2>2, <2>4, <2>5 DEF Lifecycle!OneOpenPerKey
<1>3. store' = [store EXCEPT ![i] = store[i]]
  BY <1>1, <1>2, InsertWritesRow
<1>4. store' = store
  BY <1>3 DEF TypeOK
<1> QED BY <1>4 DEF LoadNext

\* Every step of the engine is a step of the lifecycle, or one it does not see.
LEMMA StepImplementsLifecycle ==
  ASSUME ~StoreFaults, IndInv, StoreMirrorsOpen, Lifecycle!OneOpenPerKey, [Next]_vars
  PROVE  [Lifecycle!LifecycleNext]_(Lifecycle!lifecycleVars)
<1> TypeOK
  BY DEF IndInv
<1>1. ASSUME NEW t \in Template, NEW h \in Host, NEW triggered \in BOOLEAN, Line(t, h, triggered)
      PROVE  Lifecycle!LifecycleNext
  BY <1>1, LineImplements
<1>2. ASSUME NEW k \in Key, Apply(k) \/ RaiseFirstSighting(k)
      PROVE  Lifecycle!LifecycleNext
  BY <1>2, ApplyImplements, FirstSightingImplements
<1>3. ASSUME NEW t \in Template,
             JudgeLands(t) \/ JudgeFails(t) \/ Judged(t) \/ JudgedUnread(t)
      PROVE  Lifecycle!LifecycleNext
  BY <1>3, StepForgets DEF JudgeLands, JudgeFails, Judged, JudgedUnread, published
<1>4. ASSUME NEW hi \in Template, NEW lo \in Template, MergeLands(hi, lo)
      PROVE  Lifecycle!LifecycleNext
  BY <1>4, StepForgets DEF MergeLands, published
<1>5. ASSUME NEW i \in Id, Clear(i)
      PROVE  Lifecycle!LifecycleNext
  BY <1>5, ClearCloses
<1>6. ASSUME NEW i \in Id, LoadNext(i)
      PROVE  Lifecycle!LifecycleNext
  BY <1>6, LoadLeavesRows, StepForgets
<1>7. CASE Tick
  <2>1. UNCHANGED <<store, lastId>>
    BY <1>7 DEF Tick, published
  <2>2. \A x \in Key : (tombstones'[x] = Null <=> tombstones[x] = Null)
                      /\ (tombstones[x] # Null => tombstones'[x].alarm = tombstones[x].alarm)
    <3> SUFFICES ASSUME NEW x \in Key
                 PROVE  /\ tombstones'[x] = Null <=> tombstones[x] = Null
                        /\ tombstones[x] # Null => tombstones'[x].alarm = tombstones[x].alarm
      OBVIOUS
    <3>1. tombstones'[x] = IF x \in Aging THEN [tombstones[x] EXCEPT !.age = @ + 1]
                           ELSE tombstones[x]
      BY <1>7 DEF Tick
    <3>2. CASE x \in Aging
      <4>1. tombstones[x] \in Tombstone /\ tombstones[x] # Null /\ tombstones[x].age <= Cooldown
        BY <3>2 DEF Aging, LiveTombstone, TypeOK
      <4>2. tombstones[x].age + 1 \in 0 .. Cooldown + 1
        BY <4>1, EngineAssumption DEF Tombstone
      <4>3. tombstones'[x] \in Tombstone /\ tombstones'[x].alarm = tombstones[x].alarm
        BY <3>1, <3>2, <4>1, <4>2 DEF Tombstone
      <4> QED BY <4>1, <4>3, NullAssumption
    <3> QED BY <3>1, <3>2
  <2> QED BY <2>1, <2>2, Unseen
<1>8. CASE Stop \/ Run
  BY <1>8, StepForgets DEF Stop, Run, published
<1>9. CASE Start
  BY <1>9, StepForgets DEF Start
<1>10. CASE UNCHANGED vars
  BY <1>10, StepForgets DEF vars, published
<1> QED BY <1>1, <1>2, <1>3, <1>4, <1>5, <1>6, <1>7, <1>8, <1>9, <1>10 DEF Next

\* While the engine does not run, no row is written or removed.
LEMMA RowsStayApart ==
  ~StoreFaults /\ IndInv /\ StoreMirrorsOpen /\ Lifecycle!OneOpenPerKey /\ [Next]_vars
    => Running' \/ Lifecycle!OneOpenPerKey'
<1> SUFFICES ASSUME ~StoreFaults, IndInv, StoreMirrorsOpen, Lifecycle!OneOpenPerKey,
                    [Next]_vars, mode' # "running"
             PROVE  store' = store
  BY DEF Running, Lifecycle!OneOpenPerKey
<1>1. CASE mode = "running"
  BY <1>1, ModeSteps DEF Start, Stop, Run, published
<1>2. CASE mode # "running"
  <2>1. CASE UNCHANGED <<loading, tables, published>> \/ Start
    BY <2>1 DEF published, Start
  <2>2. ASSUME NEW i \in Id, LoadNext(i)
        PROVE  store' = store
    BY <2>2, LoadLeavesRows
  <2> QED BY <1>2, <2>1, <2>2, QuietSteps
<1> QED BY <1>1, <1>2

\* With a store that does not fail the engine implements AlarmLifecycle: ids
\* open once or revive, an open alarm only grows, and neither a crash nor a
\* reload takes one away.
THEOREM LifecycleImplemented ==
  ASSUME ~StoreFaults
  PROVE  Spec => ImplementsLifecycle
<1>1. Init => Lifecycle!LifecycleInit /\ Lifecycle!OneOpenPerKey
  BY DEF Init, Lifecycle!LifecycleInit, Lifecycle!OneOpenPerKey
<1>2. IndInv /\ StoreMirrorsOpen /\ Running => Lifecycle!OneOpenPerKey
  BY RunningHasOneRowPerKey
<1>3. IndInv /\ StoreMirrorsOpen /\ Lifecycle!OneOpenPerKey /\ [Next]_vars
        => Running' \/ Lifecycle!OneOpenPerKey'
  BY RowsStayApart
<1>4. IndInv /\ StoreMirrorsOpen /\ Lifecycle!OneOpenPerKey /\ [Next]_vars
        => [Lifecycle!LifecycleNext]_(Lifecycle!lifecycleVars)
  BY StepImplementsLifecycle
<1> QED BY <1>1, <1>2, <1>3, <1>4, InductiveInvariant, DurabilityHolds, PTL
        DEF Spec, ImplementsLifecycle, Lifecycle!LifecycleSpec

-----------------------------------------------------------------------------
(* The engine alone, with any answer from the windows.                     *)

LEMMA TriggeredIsBoolean == \A s : W!Triggered(s) \in BOOLEAN
  BY DEF W!Triggered

\* A line, as the engine takes it.
LEMMA LineTaken ==
  ASSUME NEW t \in Template, NEW h \in Host, LineArrives(t, h)
  PROVE  \E triggered \in BOOLEAN :
           /\ triggered = W!Triggered(stats')
           /\ Line(t, h, triggered) \/ LineIgnored(t, h, triggered)
  BY TriggeredIsBoolean DEF LineArrives

LEMMA WindowedSteps == [WindowedNext]_allVars => [Next]_vars
<1> SUFFICES ASSUME [WindowedNext]_allVars PROVE [Next]_vars
  OBVIOUS
<1>1. ASSUME NEW t \in Template, NEW h \in Host, LineArrives(t, h) PROVE [Next]_vars
  <2>1. PICK triggered \in BOOLEAN : Line(t, h, triggered) \/ LineIgnored(t, h, triggered)
    BY <1>1, LineTaken
  <2> QED BY <2>1 DEF Next, LineIgnored
<1>2. CASE TimePasses
  BY <1>2 DEF TimePasses, Next
<1>3. CASE Restarts
  BY <1>3 DEF Restarts, Next
<1>4. CASE EngineActs
  BY <1>4 DEF EngineActs, Next
<1>5. CASE UNCHANGED allVars
  BY <1>5 DEF allVars
<1> QED BY <1>1, <1>2, <1>3, <1>4, <1>5 DEF WindowedNext

\* The engine on its windows implements the engine whose lines may trigger or
\* not as they please: the windows add no behaviour to it.
THEOREM WindowsRestrict == WindowedSpec => Spec
<1>1. WindowedInit => Init
  BY DEF WindowedInit
<1> QED BY <1>1, WindowedSteps, PTL DEF WindowedSpec, Spec

-----------------------------------------------------------------------------
(* What a line's window answers.                                           *)

\* The windows and the lines they took keep their types, and a template that
\* is not tracked has no lines.
HistoryOK ==
  /\ now \in Nat
  /\ windows \in [Template -> W!Window \union {Null}]
  /\ history \in [Template -> Seq(Nat \X Host)]
  /\ \A t \in Template : windows[t] = Null => history[t] = <<>>

LEMMA RingsKeepType ==
  ASSUME NEW b \in Nat \ {0}, NEW bucket \in Nat, NEW ring \in W!RingType(b)
  PROVE  W!AddTo(ring, bucket) \in W!RingType(b)
<1>1. ring \in [0 .. b - 1 -> [epoch : Int, count : Nat]]
  BY DEF W!RingType
<1>2. PICK slot : slot = bucket % W!Cardinality(DOMAIN ring)
  OBVIOUS
<1>3. PICK count : count = IF ring[slot].epoch = bucket THEN ring[slot].count + 1 ELSE 1
  OBVIOUS
<1>4. slot \in DOMAIN ring => count \in Nat
  BY <1>1, <1>3
<1>5. W!AddTo(ring, bucket) = [ring EXCEPT ![slot] = [epoch |-> bucket, count |-> count]]
  BY <1>2, <1>3 DEF W!AddTo
<1>6. CASE slot \in DOMAIN ring
  BY <1>1, <1>4, <1>5, <1>6 DEF W!RingType
<1>7. CASE slot \notin DOMAIN ring
  BY <1>1, <1>5, <1>7 DEF W!RingType
<1> QED BY <1>6, <1>7

LEMMA CountedIsWindow ==
  ASSUME NEW at \in Nat, NEW h \in Host, NEW w \in W!Window \union {Null}
  PROVE  W!Counted(IF w = Null THEN W!NewWindow(at) ELSE w, h, at) \in W!Window
<1> DEFINE old == IF w = Null THEN W!NewWindow(at) ELSE w
<1>1. /\ ShortBuckets \in Nat \ {0} /\ LongBuckets \in Nat \ {0}
      /\ at \div ShortWidth \in Nat /\ at \div LongWidth \in Nat
  BY WindowsAssumption DEF W!WindowAssumption
<1>2. old \in W!Window
  <2>1. W!NewRing(ShortBuckets) \in W!RingType(ShortBuckets)
    BY <1>1 DEF W!NewRing, W!RingType
  <2>2. W!NewRing(LongBuckets) \in W!RingType(LongBuckets)
    BY <1>1 DEF W!NewRing, W!RingType
  <2> QED BY <2>1, <2>2 DEF W!NewWindow, W!Window
<1> HIDE DEF old
<1>3. W!AddTo(old.short, at \div ShortWidth) \in W!RingType(ShortBuckets)
  BY <1>1, <1>2, RingsKeepType DEF W!Window
<1>4. W!AddTo(old.long, at \div LongWidth) \in W!RingType(LongBuckets)
  BY <1>1, <1>2, RingsKeepType DEF W!Window
<1>5. [x \in Host |-> IF x = h THEN at
                      ELSE IF old.hosts[x] # Null /\ at - old.hosts[x] <= W!LongWindow
                           THEN old.hosts[x] ELSE Null] \in [Host -> Nat \union {Null}]
  BY <1>2 DEF W!Window
<1>6. old.first \in Nat
  BY <1>2 DEF W!Window
<1>7. W!Counted(old, h, at) \in W!Window
  BY <1>3, <1>4, <1>5, <1>6 DEF W!Counted, W!Window
<1> QED BY <1>7 DEF old

\* A line enters the history of its template as the last one, and no other
\* history ends with a line it did not end with before.
LEMMA RecordAnswers ==
  ASSUME HistoryOK, NEW t \in Template, NEW h \in Host, W!RecordLine(t, h)
  PROVE  /\ HistoryOK'
         /\ history'[t] \notin {history[t], <<>>}
         /\ history'[t][Len(history'[t])] = <<now, h>>
         /\ \A x \in Template : x # t => history'[x] \in {history[x], <<>>}
<1>1. PICK rest \in [Template -> W!Window \union {Null}] :
             W!Record(t, h, rest) /\ (rest[t] = Null => windows[t] = Null)
  <2>1. W!Record(t, h, windows) \/ \E gone : t \notin gone /\ W!Record(t, h, W!Without(gone))
    BY DEF W!RecordLine, W!RecordTracked, W!RecordNew, W!RecordSweeping, W!RecordEvicting,
           W!Idle, W!Tracked
  <2>2. \A gone : W!Without(gone) \in [Template -> W!Window \union {Null}]
                  /\ (t \notin gone => W!Without(gone)[t] = windows[t])
    BY DEF W!Without, HistoryOK
  <2> QED BY <2>1, <2>2 DEF HistoryOK
<1> DEFINE w == W!Counted(IF rest[t] = Null THEN W!NewWindow(now) ELSE rest[t], h, now)
<1>2. /\ now' = now
      /\ windows' = [rest EXCEPT ![t] = w]
      /\ history' = [x \in Template |->
                       IF x = t THEN Append(IF rest[t] = Null THEN <<>> ELSE history[t],
                                            <<now, h>>)
                       ELSE IF rest[x] = Null THEN <<>> ELSE history[x]]
  BY <1>1 DEF W!Record
<1>3. w \in W!Window /\ w # Null
  <2>1. w \in W!Window
    BY <1>1, CountedIsWindow DEF HistoryOK
  <2> QED BY <2>1, WindowsNull
<1> HIDE DEF w
<1>4. PICK before \in Seq(Nat \X Host) :
             history'[t] = Append(before, <<now, h>>) /\ before \in {history[t], <<>>}
             /\ (before = history[t] \/ history[t] = <<>>)
  <2>1. (IF rest[t] = Null THEN <<>> ELSE history[t]) \in Seq(Nat \X Host)
    BY DEF HistoryOK
  <2>2. history'[t] = Append(IF rest[t] = Null THEN <<>> ELSE history[t], <<now, h>>)
    BY <1>2
  <2>3. rest[t] = Null => history[t] = <<>>
    BY <1>1 DEF HistoryOK
  <2> QED BY <2>1, <2>2, <2>3
<1>5. <<now, h>> \in Nat \X Host
  BY DEF HistoryOK
<1>6. history'[t][Len(history'[t])] = <<now, h>> /\ Len(history'[t]) = Len(before) + 1
  BY <1>4, <1>5
<1>7. history'[t] \notin {history[t], <<>>}
  <2>1. Len(before) \in Nat /\ Len(history'[t]) # Len(before) /\ Len(history'[t]) # 0
    BY <1>4, <1>6
  <2>2. history'[t] # before /\ history'[t] # <<>>
    BY <2>1
  <2> QED BY <1>4, <2>2
<1>8. history' \in [Template -> Seq(Nat \X Host)]
  <2>1. \A x \in Template : history'[x] \in Seq(Nat \X Host)
    BY <1>2, <1>4, <1>5 DEF HistoryOK
  <2> QED BY <1>2, <2>1
<1>9. \A x \in Template : x # t => history'[x] \in {history[x], <<>>}
  BY <1>2
<1>10. windows' \in [Template -> W!Window \union {Null}]
  BY <1>1, <1>2, <1>3
<1>11. \A x \in Template : windows'[x] = Null => history'[x] = <<>>
  BY <1>1, <1>2, <1>3
<1> QED BY <1>2, <1>6, <1>7, <1>8, <1>9, <1>10, <1>11 DEF HistoryOK

LEMMA NextHistoryOK == TypeOK /\ HistoryOK /\ [WindowedNext]_allVars => HistoryOK'
<1> SUFFICES ASSUME TypeOK, HistoryOK, [WindowedNext]_allVars PROVE HistoryOK'
  OBVIOUS
<1>1. ASSUME NEW t \in Template, NEW h \in Host, LineArrives(t, h) PROVE HistoryOK'
  <2>1. survivor[t] \in Template
    BY DEF TypeOK
  <2> QED BY <1>1, <2>1, RecordAnswers DEF LineArrives
<1>2. CASE TimePasses
  BY <1>2, WindowsAssumption
     DEF TimePasses, W!Advance, W!Lesser, W!WindowAssumption, HistoryOK
<1>3. CASE Restarts
  BY <1>3 DEF Restarts, HistoryOK, W!Window
<1>4. CASE EngineActs \/ UNCHANGED allVars
  BY <1>4 DEF EngineActs, allVars, windowVars, HistoryOK
<1> QED BY <1>1, <1>2, <1>3, <1>4 DEF WindowedNext

THEOREM HistoryHolds == WindowedSpec => []HistoryOK
<1>1. WindowedInit => HistoryOK
  BY DEF WindowedInit, W!Init, HistoryOK
<1>2. WindowedSpec => []TypeOK
  BY WindowsRestrict, TypeCorrectness, PTL
<1> QED BY <1>1, <1>2, NextHistoryOK, PTL DEF WindowedSpec

-----------------------------------------------------------------------------
(* The raise rule on those answers.                                        *)

\* An alarm, a check out, or a silence that was there before.
Covered(k) == open'[k] # Null \/ k \in inFlight' \/ (k \in suppressed /\ k \in suppressed')

LEMMA InsertOpens ==
  ASSUME TypeOK, NEW a \in Alarm, InsertOpen(a)
  PROVE  open'[a.key] = a /\ open'[a.key] # Null
<1>1. a.key \in Key /\ a # Null
  BY NullAssumption DEF Alarm
<1> QED BY <1>1 DEF InsertOpen, TypeOK

LEMMA RaiseInserts ==
  ASSUME TypeOK, NEW k \in Key, NEW severity \in Nat, NEW lane \in Lane,
         Raise(k, severity, lane)
  PROVE  \E a \in Alarm : a.key = k /\ InsertOpen(a) /\ Publish(a)
<1> DEFINE a == [id |-> lastId + 1, key |-> k, severity |-> severity, count |-> 1, lane |-> lane]
<1>1. a \in Alarm
  BY EngineAssumption DEF Raise, Alarm, Id, TypeOK
<1> QED BY <1>1 DEF Raise

\* A gated line that trips leaves its key covered, whichever way it goes.
LEMMA TrippingLineCovers ==
  ASSUME TypeOK, TombstonesAreClosed, ~StoreFaults, NEW t \in Template, NEW h \in Host,
         NEW triggered \in BOOLEAN,
         verdict[survivor[t]] # Null, Gated(verdict[survivor[t]]),
         Trips(verdict[survivor[t]], triggered),
         Line(t, h, triggered) \/ LineIgnored(t, h, triggered)
  PROVE  Covered(KeyOf(t, h))
<1>1. PICK k \in Key : k = KeyOf(t, h)
  BY DEF TypeOK, KeyOf, Key
<1>2. PICK severity \in Nat : severity = verdict[survivor[t]].severity
  BY EngineAssumption DEF TypeOK
<1>3. CASE LineUnjudged(t, h)
  BY <1>3 DEF LineUnjudged
<1>4. CASE LineBumps(t, h, triggered)
  <2>1. open[k] \in Alarm /\ open[k].count < MaxCount
    BY <1>1, <1>4 DEF LineBumps, TypeOK
  <2>2. open'[k] = Bumped(open[k], severity)
    BY <1>1, <1>2, <1>4 DEF LineBumps, TypeOK
  <2>3. open'[k] \in Alarm
    BY <2>1, <2>2, BumpedIsAlarm
  <2> QED BY <1>1, <2>3, NullAssumption DEF Covered
<1>5. CASE LineRevives(t, h, triggered)
  <2>1. /\ tombstones[k].alarm \in Alarm
        /\ tombstones[k].alarm.count < MaxCount
        /\ tombstones[k].alarm.key = k
    BY <1>1, <1>5 DEF LineRevives, LiveTombstone, TypeOK, Tombstone, TombstonesAreClosed
  <2>2. InsertOpen(Bumped(tombstones[k].alarm, severity))
    BY <1>1, <1>2, <1>5 DEF LineRevives
  <2>3. Bumped(tombstones[k].alarm, severity) \in Alarm
        /\ Bumped(tombstones[k].alarm, severity).key = k
    BY <2>1, BumpedIsAlarm
  <2> QED BY <1>1, <2>2, <2>3, InsertOpens DEF Covered
<1>6. CASE LineCools(t, h, triggered)
  BY <1>6 DEF LineCools
<1>7. CASE LineChecks(t, h, triggered)
  BY <1>7 DEF LineChecks, Covered
<1>8. CASE LineRaises(t, h, triggered)
  <2>1. Raise(k, severity, "Dashboard")
    BY <1>1, <1>2, <1>8 DEF LineRaises
  <2>2. PICK a \in Alarm : a.key = k /\ InsertOpen(a)
    BY <2>1, RaiseInserts DEF Lane
  <2> QED BY <1>1, <2>2, InsertOpens DEF Covered
<1>9. CASE LineIgnored(t, h, triggered)
  <2>1. KeyOf(t, h) \in inFlight \/ KeyOf(t, h) \in suppressed
    BY <1>9 DEF LineIgnored
  <2>2. UNCHANGED <<inFlight, suppressed>>
    BY <1>9 DEF LineIgnored, vars
  <2> QED BY <2>1, <2>2 DEF Covered
<1> QED BY <1>3, <1>4, <1>5, <1>6, <1>7, <1>8, <1>9 DEF Line

\* A gated line that does not trip leaves its key unsuppressed: a key in
\* flight, which it may not look at further, never is.
LEMMA CoolLineReleases ==
  ASSUME TypeOK, OneCheckInFlight, ~StoreFaults, NEW t \in Template, NEW h \in Host,
         NEW triggered \in BOOLEAN,
         verdict[survivor[t]] # Null, Gated(verdict[survivor[t]]),
         ~Trips(verdict[survivor[t]], triggered),
         Line(t, h, triggered) \/ LineIgnored(t, h, triggered)
  PROVE  KeyOf(t, h) \notin suppressed'
<1>1. CASE LineIgnored(t, h, triggered)
  <2>1. KeyOf(t, h) \in inFlight /\ UNCHANGED suppressed
    BY <1>1 DEF LineIgnored, vars
  <2> QED BY <2>1 DEF OneCheckInFlight
<1>2. CASE LineUnjudged(t, h)
  BY <1>2 DEF LineUnjudged
<1>3. ASSUME Passes(t, h, triggered) PROVE KeyOf(t, h) \notin suppressed'
  BY <1>3 DEF Passes
<1> QED BY <1>1, <1>2, <1>3
        DEF Line, LineBumps, LineRevives, LineCools, LineChecks, LineRaises

\* A line the windows took of key k was filed under k, and no other step takes
\* one.
LEMMA LineOfKey ==
  ASSUME IndInv, HistoryOK, [WindowedNext]_allVars, NEW k \in Key, TakesLine(k)
  PROVE  \E t \in Template, h \in Host :
           LineArrives(t, h) /\ k = KeyOf(t, h) /\ k[1] = survivor[t]
<1> DEFINE Ended == history'[k[1]] # history[k[1]] /\ history'[k[1]] # <<>>
<1>1. Ended /\ k[1] \in Template
  BY DEF TakesLine, Key
<1>2. PICK t \in Template, h \in Host : LineArrives(t, h)
  <2>1. ~TimePasses
    BY <1>1 DEF TimePasses, W!Advance
  <2>2. ~Restarts
    BY <1>1 DEF Restarts
  <2>3. ~EngineActs /\ ~UNCHANGED allVars
    BY <1>1 DEF EngineActs, allVars, windowVars
  <2> QED BY <2>1, <2>2, <2>3 DEF WindowedNext
<1>3. PICK low \in Template : low = survivor[t]
  BY DEF IndInv, TypeOK
<1>4. /\ history'[low][Len(history'[low])] = <<now, h>>
      /\ \A x \in Template : x # low => history'[x] \in {history[x], <<>>}
  BY <1>2, <1>3, RecordAnswers DEF LineArrives
<1>5. k[1] = low
  BY <1>1, <1>4
<1>6. k[2] = h
  BY <1>4, <1>5 DEF TakesLine
<1>7. k = <<low, h>>
  BY <1>5, <1>6 DEF Key
<1> QED BY <1>2, <1>3, <1>7 DEF KeyOf

\* And a line that arrives is taken, for its key.
LEMMA ArrivalIsTaken ==
  ASSUME TypeOK, HistoryOK, NEW t \in Template, NEW h \in Host, LineArrives(t, h)
  PROVE  TakesLine(KeyOf(t, h))
<1>1. PICK low \in Template : low = survivor[t]
  BY DEF TypeOK
<1>2. history'[low] \notin {history[low], <<>>} /\ history'[low][Len(history'[low])] = <<now, h>>
  BY <1>1, RecordAnswers DEF LineArrives
<1>3. KeyOf(t, h) = <<low, h>>
  BY <1>1 DEF KeyOf
<1> QED BY <1>2, <1>3 DEF TakesLine

\* No burst goes unanswered, and no silence outlasts its burst (on_classified):
\* a gated line that trips leaves its key open, being checked or as silenced as
\* it was, one that does not ends the silence, whatever the other templates,
\* checks, clears and restarts made of the tables before it.
THEOREM BurstHolds ==
  ASSUME ~StoreFaults
  PROVE  WindowedSpec => BurstIsCovered
<1> DEFINE Answered ==
      \A k \in Key :
        (TakesLine(k) /\ verdict[k[1]] # Null /\ Gated(verdict[k[1]])) =>
          IF Trips(verdict[k[1]], W!Triggered(stats')) THEN Covered(k) ELSE k \notin suppressed'
<1>1. IndInv /\ OneCheckInFlight /\ HistoryOK /\ [WindowedNext]_allVars => [Answered]_allVars
  <2> SUFFICES ASSUME IndInv, OneCheckInFlight, HistoryOK, [WindowedNext]_allVars,
                      NEW k \in Key, TakesLine(k), verdict[k[1]] # Null, Gated(verdict[k[1]])
               PROVE  IF Trips(verdict[k[1]], W!Triggered(stats')) THEN Covered(k)
                      ELSE k \notin suppressed'
    OBVIOUS
  <2>1. PICK t \in Template, h \in Host :
          LineArrives(t, h) /\ k = KeyOf(t, h) /\ k[1] = survivor[t]
    BY LineOfKey
  <2>2. PICK triggered \in BOOLEAN :
               /\ triggered = W!Triggered(stats')
               /\ Line(t, h, triggered) \/ LineIgnored(t, h, triggered)
    BY <2>1, LineTaken
  <2>3. CASE Trips(verdict[survivor[t]], triggered)
    BY <2>1, <2>2, <2>3, TrippingLineCovers DEF IndInv
  <2>4. CASE ~Trips(verdict[survivor[t]], triggered)
    BY <2>1, <2>2, <2>4, CoolLineReleases DEF IndInv
  <2> QED BY <2>1, <2>2, <2>3, <2>4
<1>2. WindowedSpec => [](IndInv /\ OneCheckInFlight)
  BY WindowsRestrict, InductiveInvariant, ChecksHold, PTL
<1>3. [Answered]_allVars =>
        [\A k \in Key :
           (TakesLine(k) /\ verdict[k[1]] # Null /\ Gated(verdict[k[1]])) =>
             IF Trips(verdict[k[1]], W!Triggered(stats'))
             THEN open'[k] # Null \/ k \in inFlight' \/ (k \in suppressed /\ k \in suppressed')
             ELSE k \notin suppressed']_allVars
  BY DEF Covered
<1> QED BY <1>1, <1>2, <1>3, HistoryHolds, PTL DEF WindowedSpec, BurstIsCovered

-----------------------------------------------------------------------------
(* No raise without a window.                                              *)

\* What the loop of on_judged has still to visit bypasses the window: it was
\* taken for a verdict that does, and a verdict is not replaced under it.
LoopBypasses == \A k \in raising : Bypasses(verdict[k[1]])

LEMMA NextLoopBypasses == IndInv /\ LoopBypasses /\ [Next]_vars => LoopBypasses'
<1> SUFFICES ASSUME IndInv, LoopBypasses, [Next]_vars PROVE LoopBypasses'
  OBVIOUS
<1> TypeOK /\ PendingIsGated
  BY DEF IndInv
<1>1. ASSUME UNCHANGED verdict, raising' \subseteq raising PROVE LoopBypasses'
  BY <1>1 DEF LoopBypasses
<1>2. ASSUME NEW t \in Template, NEW h \in Host, NEW triggered \in BOOLEAN, Line(t, h, triggered)
      PROVE  LoopBypasses'
  <2>1. UNCHANGED <<verdict, raising>>
    BY <1>2 DEF Line, LineUnjudged, LineBumps, LineRevives, LineCools, LineChecks,
                LineRaises, outside
  <2> QED BY <1>1, <2>1
<1>3. ASSUME NEW k \in Key, Apply(k) \/ RaiseFirstSighting(k) PROVE LoopBypasses'
  <2>1. UNCHANGED verdict /\ raising' \subseteq raising
    BY <1>3 DEF Apply, CheckOvertaken, CheckRaises, CheckSilences, Returns,
                RaiseFirstSighting, outside
  <2> QED BY <1>1, <2>1
<1>4. ASSUME NEW t \in Template, JudgeLands(t) PROVE LoopBypasses'
  <2>1. \A x \in Template : verdict[x] # Null => verdict'[x] = verdict[x]
    BY <1>4 DEF JudgeLands, TypeOK
  <2>2. UNCHANGED raising
    BY <1>4 DEF JudgeLands
  <2>3. \A k \in raising : k[1] \in Template /\ verdict[k[1]] # Null
    BY DEF PendingIsGated, TypeOK, Key
  <2> QED BY <2>1, <2>2, <2>3 DEF LoopBypasses
<1>5. ASSUME NEW t \in Template, Judged(t) PROVE LoopBypasses'
  <2>1. CASE Gated(verdict[t]) /\ Bypasses(verdict[t])
    <3>1. raising' = {t} \X unjudged[t] /\ UNCHANGED verdict
      BY <1>5, <2>1 DEF Judged, outside
    <3> QED BY <2>1, <3>1 DEF LoopBypasses
  <2>2. CASE ~(Gated(verdict[t]) /\ Bypasses(verdict[t]))
    <3>1. raising' = {}
      BY <1>5, <2>2 DEF Judged
    <3> QED BY <3>1 DEF LoopBypasses
  <2> QED BY <2>1, <2>2
<1>6. ASSUME NEW t \in Template, JudgeFails(t) \/ JudgedUnread(t) PROVE LoopBypasses'
  BY <1>1, <1>6 DEF JudgeFails, JudgedUnread
<1>7. ASSUME NEW hi \in Template, NEW lo \in Template, MergeLands(hi, lo) PROVE LoopBypasses'
  BY <1>1, <1>7 DEF MergeLands
<1>8. ASSUME NEW i \in Id, Clear(i) \/ LoadNext(i) PROVE LoopBypasses'
  BY <1>1, <1>8 DEF Clear, LoadNext, outside
<1>9. CASE Tick \/ Stop \/ Run \/ UNCHANGED vars
  BY <1>1, <1>9 DEF Tick, Stop, Run, outside, vars
<1>10. CASE Start
  BY <1>10 DEF Start, LoopBypasses
<1> QED BY <1>2, <1>3, <1>4, <1>5, <1>6, <1>7, <1>8, <1>9, <1>10 DEF Next

THEOREM LoopHolds == Spec => []LoopBypasses
<1>1. Init => LoopBypasses
  BY DEF Init, LoopBypasses
<1> QED BY <1>1, InductiveInvariant, NextLoopBypasses, PTL DEF Spec

\* A check below the bypass carries a burst that triggered its window.
CheckedBurst(k) == Bypasses(verdict[k[1]]) \/ W!Triggered(bursts[k])

BurstsTriggered == \A k \in Key : k \in inFlight => CheckedBurst(k)

LEMMA NextBurstsTriggered ==
  IndInv /\ OneCheckInFlight /\ BurstsTriggered /\ [WindowedNext]_allVars => BurstsTriggered'
<1> SUFFICES ASSUME IndInv, OneCheckInFlight, BurstsTriggered, [WindowedNext]_allVars
             PROVE  BurstsTriggered'
  OBVIOUS
<1> TypeOK /\ PendingIsGated
  BY DEF IndInv
<1>1. ASSUME UNCHANGED verdict, NEW k \in Key, k \in inFlight, bursts'[k] = bursts[k]
      PROVE  CheckedBurst(k)'
  BY <1>1 DEF BurstsTriggered, CheckedBurst
<1>2. ASSUME NEW t \in Template, NEW h \in Host, LineArrives(t, h) PROVE BurstsTriggered'
  <2>1. PICK triggered \in BOOLEAN :
               /\ triggered = W!Triggered(stats')
               /\ Line(t, h, triggered) \/ LineIgnored(t, h, triggered)
    BY <1>2, LineTaken
  <2>2. UNCHANGED verdict
    BY <2>1 DEF Line, LineUnjudged, LineBumps, LineRevives, LineCools, LineChecks, LineRaises,
                LineIgnored, outside, vars
  <2>3. \A k \in Key : k \in inFlight' =>
          bursts'[k] = IF k \in inFlight THEN bursts[k] ELSE stats'
    BY <1>2 DEF LineArrives, BurstsFollow
  <2>4. ASSUME NEW k \in Key, k \in inFlight', k \notin inFlight PROVE CheckedBurst(k)'
    <3>1. LineChecks(t, h, triggered) /\ k = KeyOf(t, h)
      BY <2>1, <2>4 DEF Line, LineUnjudged, LineBumps, LineRevives, LineCools, LineChecks,
                        LineRaises, LineIgnored, vars
    <3>2. survivor[t] \in Template
      BY DEF TypeOK
    <3>3. Trips(verdict[k[1]], triggered)
      BY <3>1, <3>2 DEF LineChecks, KeyOf
    <3>4. Bypasses(verdict[k[1]]) \/ W!Triggered(stats')
      BY <2>1, <3>3 DEF Trips
    <3>5. bursts'[k] = stats'
      BY <2>3, <2>4
    <3> QED BY <2>2, <3>4, <3>5 DEF CheckedBurst
  <2> QED BY <1>1, <2>2, <2>3, <2>4 DEF BurstsTriggered
<1>3. CASE TimePasses
  <2>1. UNCHANGED <<inFlight, verdict, bursts>>
    BY <1>3 DEF TimePasses, Tick, vars, outside
  <2> QED BY <2>1 DEF BurstsTriggered, CheckedBurst
<1>4. CASE Restarts
  BY <1>4 DEF Restarts, Start, BurstsTriggered
<1>5. CASE EngineActs
  <2>1. inFlight' \subseteq inFlight
    BY <1>5 DEF EngineActs, Apply, CheckOvertaken, CheckRaises, CheckSilences, Returns,
                RaiseFirstSighting, JudgeLands, JudgeFails, Judged, Clear, LoadNext, Stop, Run
  <2>2. \A k \in Key : k \in inFlight' => bursts'[k] = bursts[k]
    BY <1>5, <2>1 DEF EngineActs, BurstsFollow
  <2>3. CASE UNCHANGED verdict
    BY <1>1, <2>1, <2>2, <2>3 DEF BurstsTriggered
  <2>4. ASSUME NEW t \in Template, JudgeLands(t) PROVE BurstsTriggered'
    <3>1. \A x \in Template : verdict[x] # Null => verdict'[x] = verdict[x]
      BY <2>4 DEF JudgeLands, TypeOK
    <3>2. \A k \in Key : k \in inFlight => k[1] \in Template /\ verdict[k[1]] # Null
      <4> SUFFICES ASSUME NEW k \in Key, k \in inFlight
                   PROVE  k[1] \in Template /\ verdict[k[1]] # Null
        OBVIOUS
      <4>1. checks[k] # <<>>
        BY DEF OneCheckInFlight
      <4> QED BY <4>1 DEF PendingIsGated, Key
    <3> QED BY <2>1, <2>2, <3>1, <3>2 DEF BurstsTriggered, CheckedBurst
  <2>5. UNCHANGED verdict \/ \E t \in Template : JudgeLands(t)
    BY <1>5 DEF EngineActs, Apply, CheckOvertaken, CheckRaises, CheckSilences, Returns,
                RaiseFirstSighting, JudgeFails, Judged, Clear, LoadNext, Stop, Run, outside
  <2> QED BY <2>3, <2>4, <2>5
<1>6. CASE UNCHANGED allVars
  <2>1. UNCHANGED <<inFlight, verdict, bursts>>
    BY <1>6 DEF allVars, vars, outside
  <2> QED BY <2>1 DEF BurstsTriggered, CheckedBurst
<1> QED BY <1>2, <1>3, <1>4, <1>5, <1>6 DEF WindowedNext

LEMMA BurstsHold == WindowedSpec => []BurstsTriggered
<1>1. WindowedInit => BurstsTriggered
  BY DEF WindowedInit, Init, BurstsTriggered
<1>2. WindowedSpec => [](IndInv /\ OneCheckInFlight)
  BY WindowsRestrict, InductiveInvariant, ChecksHold, PTL
<1> QED BY <1>1, <1>2, NextBurstsTriggered, PTL DEF WindowedSpec

\* What stands behind the raise of an alarm of key k.
Grounds(k) ==
  \/ Bypasses(verdict[k[1]])
  \/ TakesLine(k) /\ W!Triggered(stats')
  \/ k \in inFlight /\ W!Triggered(bursts[k])

\* An id the board did not show and does now has grounds.
NewHasGrounds ==
  \A i \in Id : board[i] = Null /\ board'[i] # Null => Grounds(board'[i].key)

\* The step that puts one alarm on the board.
LEMMA OneNew ==
  ASSUME TypeOK, NEW a \in Alarm, Publish(a), board[a.id] # Null \/ Grounds(a.key)
  PROVE  NewHasGrounds
<1>1. a.id \in Id /\ board' = [board EXCEPT ![a.id] = a]
  BY DEF Publish, Put, Alarm
<1>2. \A i \in Id : board'[i] = IF i = a.id THEN a ELSE board[i]
  BY <1>1 DEF TypeOK
<1> QED BY <1>2 DEF NewHasGrounds

LEMMA SameBoardHasGrounds == UNCHANGED board => NewHasGrounds
  BY DEF NewHasGrounds

\* A line shows no new alarm unless it bypasses or has triggered the window
\* that has just answered for its key.
LEMMA LineHasGrounds ==
  ASSUME IndInv, FeedMirrorsSnapshot, HistoryOK,
         NEW t \in Template, NEW h \in Host, LineArrives(t, h)
  PROVE  NewHasGrounds
<1> TypeOK /\ Bookkeeping /\ TombstonesAreClosed
  BY DEF IndInv
<1>1. PICK k \in Key : k = KeyOf(t, h) /\ k[1] = survivor[t]
  <2>1. survivor[t] \in Template
    BY DEF TypeOK
  <2>2. KeyOf(t, h) \in Key /\ KeyOf(t, h)[1] = survivor[t]
    BY <2>1 DEF KeyOf, Key
  <2> QED BY <2>2
<1>2. PICK triggered \in BOOLEAN :
             /\ triggered = W!Triggered(stats')
             /\ Line(t, h, triggered) \/ LineIgnored(t, h, triggered)
  BY LineTaken
<1>3. TakesLine(k)
  BY <1>1, ArrivalIsTaken
<1>4. Trips(verdict[survivor[t]], triggered) => Grounds(k)
  BY <1>1, <1>2, <1>3 DEF Trips, Grounds
<1>5. ASSUME Passes(t, h, triggered)
      PROVE  verdict[survivor[t]].severity \in Nat
  BY <1>5, KeyAndSeverity
<1>6. CASE LineBumps(t, h, triggered)
  <2>1. PICK severity \in Nat : severity = verdict[survivor[t]].severity
    BY <1>5, <1>6 DEF LineBumps
  <2>2. open[k] \in Alarm /\ open[k] # Null /\ open[k].count < MaxCount
    BY <1>1, <1>6 DEF LineBumps, TypeOK
  <2>3. PICK a \in Alarm : a = Bumped(open[k], severity) /\ a.id = open[k].id
    BY <2>2, BumpedIsAlarm
  <2>4. Publish(a)
    BY <1>1, <1>6, <2>1, <2>3 DEF LineBumps
  <2>5. open[k].id \in Id /\ byId[open[k].id] = k
    BY <2>2 DEF Alarm, Bookkeeping, OpenIsIndexed
  <2>6. snapshot[open[k].id] = open[k]
    <3>1. byId[open[k].id] # Null
      BY <2>5, NullAssumption
    <3> QED BY <2>5, <3>1 DEF Bookkeeping, SnapshotIsOpen
  <2>7. board[a.id] # Null
    BY <2>2, <2>3, <2>6 DEF FeedMirrorsSnapshot
  <2> QED BY <2>4, <2>7, OneNew
<1>7. CASE LineRevives(t, h, triggered)
  <2>1. PICK severity \in Nat : severity = verdict[survivor[t]].severity
    BY <1>5, <1>7 DEF LineRevives
  <2>2. /\ tombstones[k].alarm \in Alarm
        /\ tombstones[k].alarm.count < MaxCount
        /\ tombstones[k].alarm.key = k
    BY <1>1, <1>7 DEF LineRevives, LiveTombstone, TypeOK, Tombstone, TombstonesAreClosed
  <2>3. PICK a \in Alarm : a = Bumped(tombstones[k].alarm, severity) /\ a.key = k
    BY <2>2, BumpedIsAlarm
  <2>4. Publish(a) /\ Trips(verdict[survivor[t]], triggered)
    BY <1>1, <1>7, <2>1, <2>3 DEF LineRevives
  <2> QED BY <1>4, <2>3, <2>4, OneNew
<1>8. CASE LineRaises(t, h, triggered)
  <2>1. PICK severity \in Nat : severity = verdict[survivor[t]].severity
    BY <1>5, <1>8 DEF LineRaises
  <2>2. Raise(k, severity, "Dashboard") /\ Trips(verdict[survivor[t]], triggered)
    BY <1>1, <1>8, <2>1 DEF LineRaises
  <2>3. PICK a \in Alarm : a.key = k /\ Publish(a)
    BY <2>2, RaiseInserts DEF Lane
  <2> QED BY <1>4, <2>2, <2>3, OneNew
<1>9. CASE LineUnjudged(t, h) \/ LineCools(t, h, triggered) \/ LineChecks(t, h, triggered)
  BY <1>9, SameBoardHasGrounds DEF LineUnjudged, LineCools, LineChecks, published
<1>10. CASE LineIgnored(t, h, triggered)
  BY <1>10, SameBoardHasGrounds DEF LineIgnored, vars, published
<1> QED BY <1>2, <1>6, <1>7, <1>8, <1>9, <1>10 DEF Line

LEMMA ActHasGrounds ==
  ASSUME IndInv, OneCheckInFlight, LoopBypasses, BurstsTriggered, mode = "running", EngineActs
  PROVE  NewHasGrounds
<1> TypeOK
  BY DEF IndInv
<1>1. ASSUME NEW k \in Key, Apply(k) PROVE NewHasGrounds
  <2>1. CASE CheckRaises(k)
    <3>1. checks[k] \in Seq(Nat) /\ checks[k] # <<>>
      BY <2>1 DEF CheckRaises, Returns, TypeOK
    <3>2. PICK severity \in Nat : severity = Head(checks[k])
      BY <3>1
    <3>3. PICK lane \in Lane : Raise(k, severity, lane)
      BY <2>1, <3>2 DEF CheckRaises
    <3>4. PICK a \in Alarm : a.key = k /\ Publish(a)
      BY <3>3, RaiseInserts
    <3>5. k \in inFlight
      BY <3>1 DEF OneCheckInFlight
    <3>6. Grounds(k)
      BY <3>5 DEF BurstsTriggered, CheckedBurst, Grounds
    <3> QED BY <3>4, <3>6, OneNew
  <2>2. CASE CheckOvertaken(k) \/ CheckSilences(k)
    BY <2>2, SameBoardHasGrounds DEF CheckOvertaken, CheckSilences, published
  <2> QED BY <1>1, <2>1, <2>2 DEF Apply
<1>2. ASSUME NEW k \in Key, RaiseFirstSighting(k) PROVE NewHasGrounds
  <2>1. CASE open[k] # Null
    BY <1>2, <2>1, SameBoardHasGrounds DEF RaiseFirstSighting, published
  <2>2. CASE open[k] = Null
    <3>1. k \in raising /\ Raise(k, verdict[k[1]].severity, "Dashboard")
      BY <1>2, <2>2 DEF RaiseFirstSighting
    <3>2. verdict[k[1]] \in Verdicts
      BY <3>1 DEF IndInv, PendingIsGated, TypeOK, Key
    <3>3. verdict[k[1]].severity \in Nat
      BY <3>2, EngineAssumption
    <3>4. PICK a \in Alarm : a.key = k /\ Publish(a)
      BY <3>1, <3>3, RaiseInserts DEF Lane
    <3> QED BY <3>1, <3>4, OneNew DEF Grounds, LoopBypasses
  <2> QED BY <2>1, <2>2
<1>3. ASSUME NEW t \in Template, JudgeLands(t) \/ JudgeFails(t) \/ Judged(t) PROVE NewHasGrounds
  BY <1>3, SameBoardHasGrounds DEF JudgeLands, JudgeFails, Judged, published
<1>4. ASSUME NEW i \in Id, Clear(i) PROVE NewHasGrounds
  BY <1>4 DEF Clear, NewHasGrounds, TypeOK
<1>5. ASSUME NEW i \in Id, LoadNext(i) PROVE NewHasGrounds
  BY <1>5 DEF LoadNext
<1>6. CASE Stop \/ Run
  BY <1>6, SameBoardHasGrounds DEF Stop, Run, published
<1> QED BY <1>1, <1>2, <1>3, <1>4, <1>5, <1>6 DEF EngineActs

\* No alarm below the bypass appears but out of a window that triggered
\* (on_classified, apply, on_judged): at a line of its key that triggers it, or
\* when a check returns whose burst was spawned by such a line.
THEOREM RaisesHold == WindowedSpec => RaisesTookAWindow
<1>1. /\ IndInv /\ FeedMirrorsSnapshot /\ OneCheckInFlight /\ LoopBypasses /\ HistoryOK
      /\ BurstsTriggered /\ [WindowedNext]_allVars
      => [mode = "running" => NewHasGrounds]_allVars
  <2> SUFFICES ASSUME IndInv, FeedMirrorsSnapshot, OneCheckInFlight, LoopBypasses, HistoryOK,
                      BurstsTriggered, WindowedNext, mode = "running"
               PROVE  NewHasGrounds
    OBVIOUS
  <2>1. ASSUME NEW t \in Template, NEW h \in Host, LineArrives(t, h) PROVE NewHasGrounds
    BY <2>1, LineHasGrounds
  <2>2. CASE TimePasses
    BY <2>2, SameBoardHasGrounds DEF TimePasses, Tick, vars, published
  <2>3. CASE Restarts
    BY <2>3 DEF Restarts, Start
  <2>4. CASE EngineActs
    BY <2>4, ActHasGrounds
  <2> QED BY <2>1, <2>2, <2>3, <2>4 DEF WindowedNext
<1>2. [mode = "running" => NewHasGrounds]_allVars =>
        [mode = "running" =>
           \A i \in Id : board[i] = Null /\ board'[i] # Null =>
             LET k == board'[i].key
             IN  \/ Bypasses(verdict[k[1]])
                 \/ TakesLine(k) /\ W!Triggered(stats')
                 \/ k \in inFlight /\ W!Triggered(bursts[k])]_allVars
  BY DEF NewHasGrounds, Grounds
<1>3. WindowedSpec => [](IndInv /\ FeedMirrorsSnapshot /\ OneCheckInFlight /\ LoopBypasses)
  BY WindowsRestrict, InductiveInvariant, FeedHolds, ChecksHold, LoopHolds, PTL
<1> QED BY <1>1, <1>2, <1>3, HistoryHolds, BurstsHold, PTL DEF WindowedSpec, RaisesTookAWindow
=============================================================================
