------------------------- MODULE MergeAliasesProofs -------------------------
(***************************************************************************)
(* The alias table is what was decided, moka answers as the store would,   *)
(* and resolving ends, for any number of templates, bundles, builds,       *)
(* decisions, removals, restarts and hops.                                 *)
(***************************************************************************)
EXTENDS MergeAliases, WellFoundedInduction, TLAPS

\* Null is no value of any kind; a pair is two templates, the lesser first.
LEMMA Kinds ==
  /\ Null \notin Decision /\ Null \notin Job /\ Null \notin Removal /\ Null \notin Template
  /\ \A t \in Template : t \in Nat
  /\ \A p \in Pair : p[1] \in Template /\ p[2] \in Template /\ p[1] < p[2] /\ p = <<p[1], p[2]>>
  /\ MaxHops \in Nat /\ MaxDecisions \in Nat /\ MaxRestarts \in Nat
<1>1. \A p \in Pair : p \in Template \X Template /\ p[1] < p[2]
  BY DEF Pair
<1>2. Template \subseteq Nat /\ MaxHops \in Nat /\ MaxDecisions \in Nat /\ MaxRestarts \in Nat
  BY MergeAssumption
<1> QED BY <1>1, <1>2, MergeAssumption

\* A set of numbers has a least member; one under a bound, a greatest.
LEMMA LeastNumber ==
  ASSUME NEW S, S \subseteq Nat, S # {}
  PROVE  \E x \in S : \A y \in S : x <= y
<1> DEFINE R == OpToRel(<, Nat)
<1>1. IsWellFoundedOn(R, Nat)
  BY NatLessThanWellFounded
<1>2. PICK x \in S : \A y \in S : ~(<<y, x>> \in R)
  <2> HIDE DEF R
  <2> QED BY <1>1, WFMin
<1>3. \A y \in S : ~(y < x)
  BY <1>2 DEF OpToRel
<1> QED BY <1>3

LEMMA BoundedHasMax ==
  ASSUME NEW n \in Nat, NEW S, S \subseteq 0 .. n, S # {}
  PROVE  Max(S) \in S /\ \A y \in S : Max(S) >= y
<1> DEFINE T == {n - x : x \in S}
<1>1. T \subseteq Nat /\ T # {} /\ \A z \in S : n - z \in T /\ z \in Nat
  <2>1. \A z \in S : z \in Nat /\ n - z \in Nat /\ n - z \in T
    OBVIOUS
  <2>2. \A y \in T : y \in Nat
    BY <2>1
  <2>3. PICK z \in S : TRUE
    OBVIOUS
  <2> QED BY <2>1, <2>2, <2>3
<1>2. PICK y \in T : \A z \in T : y <= z
  BY <1>1, LeastNumber
<1>3. PICK x \in S : y = n - x
  OBVIOUS
<1>4. \A z \in S : n - x <= n - z
  BY <1>1, <1>2, <1>3
<1>5. \A z \in S : x >= z
  BY <1>1, <1>4
<1> QED BY <1>5 DEF Max

-----------------------------------------------------------------------------
(* The jobs.                                                               *)

JobsOK == jobs \in [Pair -> Job \union {Null}]

\* A job that goes on keeps its decision, and every other job is as it was.
LEMMA GoesKeepsJob ==
  ASSUME JobsOK, NEW p \in Pair, jobs[p] # Null, NEW step \in Step, Goes(p, step)
  PROVE  /\ JobsOK'
         /\ jobs'[p] # Null /\ jobs'[p].step = step /\ jobs'[p].decision = jobs[p].decision
         /\ \A q \in Pair : q # p => jobs'[q] = jobs[q]
<1>1. jobs[p] \in Job
  BY DEF JobsOK
<1>2. [jobs[p] EXCEPT !.step = step] \in Job
  BY <1>1 DEF Job
<1>3. jobs' = [jobs EXCEPT ![p] = [jobs[p] EXCEPT !.step = step]]
  BY DEF Goes
<1>4. jobs'[p] = [jobs[p] EXCEPT !.step = step] /\ JobsOK'
  BY <1>2, <1>3 DEF JobsOK
<1>5. \A q \in Pair : q # p => jobs'[q] = jobs[q]
  BY <1>3 DEF JobsOK
<1>6. jobs'[p] # Null
  BY <1>2, <1>4, Kinds
<1> QED BY <1>1, <1>4, <1>5, <1>6 DEF Job

\* A job that ends leaves its pair free, and every other job as it was.
LEMMA EndsFreesPair ==
  ASSUME JobsOK, NEW p \in Pair, Ends(p)
  PROVE  JobsOK' /\ jobs'[p] = Null /\ \A q \in Pair : q # p => jobs'[q] = jobs[q]
  BY DEF JobsOK, Ends

\* A pair is queued only where nothing works on it.
LEMMA QueuedIsNew ==
  ASSUME TypeOK, ReferEnqueues
  PROVE  /\ JobsOK'
         /\ \A q \in Pair : \/ jobs'[q] = jobs[q]
                            \/ jobs[q] = Null /\ jobs'[q] # Null /\ jobs'[q].step = "queued"
<1>1. referring.pair \in Pair
  BY DEF ReferEnqueues, TypeOK
<1>2. [step |-> "queued", decision |-> Null] \in Job
  BY DEF Job, Step
<1>3. CASE UNCHANGED jobs
  BY <1>3 DEF TypeOK, JobsOK
<1>4. CASE jobs' = [jobs EXCEPT ![referring.pair] =
                      IF @ = Null THEN [step |-> "queued", decision |-> Null] ELSE @]
  BY <1>1, <1>2, <1>4, Kinds DEF TypeOK, JobsOK
<1> QED BY <1>3, <1>4 DEF ReferEnqueues

\* An answer makes the next decision, of the pair that was called about.
LEMMA AnswersDecide ==
  ASSUME TypeOK, NEW p \in Pair, CallAnswers(p)
  PROVE  /\ JobsOK' /\ lastId' \in 0 .. MaxDecisions
         /\ jobs'[p] # Null /\ jobs'[p].step = "record"
         /\ jobs'[p].decision \in Decision /\ jobs'[p].decision.pair = p
         /\ \A q \in Pair : q # p => jobs'[q] = jobs[q]
<1>1. lastId + 1 \in 1 .. MaxDecisions
  BY Kinds DEF TypeOK, CallAnswers
<1>2. PICK merged \in BOOLEAN, m \in Model :
         jobs' = [jobs EXCEPT ![p] = [step |-> "record",
                    decision |-> [pair |-> p, bundle |-> bundle, model |-> m,
                                  merged |-> merged, id |-> lastId + 1]]]
  BY DEF CallAnswers
<1> DEFINE d == [pair |-> p, bundle |-> bundle, model |-> m, merged |-> merged, id |-> lastId + 1]
<1>3. d \in Decision
  BY <1>1 DEF Decision, TypeOK
<1>4. d.pair = p
  OBVIOUS
<1> HIDE DEF d
<1>5. jobs' = [jobs EXCEPT ![p] = [step |-> "record", decision |-> d]]
  BY <1>2 DEF d
<1>6. [step |-> "record", decision |-> d] \in Job
  BY <1>3 DEF Job, Step
<1>7. lastId' \in 0 .. MaxDecisions
  BY <1>1 DEF CallAnswers
<1> QED BY <1>3, <1>4, <1>5, <1>6, <1>7, Kinds DEF TypeOK, JobsOK

\* What a read of the store can answer.
LEMMA ReadsAnswer ==
  ASSUME TypeOK, NEW p \in Pair
  PROVE  /\ Rows(p) \subseteq merges /\ Rows(p) \subseteq Decision
         /\ \A d \in Rows(p) : d.pair = p
         /\ ReadLatestPair(p) \subseteq Rows(p) \union {Null}
<1>1. Rows(p) \subseteq merges /\ Rows(p) \subseteq Decision
  BY DEF TypeOK, Rows
<1> QED BY <1>1 DEF Rows, ReadLatestPair

\* What the steps of a removal leave: rows, entries and aliases only go.
Removes == RemoveRow \/ RemoveInvalidates \/ RemoveUnhooks

LEMMA RemovalsTake ==
  ASSUME TypeOK, Removes
  PROVE  /\ merges' \subseteq merges
         /\ \A q \in Pair : moka'[q] = moka[q] \/ moka'[q] = Null
         /\ \A t \in Template : aliases'[t] = aliases[t] \/ aliases'[t] = Null
         /\ moka' \in [Pair -> Decision \union {Null}]
         /\ aliases' \in [Template -> Template \union {Null}]
         /\ removing' \in Removal \union {Null}
         /\ removing # Null
         /\ UNCHANGED <<bundle, recorded, lastId, referring, jobs, restarts, spoiled>>
<1>0. removing # Null /\ removing \in Removal
  BY DEF Removes, RemoveRow, RemoveInvalidates, RemoveUnhooks, TypeOK
<1>1. removing.pair \in Pair /\ removing.pair[2] \in Template
  BY <1>0, Kinds DEF Removal
<1>2. CASE RemoveRow
  <2>1. PICK key \in removing.keys : \/ UNCHANGED merges /\ removing' = Null
                                    \/ /\ merges' \subseteq merges
                                       /\ removing' = [removing EXCEPT !.keys = @ \ {key}]
    BY <1>2 DEF RemoveRow
  <2>2. [removing EXCEPT !.keys = @ \ {key}] \in Removal
    BY <1>0 DEF Removal
  <2> QED BY <1>0, <1>2, <2>1, <2>2 DEF RemoveRow, TypeOK
<1>3. CASE RemoveInvalidates
  <2>1. [removing EXCEPT !.step = "alias"] \in Removal
    BY <1>0 DEF Removal
  <2> QED BY <1>0, <1>1, <1>3, <2>1 DEF RemoveInvalidates, TypeOK
<1>4. CASE RemoveUnhooks
  BY <1>0, <1>1, <1>4 DEF RemoveUnhooks, TypeOK
<1> QED BY <1>2, <1>3, <1>4 DEF Removes

\* load_aliases hooks a template where, and only where, a row merges it.
LEMMA LoadedIsAMerge ==
  ASSUME NEW rows, rows \subseteq Decision, NEW t \in Template
  PROVE  /\ Loaded(rows, t) # Null =>
              \E d \in rows : d.merged /\ d.pair = <<Loaded(rows, t), t>>
         /\ \A d \in rows : d.merged /\ d.pair[2] = t => Loaded(rows, t) # Null
<1> DEFINE merged == {d.pair[1] : d \in {e \in rows : e.merged /\ e.pair[2] = t}}
<1>1. \A d \in rows : d.pair \in Pair
  BY DEF Decision
<1>2. \A x \in merged : \E d \in rows : d.merged /\ d.pair[2] = t /\ d.pair[1] = x
  OBVIOUS
<1>3. \A x \in merged : x \in Template /\ x < t
  BY <1>1, <1>2, Kinds
<1>4. merged # {} => Max(merged) \in merged
  <2>1. t \in Nat /\ merged \subseteq 0 .. t
    BY <1>3, Kinds
  <2> HIDE DEF merged
  <2> QED BY <2>1, BoundedHasMax
<1>5. Loaded(rows, t) = IF merged = {} THEN Null ELSE Max(merged)
  BY DEF Loaded
<1>6. \A d \in rows : d.merged /\ d.pair[2] = t => d.pair[1] \in merged
  OBVIOUS
<1>7. ASSUME Loaded(rows, t) # Null
      PROVE  \E d \in rows : d.merged /\ d.pair = <<Loaded(rows, t), t>>
  <2>1. Loaded(rows, t) \in merged
    BY <1>4, <1>5, <1>7
  <2>2. PICK d \in rows : d.merged /\ d.pair[2] = t /\ d.pair[1] = Loaded(rows, t)
    BY <1>2, <2>1
  <2>3. d.pair = <<Loaded(rows, t), t>>
    BY <1>1, <2>2, Kinds
  <2> QED BY <2>2, <2>3
<1>8. ASSUME NEW d \in rows, d.merged, d.pair[2] = t
      PROVE  Loaded(rows, t) # Null
  <2>1. merged # {}
    BY <1>6, <1>8
  <2>2. Max(merged) \in Template
    BY <1>3, <1>4, <2>1
  <2> QED BY <1>5, <2>1, <2>2, Kinds
<1> QED BY <1>7, <1>8

-----------------------------------------------------------------------------
LEMMA InitIndInv == Init => IndInv
<1> SUFFICES ASSUME Init PROVE IndInv
  OBVIOUS
<1>1. TypeOK
  <2>1. lastId \in 0 .. MaxDecisions /\ restarts \in 0 .. MaxRestarts
    BY Kinds DEF Init
  <2>2. /\ bundle \in Bundle /\ merges \subseteq Decision /\ recorded \subseteq 1 .. MaxDecisions
        /\ spoiled \in BOOLEAN
    BY DEF Init
  <2>3. /\ moka \in [Pair -> Decision \union {Null}]
        /\ aliases \in [Template -> Template \union {Null}]
        /\ jobs \in [Pair -> Job \union {Null}]
    BY DEF Init
  <2>4. referring \in [pair : Pair, found : Decision \union {Null}] \union {Null}
    BY DEF Init
  <2>5. removing \in Removal \union {Null}
    BY DEF Init
  <2> QED BY <2>1, <2>2, <2>3, <2>4, <2>5 DEF TypeOK
<1>2. AliasesDescend /\ InHand /\ Recorded /\ KeyedOnce /\ RemovalSpoils
  BY DEF Init, AliasesDescend, InHand, Recorded, KeyedOnce, Working, RemovalSpoils
<1>3. DecidedOnce /\ Hooked
  BY DEF Init, DecidedOnce, Hooked, Working
<1> QED BY <1>1, <1>2, <1>3 DEF IndInv

LEMMA NextKeepsTypeOK ==
  ASSUME TypeOK, InHand, Next
  PROVE  TypeOK'
<1>0. JobsOK
  BY DEF TypeOK, JobsOK
<1>1. ASSUME NEW p \in Pair, ReferReads(p) PROVE TypeOK'
  <2>1. PICK found \in ReadLatestPair(p) : referring' = [pair |-> p, found |-> found]
    BY <1>1 DEF ReferReads
  <2>2. found \in Decision \union {Null}
    BY ReadsAnswer
  <2>3. spoiled' \in BOOLEAN
    BY <1>1 DEF ReferReads, TypeOK
  <2> QED BY <1>1, <2>1, <2>2, <2>3 DEF ReferReads, TypeOK
<1>2. CASE ReferFills
  BY <1>2 DEF ReferFills, TypeOK
<1>3. CASE ReferEnqueues
  BY <1>3, QueuedIsNew DEF ReferEnqueues, TypeOK, JobsOK
<1>4. ASSUME NEW p \in Pair, Evict(p) PROVE TypeOK'
  BY <1>4 DEF Evict, TypeOK
<1>5. ASSUME NEW p \in Pair, FindsDecided(p) PROVE TypeOK'
  <2>1. moka' \in [Pair -> Decision \union {Null}]
    BY <1>5, ReadsAnswer DEF FindsDecided, TypeOK
  <2> QED BY <1>0, <1>5, <2>1, EndsFreesPair DEF FindsDecided, TypeOK, JobsOK
<1>6. ASSUME NEW p \in Pair, NeedsCall(p) PROVE TypeOK'
  <2>1. JobsOK'
    BY <1>0, <1>6, GoesKeepsJob DEF NeedsCall, At, Step
  <2> QED BY <1>6, <2>1 DEF NeedsCall, TypeOK, JobsOK
<1>7. ASSUME NEW p \in Pair, CallFails(p) PROVE TypeOK'
  BY <1>0, <1>7, EndsFreesPair DEF CallFails, TypeOK, JobsOK
<1>8. ASSUME NEW p \in Pair, CallAnswers(p) PROVE TypeOK'
  BY <1>8, AnswersDecide DEF CallAnswers, TypeOK, JobsOK
<1>9. ASSUME NEW p \in Pair, WriteRecord(p) PROVE TypeOK'
  <2>1. jobs[p].decision.id \in 1 .. MaxDecisions
    BY <1>9 DEF InHand, Working, WriteRecord, At, Decision
  <2>2. recorded' \subseteq 1 .. MaxDecisions
    BY <1>9, <2>1 DEF WriteRecord, TypeOK
  <2>3. JobsOK'
    BY <1>0, <1>9, GoesKeepsJob, EndsFreesPair DEF WriteRecord, At, Step
  <2> QED BY <1>9, <2>2, <2>3 DEF WriteRecord, TypeOK, JobsOK
<1>10. ASSUME NEW p \in Pair, WriteDecision(p) PROVE TypeOK'
  <2>1. jobs[p].decision \in Decision
    BY <1>10 DEF InHand, Working, WriteDecision, At
  <2>2. merges' \subseteq Decision
    BY <1>10, <2>1 DEF WriteDecision, TypeOK
  <2>3. JobsOK'
    BY <1>0, <1>10, GoesKeepsJob, EndsFreesPair DEF WriteDecision, At, Step
  <2> QED BY <1>10, <2>2, <2>3 DEF WriteDecision, TypeOK, JobsOK
<1>11. ASSUME NEW p \in Pair, FillCache(p) PROVE TypeOK'
  <2>1. jobs[p].decision \in Decision
    BY <1>11 DEF InHand, Working, FillCache, At
  <2>2. moka' \in [Pair -> Decision \union {Null}]
    BY <1>11, <2>1 DEF FillCache, TypeOK
  <2>3. JobsOK'
    BY <1>0, <1>11, GoesKeepsJob DEF FillCache, At, Step
  <2> QED BY <1>11, <2>2, <2>3 DEF FillCache, TypeOK, JobsOK
<1>12. ASSUME NEW p \in Pair, Hook(p) PROVE TypeOK'
  <2>1. aliases' \in [Template -> Template \union {Null}]
    BY <1>12, Kinds DEF Hook, TypeOK
  <2>2. JobsOK'
    BY <1>0, <1>12, EndsFreesPair DEF Hook
  <2> QED BY <1>12, <2>1, <2>2 DEF Hook, TypeOK, JobsOK
<1>13. ASSUME NEW p \in Pair, RemoveScans(p) PROVE TypeOK'
  <2>1. {RowKey(d) : d \in Rows(p)} \subseteq Bundle \X Model
    BY ReadsAnswer DEF RowKey, Decision
  <2>2. removing' \in Removal
    BY <1>13, <2>1 DEF RemoveScans, Removal
  <2> QED BY <1>13, <2>2 DEF RemoveScans, TypeOK
<1>15. CASE Removes
  BY <1>15, RemovalsTake DEF TypeOK
<1>14. ASSUME NEW b \in Bundle, Restart(b) PROVE TypeOK'
  <2>1. PICK rows \in ReadRows : /\ aliases' = [t \in Template |-> Loaded(rows, t)]
                                 /\ spoiled' = (spoiled \/ rows # merges)
    BY <1>14 DEF Restart
  <2>2. rows \subseteq Decision
    BY <2>1 DEF ReadRows, TypeOK
  <2>3. \A t \in Template : Loaded(rows, t) \in Template \union {Null}
    <3> SUFFICES ASSUME NEW t \in Template, Loaded(rows, t) # Null PROVE Loaded(rows, t) \in Template
      OBVIOUS
    <3>1. PICK d \in rows : d.pair = <<Loaded(rows, t), t>>
      BY <2>2, LoadedIsAMerge
    <3>2. d.pair \in Pair
      BY <2>2 DEF Decision
    <3> QED BY <3>1, <3>2, Kinds
  <2>4. restarts' \in 0 .. MaxRestarts
    BY <1>14, Kinds DEF Restart, TypeOK
  <2>5. aliases' \in [Template -> Template \union {Null}] /\ spoiled' \in BOOLEAN
    BY <2>1, <2>3 DEF TypeOK
  <2> QED BY <1>14, <2>4, <2>5 DEF Restart, TypeOK
<1> QED BY <1>1, <1>2, <1>3, <1>4, <1>5, <1>6, <1>7, <1>8, <1>9, <1>10, <1>11, <1>12, <1>13, <1>14,
           <1>15 DEF Next, MergeLoop, JudgeOne, Removes

-----------------------------------------------------------------------------
(* The alias table descends.                                               *)

LEMMA NextKeepsDescending ==
  ASSUME TypeOK, AliasesDescend, Next
  PROVE  AliasesDescend'
<1>1. ASSUME UNCHANGED aliases PROVE AliasesDescend'
  BY <1>1 DEF AliasesDescend
<1>2. ASSUME NEW p \in Pair, Hook(p) PROVE AliasesDescend'
  BY <1>2, Kinds DEF Hook, AliasesDescend, TypeOK
<1>3. CASE Removes
  BY <1>3, RemovalsTake DEF AliasesDescend
<1>4. ASSUME NEW b \in Bundle, Restart(b) PROVE AliasesDescend'
  <2>1. PICK rows \in ReadRows : aliases' = [t \in Template |-> Loaded(rows, t)]
    BY <1>4 DEF Restart
  <2>2. rows \subseteq Decision
    BY DEF ReadRows, TypeOK
  <2> SUFFICES ASSUME NEW t \in Template, aliases'[t] # Null PROVE aliases'[t] < t
    BY DEF AliasesDescend
  <2>3. PICK d \in rows : d.pair = <<aliases'[t], t>>
    BY <2>1, <2>2, LoadedIsAMerge
  <2>4. d.pair \in Pair
    BY <2>2 DEF Decision
  <2> QED BY <2>3, <2>4, Kinds
<1>5. ASSUME NEW p \in Pair,
             \/ ReferReads(p) \/ Evict(p) \/ MergeLoop(p) \/ CallFails(p) \/ CallAnswers(p)
             \/ WriteRecord(p) \/ WriteDecision(p) \/ FillCache(p) \/ RemoveScans(p)
      PROVE  UNCHANGED aliases
  BY <1>5 DEF ReferReads, Evict, MergeLoop, FindsDecided, NeedsCall, CallFails, CallAnswers,
              WriteRecord, WriteDecision, FillCache, RemoveScans
<1>6. ASSUME ReferFills \/ ReferEnqueues PROVE UNCHANGED aliases
  BY <1>6 DEF ReferFills, ReferEnqueues
<1> QED BY <1>1, <1>2, <1>3, <1>4, <1>5, <1>6 DEF Next, JudgeOne, Removes

-----------------------------------------------------------------------------
(* Every decision has its record.                                          *)

Provenance == InHand /\ Recorded

LEMMA NextKeepsProvenance ==
  ASSUME TypeOK, Provenance, Next
  PROVE  Provenance'
<1>0. JobsOK
  BY DEF TypeOK, JobsOK
<1>1. ASSUME NEW p \in Pair, ReferReads(p) PROVE Provenance'
  <2>1. PICK found \in ReadLatestPair(p) : referring' = [pair |-> p, found |-> found]
    BY <1>1 DEF ReferReads
  <2>2. found # Null => found \in merges /\ found.pair = p
    BY ReadsAnswer
  <2> QED BY <1>1, <2>1, <2>2 DEF ReferReads, Provenance, InHand, Recorded, Working
<1>2. CASE ReferFills
  <2>1. referring.pair \in Pair /\ \A q \in Pair : q # referring.pair => moka'[q] = moka[q]
    BY <1>2 DEF ReferFills, TypeOK
  <2>2. moka'[referring.pair] = referring.found
    BY <1>2, <2>1 DEF ReferFills, TypeOK
  <2> QED BY <1>2, <2>1, <2>2 DEF ReferFills, Provenance, InHand, Recorded, Working
<1>3. CASE ReferEnqueues
  BY <1>3, QueuedIsNew DEF ReferEnqueues, Provenance, InHand, Recorded, Working
<1>4. ASSUME NEW p \in Pair, Evict(p) PROVE Provenance'
  BY <1>4 DEF Evict, TypeOK, Provenance, InHand, Recorded, Working
<1>5. ASSUME NEW p \in Pair, FindsDecided(p) PROVE Provenance'
  <2>1. \/ UNCHANGED moka
        \/ \E d \in merges : d.pair = p /\ moka' = [moka EXCEPT ![p] = d]
    BY <1>5, ReadsAnswer DEF FindsDecided
  <2>2. Recorded'
    BY <1>5, <2>1 DEF FindsDecided, TypeOK, Provenance, Recorded
  <2>3. InHand'
    BY <1>0, <1>5, EndsFreesPair DEF FindsDecided, Provenance, InHand, Working
  <2> QED BY <2>2, <2>3 DEF Provenance
<1>6. ASSUME NEW p \in Pair, NeedsCall(p) PROVE Provenance'
  <2>1. /\ jobs'[p].step = "calling"
        /\ \A q \in Pair : q # p => jobs'[q] = jobs[q]
    BY <1>0, <1>6, GoesKeepsJob DEF NeedsCall, At, Step
  <2> QED BY <1>6, <2>1 DEF NeedsCall, Provenance, InHand, Recorded, Working
<1>7. ASSUME NEW p \in Pair, CallFails(p) PROVE Provenance'
  BY <1>0, <1>7, EndsFreesPair DEF CallFails, Provenance, InHand, Recorded, Working
<1>8. ASSUME NEW p \in Pair, CallAnswers(p) PROVE Provenance'
  BY <1>8, AnswersDecide DEF CallAnswers, Provenance, InHand, Recorded, Working
<1>9. ASSUME NEW p \in Pair, WriteRecord(p) PROVE Provenance'
  <2>1. recorded \subseteq recorded'
    BY <1>9 DEF WriteRecord
  <2>2. CASE Ends(p)
    BY <1>0, <1>9, <2>1, <2>2, EndsFreesPair DEF WriteRecord, Provenance, InHand, Recorded, Working
  <2>3. CASE recorded' = recorded \union {jobs[p].decision.id} /\ Goes(p, "decision")
    <3>1. /\ jobs'[p].step = "decision" /\ jobs'[p].decision = jobs[p].decision
          /\ \A q \in Pair : q # p => jobs'[q] = jobs[q]
      BY <1>0, <1>9, <2>3, GoesKeepsJob DEF WriteRecord, At, Step
    <3>2. Working(p, {"record", "decision", "cache", "alias"})
      BY <1>9 DEF WriteRecord, At, Working
    <3> QED BY <1>9, <2>1, <2>3, <3>1, <3>2 DEF WriteRecord, Provenance, InHand, Recorded, Working
  <2> QED BY <1>9, <2>2, <2>3 DEF WriteRecord
<1>10. ASSUME NEW p \in Pair, WriteDecision(p) PROVE Provenance'
  <2>1. CASE UNCHANGED merges /\ Ends(p)
    BY <1>0, <1>10, <2>1, EndsFreesPair DEF WriteDecision, Provenance, InHand, Recorded, Working
  <2>2. CASE merges' \subseteq merges \union {jobs[p].decision} /\ Goes(p, "cache")
    <3>1. /\ jobs'[p].step = "cache" /\ jobs'[p].decision = jobs[p].decision
          /\ \A q \in Pair : q # p => jobs'[q] = jobs[q]
      BY <1>0, <1>10, <2>2, GoesKeepsJob DEF WriteDecision, At, Step
    <3>2. Working(p, {"decision", "cache", "alias"}) /\ Working(p, {"record", "decision", "cache", "alias"})
      BY <1>10 DEF WriteDecision, At, Working
    <3> QED BY <1>10, <2>2, <3>1, <3>2 DEF WriteDecision, Provenance, InHand, Recorded, Working
  <2> QED BY <1>10, <2>1, <2>2 DEF WriteDecision
<1>11. ASSUME NEW p \in Pair, FillCache(p) PROVE Provenance'
  <2>1. /\ jobs'[p].step = "alias" /\ jobs'[p].decision = jobs[p].decision
        /\ \A q \in Pair : q # p => jobs'[q] = jobs[q]
    BY <1>0, <1>11, GoesKeepsJob DEF FillCache, At, Step
  <2>2. Working(p, {"decision", "cache", "alias"}) /\ Working(p, {"record", "decision", "cache", "alias"})
    BY <1>11 DEF FillCache, At, Working
  <2>3. moka'[p] = jobs[p].decision /\ \A q \in Pair : q # p => moka'[q] = moka[q]
    BY <1>11 DEF FillCache, TypeOK
  <2>4. InHand'
    BY <1>11, <2>1, <2>2 DEF FillCache, Provenance, InHand, Working
  <2>5. Recorded'
    BY <1>11, <2>2, <2>3 DEF FillCache, Provenance, InHand, Recorded
  <2> QED BY <2>4, <2>5 DEF Provenance
<1>12. ASSUME NEW p \in Pair, Hook(p) PROVE Provenance'
  BY <1>0, <1>12, EndsFreesPair DEF Hook, Provenance, InHand, Recorded, Working
<1>13. ASSUME NEW p \in Pair, RemoveScans(p) PROVE Provenance'
  BY <1>13 DEF RemoveScans, Provenance, InHand, Recorded, Working
<1>15. CASE Removes
  BY <1>15, RemovalsTake DEF Provenance, InHand, Recorded, Working
<1>14. ASSUME NEW b \in Bundle, Restart(b) PROVE Provenance'
  BY <1>14 DEF Restart, Provenance, InHand, Recorded, Working
<1> QED BY <1>1, <1>2, <1>3, <1>4, <1>5, <1>6, <1>7, <1>8, <1>9, <1>10, <1>11, <1>12, <1>13, <1>14,
           <1>15 DEF Next, MergeLoop, JudgeOne, Removes

\* A decision replaces the row of its key.
LEMMA NextKeepsKeyedOnce ==
  ASSUME TypeOK, KeyedOnce, Next
  PROVE  KeyedOnce'
<1>1. ASSUME merges' \subseteq merges PROVE KeyedOnce'
  BY <1>1 DEF KeyedOnce
<1>2. ASSUME NEW p \in Pair, WriteDecision(p) PROVE KeyedOnce'
  <2> DEFINE d == jobs[p].decision
  <2>1. CASE merges' = {e \in merges : ~SameKey(d, e)} \union {d}
    <3> HIDE DEF d
    <3>1. \A e \in merges' : e = d \/ (e \in merges /\ ~SameKey(d, e) /\ ~SameKey(e, d))
      BY <2>1 DEF SameKey
    <3> QED BY <3>1 DEF KeyedOnce
  <2> QED BY <1>1, <1>2, <2>1 DEF WriteDecision
<1>3. ASSUME NEW p \in Pair,
             \/ ReferReads(p) \/ Evict(p) \/ MergeLoop(p) \/ RemoveScans(p) \/ CallFails(p)
             \/ CallAnswers(p) \/ WriteRecord(p) \/ FillCache(p) \/ Hook(p)
      PROVE  merges' \subseteq merges
  BY <1>3 DEF ReferReads, Evict, MergeLoop, FindsDecided, NeedsCall, RemoveScans, CallFails,
              CallAnswers, WriteRecord, FillCache, Hook
<1>4. ASSUME ReferFills \/ ReferEnqueues \/ \E b \in Bundle : Restart(b) PROVE merges' \subseteq merges
  BY <1>4 DEF ReferFills, ReferEnqueues, Restart
<1>5. ASSUME Removes PROVE merges' \subseteq merges
  BY <1>5, RemovalsTake
<1> QED BY <1>1, <1>2, <1>3, <1>4, <1>5 DEF Next, JudgeOne, Removes

-----------------------------------------------------------------------------
(* A pair is decided once, until a read fails or merges are removed.       *)

LEMMA NextKeepsDecidedOnce ==
  ASSUME TypeOK, InHand, RemovalSpoils, DecidedOnce, Next
  PROVE  DecidedOnce'
<1>0. JobsOK
  BY DEF TypeOK, JobsOK
<1>1. ASSUME NEW p \in Pair, ReferReads(p) PROVE DecidedOnce'
  <2>1. PICK found \in ReadLatestPair(p) : referring' = [pair |-> p, found |-> found]
    BY <1>1 DEF ReferReads
  <2>2. found # Null => found \in merges
    BY ReadsAnswer
  <2> QED BY <1>1, <2>1, <2>2 DEF ReferReads, DecidedOnce, Rows, Working
<1>2. CASE ReferFills
  <2>1. /\ referring.pair \in Pair /\ moka'[referring.pair] = referring.found
        /\ \A q \in Pair : q # referring.pair => moka'[q] = moka[q]
    BY <1>2 DEF ReferFills, TypeOK
  <2> QED BY <1>2, <2>1 DEF ReferFills, DecidedOnce, Rows, Working
<1>3. CASE ReferEnqueues
  BY <1>3, QueuedIsNew DEF ReferEnqueues, DecidedOnce, Rows, Working
<1>4. ASSUME NEW p \in Pair, Evict(p) PROVE DecidedOnce'
  BY <1>4 DEF Evict, TypeOK, DecidedOnce, Rows, Working
<1>5. ASSUME NEW p \in Pair, FindsDecided(p) PROVE DecidedOnce'
  <2>1. \/ UNCHANGED moka
        \/ \E d \in merges : moka' = [moka EXCEPT ![p] = d]
    BY <1>5, ReadsAnswer DEF FindsDecided
  <2>2. \A q \in Pair : moka'[q] = moka[q] \/ moka'[q] \in merges
    BY <2>1 DEF TypeOK
  <2>3. \A q \in Pair : jobs'[q] = jobs[q] \/ jobs'[q] = Null
    BY <1>0, <1>5, EndsFreesPair DEF FindsDecided
  <2> QED BY <1>5, <2>2, <2>3 DEF FindsDecided, DecidedOnce, Rows, Working
<1>6. ASSUME NEW p \in Pair, NeedsCall(p) PROVE DecidedOnce'
  <2>1. /\ jobs'[p].step = "calling"
        /\ \A q \in Pair : q # p => jobs'[q] = jobs[q]
    BY <1>0, <1>6, GoesKeepsJob DEF NeedsCall, At, Step
  <2>2. ~spoiled' => ~spoiled /\ Rows(p) = {}
    BY <1>6 DEF NeedsCall
  <2> QED BY <1>6, <2>1, <2>2 DEF NeedsCall, DecidedOnce, Rows, Working
<1>7. ASSUME NEW p \in Pair, CallFails(p) PROVE DecidedOnce'
  BY <1>0, <1>7, EndsFreesPair DEF CallFails, DecidedOnce, Rows, Working
<1>8. ASSUME NEW p \in Pair, CallAnswers(p) PROVE DecidedOnce'
  <2>1. jobs[p] # Null /\ jobs[p].step = "calling"
    BY <1>8 DEF CallAnswers, At
  <2> QED BY <1>8, <2>1, AnswersDecide DEF CallAnswers, DecidedOnce, Rows, Working
<1>9. ASSUME NEW p \in Pair, WriteRecord(p) PROVE DecidedOnce'
  <2>1. jobs[p] # Null /\ jobs[p].step = "record"
    BY <1>9 DEF WriteRecord, At
  <2>2. CASE Ends(p)
    BY <1>0, <1>9, <2>2, EndsFreesPair DEF WriteRecord, DecidedOnce, Rows, Working
  <2>3. CASE Goes(p, "decision")
    BY <1>0, <1>9, <2>1, <2>3, GoesKeepsJob DEF Step, WriteRecord, DecidedOnce, Rows, Working
  <2> QED BY <1>9, <2>2, <2>3 DEF WriteRecord
<1>10. ASSUME NEW p \in Pair, WriteDecision(p) PROVE DecidedOnce'
  <2> DEFINE d == jobs[p].decision
  <2>1. jobs[p] # Null /\ jobs[p].step = "decision" /\ d.pair = p /\ UNCHANGED <<moka, referring, spoiled>>
    BY <1>10 DEF WriteDecision, At, InHand, Working
  <2>2. CASE UNCHANGED merges /\ Ends(p)
    BY <1>0, <2>1, <2>2, EndsFreesPair DEF DecidedOnce, Rows, Working
  <2>3. CASE merges' = {e \in merges : ~SameKey(d, e)} \union {d} /\ Goes(p, "cache")
    <3> SUFFICES ASSUME ~spoiled PROVE DecidedOnce'
      BY <2>1 DEF DecidedOnce
    <3>1. \A e \in merges : e.pair # p
      BY <2>1 DEF DecidedOnce, Working, Rows
    <3>2. merges' = merges \union {d}
      BY <2>1, <2>3, <3>1 DEF SameKey
    <3>3. /\ jobs'[p].step = "cache" /\ jobs'[p].decision = d
          /\ \A q \in Pair : q # p => jobs'[q] = jobs[q]
      BY <1>0, <2>1, <2>3, GoesKeepsJob DEF Step
    <3> HIDE DEF d
    <3>4. \A q \in Pair : q # p => Rows(q)' = Rows(q)
      BY <2>1, <3>2 DEF Rows
    <3>5. \A e, f \in merges' : e.pair = f.pair => e = f
      BY <2>1, <3>1, <3>2 DEF DecidedOnce
    <3>6. \A q \in Pair : Working(q, {"calling", "record", "decision"})' => Rows(q)' = {}
      BY <3>3, <3>4 DEF DecidedOnce, Working
    <3>7. \A q \in Pair : Working(q, {"cache", "alias"})' => jobs'[q].decision \in merges'
      BY <3>2, <3>3 DEF DecidedOnce, Working
    <3> QED BY <2>1, <3>2, <3>5, <3>6, <3>7 DEF DecidedOnce
  <2> QED BY <1>10, <2>2, <2>3 DEF WriteDecision
<1>11. ASSUME NEW p \in Pair, FillCache(p) PROVE DecidedOnce'
  <2>1. /\ jobs'[p].step = "alias" /\ jobs'[p].decision = jobs[p].decision
        /\ \A q \in Pair : q # p => jobs'[q] = jobs[q]
    BY <1>0, <1>11, GoesKeepsJob DEF FillCache, At, Step
  <2>2. Working(p, {"cache", "alias"})
    BY <1>11 DEF FillCache, At, Working
  <2>3. moka'[p] = jobs[p].decision /\ \A q \in Pair : q # p => moka'[q] = moka[q]
    BY <1>11 DEF FillCache, TypeOK
  <2> QED BY <1>11, <2>1, <2>2, <2>3 DEF FillCache, DecidedOnce, Rows, Working
<1>12. ASSUME NEW p \in Pair, Hook(p) PROVE DecidedOnce'
  BY <1>0, <1>12, EndsFreesPair DEF Hook, DecidedOnce, Rows, Working
<1>13. ASSUME NEW p \in Pair, RemoveScans(p) PROVE DecidedOnce'
  BY <1>13 DEF RemoveScans, DecidedOnce
<1>15. CASE Removes
  BY <1>15, RemovalsTake DEF RemovalSpoils, DecidedOnce
<1>14. ASSUME NEW b \in Bundle, Restart(b) PROVE DecidedOnce'
  <2>1. ~spoiled' => ~spoiled
    BY <1>14 DEF Restart
  <2> QED BY <1>14, <2>1 DEF Restart, DecidedOnce, Working
<1> QED BY <1>1, <1>2, <1>3, <1>4, <1>5, <1>6, <1>7, <1>8, <1>9, <1>10, <1>11, <1>12, <1>13, <1>14,
           <1>15 DEF Next, MergeLoop, JudgeOne, Removes

-----------------------------------------------------------------------------
(* Yeses and aliases.                                                      *)

\* Steps that touch neither the aliases nor the rows, and take no job off its
\* way to the alias.
LEMMA WaysAreKept ==
  ASSUME TypeOK, Hooked, UNCHANGED <<merges, aliases>>, ~spoiled' => ~spoiled,
         \A q \in Pair : Working(q, {"cache", "alias"}) => Working(q, {"cache", "alias"})'
  PROVE  Hooked'
<1>1. \A d \in merges : d.pair \in Pair
  BY DEF TypeOK, Decision
<1> QED BY <1>1 DEF Hooked

LEMMA NextKeepsHooked ==
  ASSUME TypeOK, InHand, DecidedOnce, RemovalSpoils, Hooked, Next
  PROVE  Hooked'
<1>0. JobsOK /\ \A d \in merges : d.pair \in Pair
  BY DEF TypeOK, JobsOK, Decision
<1> DEFINE OnWay(q) == Working(q, {"cache", "alias"})
<1>1. ASSUME NEW p \in Pair, ReferReads(p) \/ Evict(p) PROVE Hooked'
  <2>1. UNCHANGED <<merges, aliases, jobs>> /\ (~spoiled' => ~spoiled)
    <3>1. CASE ReferReads(p)
      BY <3>1 DEF ReferReads
    <3>2. CASE Evict(p)
      BY <3>2 DEF Evict
    <3> QED BY <1>1, <3>1, <3>2
  <2>2. \A q \in Pair : OnWay(q) => OnWay(q)'
    BY <2>1 DEF Working
  <2> QED BY <2>1, <2>2, WaysAreKept
<1>2. CASE ReferFills
  <2>1. \A q \in Pair : OnWay(q) => OnWay(q)'
    BY <1>2 DEF ReferFills, Working
  <2> QED BY <1>2, <2>1, WaysAreKept DEF ReferFills
<1>3. CASE ReferEnqueues
  <2>1. \A q \in Pair : OnWay(q) => OnWay(q)'
    BY <1>3, QueuedIsNew DEF Working
  <2> QED BY <1>3, <2>1, WaysAreKept DEF ReferEnqueues
<1>4. ASSUME NEW p \in Pair, FindsDecided(p) \/ CallFails(p) PROVE Hooked'
  <2>1. UNCHANGED <<merges, aliases, spoiled>> /\ Ends(p) /\ jobs[p].step \in {"queued", "calling"}
    BY <1>4 DEF FindsDecided, CallFails, At
  <2>2. \A q \in Pair : OnWay(q) => OnWay(q)'
    BY <1>0, <2>1, EndsFreesPair DEF Working
  <2> QED BY <2>1, <2>2, WaysAreKept
<1>5. ASSUME NEW p \in Pair, NeedsCall(p) PROVE Hooked'
  <2>1. \A q \in Pair : OnWay(q) => OnWay(q)'
    BY <1>0, <1>5, GoesKeepsJob DEF NeedsCall, At, Step, Working
  <2> QED BY <1>5, <2>1, WaysAreKept DEF NeedsCall
<1>6. ASSUME NEW p \in Pair, CallAnswers(p) PROVE Hooked'
  <2>1. \A q \in Pair : OnWay(q) => OnWay(q)'
    BY <1>6, AnswersDecide DEF CallAnswers, At, Working
  <2> QED BY <1>6, <2>1, WaysAreKept DEF CallAnswers
<1>7. ASSUME NEW p \in Pair, WriteRecord(p) PROVE Hooked'
  <2>1. \A q \in Pair : q # p => jobs'[q] = jobs[q]
    BY <1>0, <1>7, GoesKeepsJob, EndsFreesPair DEF WriteRecord, At, Step
  <2>2. \A q \in Pair : OnWay(q) => OnWay(q)'
    BY <1>7, <2>1 DEF WriteRecord, At, Working
  <2> QED BY <1>7, <2>2, WaysAreKept DEF WriteRecord
<1>8. ASSUME NEW p \in Pair, WriteDecision(p) PROVE Hooked'
  <2> DEFINE d == jobs[p].decision
  <2>1. /\ jobs[p] # Null /\ jobs[p].step = "decision" /\ d.pair = p
        /\ UNCHANGED <<aliases, spoiled>>
    BY <1>8 DEF WriteDecision, At, InHand, Working
  <2>2. CASE UNCHANGED merges /\ Ends(p)
    <3>1. \A q \in Pair : OnWay(q) => OnWay(q)'
      BY <1>0, <2>1, <2>2, EndsFreesPair DEF Working
    <3> QED BY <2>1, <2>2, <3>1, WaysAreKept
  <2>3. CASE merges' = {e \in merges : ~SameKey(d, e)} \union {d} /\ Goes(p, "cache")
    <3> SUFFICES ASSUME ~spoiled PROVE Hooked'
      BY <2>1 DEF Hooked
    <3>1. \A e \in merges : e.pair # p
      BY <2>1 DEF DecidedOnce, Working, Rows
    <3>2. merges' = merges \union {d}
      BY <2>1, <2>3, <3>1 DEF SameKey
    <3>3. OnWay(p)' /\ \A q \in Pair : q # p => jobs'[q] = jobs[q]
      BY <1>0, <2>1, <2>3, GoesKeepsJob DEF Step, Working
    <3> HIDE DEF d
    <3>4. \A q \in Pair : OnWay(q) => OnWay(q)'
      BY <3>3 DEF Working
    <3> QED BY <1>0, <2>1, <3>2, <3>3, <3>4 DEF Hooked
  <2> QED BY <1>8, <2>2, <2>3 DEF WriteDecision
<1>9. ASSUME NEW p \in Pair, FillCache(p) PROVE Hooked'
  <2>1. \A q \in Pair : OnWay(q) => OnWay(q)'
    BY <1>0, <1>9, GoesKeepsJob DEF FillCache, At, Step, Working
  <2> QED BY <1>9, <2>1, WaysAreKept DEF FillCache
<1>10. ASSUME NEW p \in Pair, Hook(p) PROVE Hooked'
  <2> DEFINE d == jobs[p].decision
  <2>0. UNCHANGED <<merges, spoiled>> /\ Ends(p)
    BY <1>10 DEF Hook
  <2> SUFFICES ASSUME ~spoiled PROVE Hooked'
    BY <2>0 DEF Hooked
  <2>1. d \in merges /\ d.pair = p
    BY <1>10 DEF Hook, At, Working, InHand, DecidedOnce
  <2>2. \A e \in merges : e.pair = p => e = d
    BY <2>1 DEF DecidedOnce
  <2>3. p[1] \in Template /\ p[2] \in Template /\ p = <<p[1], p[2]>> /\ p[1] # Null
    BY Kinds
  <2>4. aliases' = IF d.merged THEN [aliases EXCEPT ![p[2]] = p[1]] ELSE aliases
    BY <1>10 DEF Hook
  <2>5. \A q \in Pair : q # p => jobs'[q] = jobs[q]
    BY <1>0, <2>0, EndsFreesPair
  <2> HIDE DEF d
  <2>6. /\ d.merged => aliases'[p[2]] = p[1]
        /\ \A t \in Template : ~d.merged \/ t # p[2] => aliases'[t] = aliases[t]
    BY <2>3, <2>4 DEF TypeOK
  <2>7. \A t \in Template : aliases'[t] # Null =>
          \E e \in merges : e.merged /\ e.pair = <<aliases'[t], t>>
    BY <2>1, <2>3, <2>6 DEF Hooked
  <2>8. ASSUME NEW e \in merges, e.merged, aliases'[e.pair[2]] = Null PROVE OnWay(e.pair)'
    <3>1. e.pair \in Pair /\ e.pair[2] \in Template
      BY <1>0, Kinds
    <3>2. e.pair # p /\ aliases[e.pair[2]] = Null
      BY <2>2, <2>3, <2>6, <2>8, <3>1
    <3>3. OnWay(e.pair)
      BY <2>8, <3>2 DEF Hooked
    <3> QED BY <2>5, <3>1, <3>2, <3>3 DEF Working
  <2> QED BY <2>0, <2>7, <2>8 DEF Hooked
<1>11. ASSUME NEW p \in Pair, RemoveScans(p) PROVE Hooked'
  BY <1>11 DEF RemoveScans, Hooked
<1>13. CASE Removes
  BY <1>13, RemovalsTake DEF RemovalSpoils, Hooked
<1>12. ASSUME NEW b \in Bundle, Restart(b) PROVE Hooked'
  <2>1. PICK rows \in ReadRows : /\ aliases' = [t \in Template |-> Loaded(rows, t)]
                                 /\ spoiled' = (spoiled \/ rows # merges)
    BY <1>12 DEF Restart
  <2> SUFFICES ASSUME rows = merges PROVE Hooked'
    BY <2>1 DEF Hooked
  <2>2. merges' = merges /\ merges \subseteq Decision
    BY <1>12 DEF Restart, TypeOK
  <2>3. \A t \in Template : aliases'[t] # Null =>
          \E d \in merges : d.merged /\ d.pair = <<aliases'[t], t>>
    BY <2>1, <2>2, LoadedIsAMerge
  <2>4. \A d \in merges : d.merged => aliases'[d.pair[2]] # Null
    BY <1>0, <2>1, <2>2, LoadedIsAMerge, Kinds
  <2> QED BY <2>2, <2>3, <2>4 DEF Hooked
<1> QED BY <1>1, <1>2, <1>3, <1>4, <1>5, <1>6, <1>7, <1>8, <1>9, <1>10, <1>11, <1>12, <1>13
        DEF Next, MergeLoop, JudgeOne, Removes

\* A removal spoils as it begins, and nothing is unspoiled.
LEMMA NextKeepsSpoiled ==
  ASSUME TypeOK, RemovalSpoils, Next
  PROVE  RemovalSpoils'
<1>1. ASSUME NEW p \in Pair, ReferReads(p) \/ Evict(p) \/ MergeLoop(p)
      PROVE  UNCHANGED removing /\ (spoiled => spoiled')
  <2>1. CASE ReferReads(p)
    BY <2>1 DEF ReferReads
  <2>2. CASE Evict(p)
    BY <2>2 DEF Evict
  <2>3. CASE FindsDecided(p)
    BY <2>3 DEF FindsDecided
  <2>4. CASE NeedsCall(p)
    BY <2>4 DEF NeedsCall
  <2> QED BY <1>1, <2>1, <2>2, <2>3, <2>4 DEF MergeLoop
<1>6. ASSUME NEW p \in Pair, JudgeOne(p)
      PROVE  UNCHANGED <<removing, spoiled>>
  BY <1>6 DEF JudgeOne, CallFails, CallAnswers, WriteRecord, WriteDecision, FillCache, Hook
<1>2. ASSUME ReferFills \/ ReferEnqueues PROVE UNCHANGED <<removing, spoiled>>
  BY <1>2 DEF ReferFills, ReferEnqueues
<1>3. ASSUME NEW p \in Pair, RemoveScans(p) PROVE spoiled'
  BY <1>3 DEF RemoveScans
<1>4. ASSUME Removes PROVE spoiled'
  BY <1>4, RemovalsTake DEF RemovalSpoils
<1>5. ASSUME NEW b \in Bundle, Restart(b) PROVE removing' = Null
  BY <1>5 DEF Restart
<1> QED BY <1>1, <1>2, <1>3, <1>4, <1>5, <1>6 DEF Next, Removes, RemovalSpoils

-----------------------------------------------------------------------------
LEMMA NextIndInv == IndInv /\ [Next]_vars => IndInv'
<1> SUFFICES ASSUME IndInv, [Next]_vars PROVE IndInv'
  OBVIOUS
<1>1. CASE Next
  BY <1>1, NextKeepsTypeOK, NextKeepsDescending, NextKeepsProvenance, NextKeepsKeyedOnce,
     NextKeepsDecidedOnce, NextKeepsHooked, NextKeepsSpoiled DEF IndInv, Provenance
<1>2. CASE UNCHANGED vars
  BY <1>2 DEF vars, IndInv, TypeOK, AliasesDescend, InHand, Recorded, KeyedOnce,
               DecidedOnce, Hooked, RemovalSpoils, Working, Rows
<1> QED BY <1>1, <1>2

\* The inductive invariant holds at every step of every run.
THEOREM InductiveInvariant == Spec => []IndInv
  BY InitIndInv, NextIndInv, PTL DEF Spec

\* The alias table is what was decided, whatever write fails and wherever the
\* process ends, until a read fails over a row or a removal begins: no merge
\* without a persisted and recorded yes, and no yes of the running bundle left
\* without its merge (judge_one's order of writes, load_aliases).
THEOREM TableHolds == Spec => []AliasesMirrorDecisions
<1>1. IndInv => AliasesMirrorDecisions
  <2> SUFFICES ASSUME IndInv PROVE AliasesMirrorDecisions
    OBVIOUS
  <2>1. AliasesAreDecided
    BY DEF IndInv, Hooked, Recorded, AliasesAreDecided
  <2>2. MergedIsHooked
    BY DEF IndInv, Hooked, Working, MergedIsHooked
  <2> QED BY <2>1, <2>2 DEF IndInv, AliasesMirrorDecisions
<1> QED BY <1>1, InductiveInvariant, PTL

\* moka answers as the store would: its three fills, by refer, by merge_loop and
\* by judge_one, leave nothing stale in it, until a read fails over a row or a
\* removal begins.
THEOREM CacheAgrees == Spec => []MokaIsNewest
<1>1. IndInv => MokaIsNewest
  <2> SUFFICES ASSUME IndInv, ~spoiled, NEW p \in Pair, moka[p] # Null
               PROVE  moka[p] = Newest(p)
    BY DEF MokaIsNewest
  <2>1. moka[p] \in Rows(p)
    BY DEF IndInv, DecidedOnce, Recorded, Rows
  <2>2. \A d \in Rows(p) : d = moka[p]
    BY <2>1 DEF IndInv, DecidedOnce, Rows
  <2>3. moka[p].id \in Nat
    BY <2>1, ReadsAnswer DEF IndInv, Decision
  <2>4. \A e \in Rows(p) : e.id <= moka[p].id
    BY <2>2, <2>3
  <2> QED BY <2>1, <2>2, <2>4 DEF Newest
<1> QED BY <1>1, InductiveInvariant, PTL

\* Until a read fails over a row or a removal begins, no call is spent on a pair
\* that is decided under the running bundle (merge_loop's second look).
THEOREM NoSecondCall == Spec => DecidedIsNotReasked
<1> DEFINE Once == \A p \in Pair : ~spoiled' /\ ~At(p, "calling") /\ At(p, "calling")' => {d \in Rows(p) : d.bundle = bundle} = {}
<1>1. IndInv /\ [Next]_vars => [Once]_vars
  <2> SUFFICES ASSUME IndInv, [Next]_vars, NEW p \in Pair,
                      ~spoiled', ~At(p, "calling"), At(p, "calling")'
               PROVE  Rows(p) = {}
    OBVIOUS
  <2>0. TypeOK /\ JobsOK
    BY DEF IndInv, TypeOK, JobsOK
  <2>1. ASSUME UNCHANGED jobs PROVE FALSE
    BY <2>1 DEF At
  <2>2. ASSUME NEW q \in Pair, Ends(q) PROVE FALSE
    BY <2>0, <2>2, EndsFreesPair DEF At
  <2>3. ASSUME NEW q \in Pair, jobs[q] # Null, NEW step \in Step \ {"calling"}, Goes(q, step) PROVE FALSE
    BY <2>0, <2>3, GoesKeepsJob DEF At
  <2>4. ASSUME NEW q \in Pair, NeedsCall(q) PROVE Rows(p) = {}
    <3>1. q = p
      BY <2>0, <2>4, GoesKeepsJob DEF NeedsCall, At, Step
    <3>2. Rows(p) = {}
      BY <2>4, <3>1 DEF NeedsCall
    <3> QED BY <3>2
  <2>5. ASSUME NEW q \in Pair, CallAnswers(q) PROVE FALSE
    BY <2>0, <2>5, AnswersDecide DEF At
  <2>6. ASSUME ReferEnqueues PROVE FALSE
    BY <2>0, <2>6, QueuedIsNew DEF At
  <2>7. ASSUME NEW q \in Pair, WriteRecord(q) \/ WriteDecision(q) \/ FillCache(q) PROVE FALSE
    BY <2>2, <2>3, <2>7 DEF WriteRecord, WriteDecision, FillCache, At, Step
  <2>8. ASSUME NEW q \in Pair, FindsDecided(q) \/ CallFails(q) \/ Hook(q) PROVE FALSE
    BY <2>2, <2>8 DEF FindsDecided, CallFails, Hook
  <2>9. ASSUME NEW q \in Pair, ReferReads(q) \/ Evict(q) \/ RemoveScans(q) PROVE FALSE
    BY <2>1, <2>9 DEF ReferReads, Evict, RemoveScans
  <2>10. ASSUME ReferFills \/ UNCHANGED vars PROVE FALSE
    BY <2>1, <2>10 DEF ReferFills, vars
  <2>11. ASSUME NEW b \in Bundle, Restart(b) PROVE FALSE
    BY <2>11 DEF Restart, At
  <2>12. ASSUME Removes PROVE FALSE
    BY <2>0, <2>1, <2>12, RemovalsTake
  <2> QED BY <2>4, <2>5, <2>6, <2>7, <2>8, <2>9, <2>10, <2>11, <2>12
          DEF Next, MergeLoop, JudgeOne, Removes
<1> QED BY <1>1, InductiveInvariant, PTL DEF Spec, DecidedIsNotReasked

-----------------------------------------------------------------------------
(* Resolving ends at a template with no alias or has spent its hops going  *)
(* down, and an answer of it moves by a merge.                             *)

\* Tables of aliases.
Table == [Template -> Template \union {Null}]
Descends(a) == \A t \in Template : a[t] # Null => a[t] < t

\* One hop down a table.
Hop(a, t) == IF a[t] = Null THEN t ELSE a[t]

\* w goes down a table from t, hop by hop; it walks when it stays on templates.
Hops(a, w, t) == /\ DOMAIN w = 0 .. MaxHops
                 /\ w[0] = t
                 /\ \A n \in 1 .. MaxHops : w[n] = Hop(a, w[n - 1])

Walk(a, w, t) == w \in [0 .. MaxHops -> Template] /\ Hops(a, w, t)

\* resolve, in a table.
ResolveIn(a, t) ==
  LET walk[n \in 0 .. MaxHops] ==
        IF n = 0 THEN t ELSE IF a[walk[n - 1]] = Null THEN walk[n - 1] ELSE a[walk[n - 1]]
  IN  walk[MaxHops]

-----------------------------------------------------------------------------
(* resolve takes a walk.                                                   *)

\* The recursion of resolve defines a function.
LEMMA WalkExists ==
  ASSUME NEW a \in Table, NEW t \in Template
  PROVE  \E w : Walk(a, w, t)
<1> DEFINE Reaches(m) == \E w \in [0 .. m -> Template] :
                              w[0] = t /\ \A n \in 1 .. m : w[n] = Hop(a, w[n - 1])
           Bad == {m \in Nat : ~Reaches(m)}
<1>1. \A x \in Template : Hop(a, x) \in Template
  BY DEF Table, Hop
<1>2. Reaches(0)
  <2> DEFINE v == [n \in 0 .. 0 |-> t]
  <2>1. v \in [0 .. 0 -> Template] /\ v[0] = t
    OBVIOUS
  <2>2. 1 .. 0 = {}
    OBVIOUS
  <2> HIDE DEF v
  <2> QED BY <2>1, <2>2
<1>3. ASSUME NEW m \in Nat, Reaches(m) PROVE Reaches(m + 1)
  <2>1. PICK w \in [0 .. m -> Template] : w[0] = t /\ \A n \in 1 .. m : w[n] = Hop(a, w[n - 1])
    BY <1>3
  <2> DEFINE v == [n \in 0 .. m + 1 |-> IF n = m + 1 THEN Hop(a, w[m]) ELSE w[n]]
  <2>2. w[m] \in Template /\ Hop(a, w[m]) \in Template
    BY <1>1, <2>1
  <2>3. v \in [0 .. m + 1 -> Template]
    BY <2>1, <2>2
  <2>4. v[0] = t /\ \A n \in 0 .. m : v[n] = w[n]
    BY <2>1
  <2>5. v[m + 1] = Hop(a, v[m])
    BY <2>4
  <2>6. ASSUME NEW n \in 1 .. m + 1 PROVE v[n] = Hop(a, v[n - 1])
    <3>1. CASE n = m + 1
      BY <2>5, <3>1
    <3>2. CASE n \in 1 .. m
      BY <2>1, <2>4, <3>2
    <3> QED BY <3>1, <3>2
  <2> HIDE DEF v
  <2> QED BY <2>3, <2>4, <2>6
<1>4. Bad = {}
  <2> SUFFICES ASSUME Bad # {} PROVE FALSE
    OBVIOUS
  <2> HIDE DEF Reaches
  <2>1. PICK x \in Bad : \A y \in Bad : x <= y
    BY LeastNumber
  <2>2. x \in Nat /\ ~Reaches(x) /\ x # 0
    BY <1>2
  <2>3. x - 1 \in Nat /\ x - 1 \notin Bad
    BY <2>1, <2>2
  <2> QED BY <1>3, <2>2, <2>3
<1>5. Reaches(MaxHops)
  <2> HIDE DEF Reaches
  <2> QED BY <1>4, Kinds
<1> QED BY <1>5 DEF Walk, Hops

\* And there is one walk from a template.
LEMMA WalkIsOne ==
  ASSUME NEW a, NEW t, NEW v, NEW w, Walk(a, w, t), Hops(a, v, t)
  PROVE  \A n \in 0 .. MaxHops : v[n] = w[n]
<1> DEFINE Apart == {n \in 0 .. MaxHops : v[n] # w[n]}
<1> SUFFICES ASSUME Apart # {} PROVE FALSE
  OBVIOUS
<1>1. PICK x \in Apart : \A y \in Apart : x <= y
  <2>1. Apart \subseteq Nat
    OBVIOUS
  <2> HIDE DEF Apart
  <2> QED BY <2>1, LeastNumber
<1>2. x \in 0 .. MaxHops /\ v[x] # w[x] /\ x # 0
  BY DEF Walk, Hops
<1>3. x - 1 \in 0 .. MaxHops /\ x \in 1 .. MaxHops /\ x - 1 \notin Apart
  BY <1>1, <1>2, Kinds
<1> QED BY <1>2, <1>3 DEF Walk, Hops

LEMMA ResolveWalks ==
  ASSUME NEW a \in Table, NEW t \in Template, NEW w, Walk(a, w, t)
  PROVE  ResolveIn(a, t) = w[MaxHops]
<1> DEFINE Unfold(f) == [n \in 0 .. MaxHops |->
                           IF n = 0 THEN t
                           ELSE IF a[f[n - 1]] = Null THEN f[n - 1] ELSE a[f[n - 1]]]
           v == CHOOSE f : f = Unfold(f)
<1>1. w = Unfold(w)
  <2>1. \A n \in 0 .. MaxHops : w[n] = Unfold(w)[n]
    BY Kinds DEF Walk, Hops, Hop
  <2>2. w = [n \in 0 .. MaxHops |-> w[n]]
    BY DEF Walk, Hops
  <2> QED BY <2>1, <2>2
<1>2. v = Unfold(v)
  <2> HIDE DEF Unfold
  <2> QED BY <1>1
<1>3. ResolveIn(a, t) = v[MaxHops]
  BY DEF ResolveIn
<1> HIDE DEF v
<1>4. Hops(a, v, t)
  <2>1. MaxHops \in Nat
    BY Kinds
  <2>2. DOMAIN v = 0 .. MaxHops /\ v[0] = t
    BY <1>2, <2>1
  <2>3. ASSUME NEW n \in 1 .. MaxHops PROVE v[n] = Hop(a, v[n - 1])
    <3>1. n \in 0 .. MaxHops /\ n # 0
      BY <2>1
    <3>2. v[n] = Unfold(v)[n]
      <4> HIDE DEF Unfold
      <4> QED BY <1>2
    <3> QED BY <3>1, <3>2 DEF Hop
  <2> QED BY <2>2, <2>3 DEF Hops
<1>5. v[MaxHops] = w[MaxHops]
  <2>1. \A n \in 0 .. MaxHops : v[n] = w[n]
    BY <1>4, WalkIsOne
  <2> QED BY <2>1, Kinds
<1> QED BY <1>3, <1>5

-----------------------------------------------------------------------------
(* A walk down a table that descends reaches a root, or goes down at every *)
(* hop.                                                                    *)

\* A walk stays at a root.
LEMMA WalkStays ==
  ASSUME NEW a, NEW t, NEW w, Walk(a, w, t), NEW k \in 0 .. MaxHops, a[w[k]] = Null
  PROVE  \A n \in k .. MaxHops : w[n] = w[k]
<1> DEFINE Off == {n \in k .. MaxHops : w[n] # w[k]}
<1> SUFFICES ASSUME Off # {} PROVE FALSE
  OBVIOUS
<1>1. Off \subseteq Nat
  BY Kinds
<1>2. PICK x \in Off : \A y \in Off : x <= y
  <2> HIDE DEF Off
  <2> QED BY <1>1, LeastNumber
<1>3. x \in k .. MaxHops /\ x # k /\ x - 1 \in k .. MaxHops /\ x - 1 \notin Off /\ x \in 1 .. MaxHops
  BY <1>1, <1>2, Kinds
<1>4. w[x] = Hop(a, w[k])
  BY <1>3 DEF Walk, Hops
<1> QED BY <1>3, <1>4 DEF Hop

\* A walk goes down, or stays.
LEMMA WalkDescends ==
  ASSUME NEW a \in Table, Descends(a), NEW t \in Template, NEW w, Walk(a, w, t)
  PROVE  \A i \in 0 .. MaxHops : \A j \in i .. MaxHops :
           /\ w[i] \in Nat /\ w[j] <= w[i]
           /\ (i < j /\ a[w[i]] # Null) => w[j] < w[i]
<1>1. \A n \in 0 .. MaxHops : w[n] \in Template /\ w[n] \in Nat
  BY Kinds DEF Walk, Hops
<1>2. \A n \in 1 .. MaxHops : n - 1 \in 0 .. MaxHops /\ n \in 0 .. MaxHops
  BY Kinds
<1>3. \A n \in 1 .. MaxHops : w[n] <= w[n - 1] /\ (a[w[n - 1]] # Null => w[n] < w[n - 1])
  BY <1>1, <1>2 DEF Walk, Hops, Hop, Descends
<1> SUFFICES ASSUME NEW i \in 0 .. MaxHops
             PROVE  \A j \in i .. MaxHops : w[j] <= w[i] /\ (i < j /\ a[w[i]] # Null => w[j] < w[i])
  BY <1>1
<1> DEFINE Up == {j \in i .. MaxHops : ~(w[j] <= w[i] /\ (i < j /\ a[w[i]] # Null => w[j] < w[i]))}
<1> SUFFICES ASSUME Up # {} PROVE FALSE
  OBVIOUS
<1>4. Up \subseteq Nat
  BY Kinds
<1>5. PICK x \in Up : \A y \in Up : x <= y
  <2> HIDE DEF Up
  <2> QED BY <1>4, LeastNumber
<1>6. x \in i .. MaxHops /\ x # i
  BY <1>1, <1>5
<1>7. x - 1 \in i .. MaxHops /\ x - 1 \notin Up /\ x \in 1 .. MaxHops /\ x \in 0 .. MaxHops /\ x - 1 \in 0 .. MaxHops
  BY <1>4, <1>5, <1>6, Kinds
<1>8. w[x - 1] <= w[i] /\ (i < x - 1 /\ a[w[i]] # Null => w[x - 1] < w[i])
  BY <1>7
<1>9. w[x] <= w[i] /\ (i < x /\ a[w[i]] # Null => w[x] < w[i])
  <2>1. w[x] <= w[x - 1] /\ (a[w[x - 1]] # Null => w[x] < w[x - 1])
    BY <1>3, <1>7
  <2>2. w[x] \in Nat /\ w[x - 1] \in Nat /\ w[i] \in Nat
    BY <1>1, <1>7
  <2>3. CASE x - 1 = i
    BY <2>1, <2>2, <2>3
  <2>4. CASE i < x - 1
    BY <1>8, <2>1, <2>2, <2>4
  <2> QED BY <1>7, <2>3, <2>4
<1> QED BY <1>5, <1>9

LEMMA HopsSpent ==
  ASSUME NEW a \in Table, Descends(a), NEW t \in Template, NEW w, Walk(a, w, t),
         a[w[MaxHops]] # Null
  PROVE  w[MaxHops] + MaxHops <= t
<1>1. \A n \in 0 .. MaxHops : w[n] \in Template /\ w[n] \in Nat
  BY Kinds DEF Walk, Hops
<1>2. ASSUME NEW n \in 0 .. MaxHops PROVE a[w[n]] # Null
  BY Kinds, WalkStays
<1>3. ASSUME NEW n \in 1 .. MaxHops PROVE w[n] < w[n - 1]
  <2>1. n - 1 \in 0 .. MaxHops /\ w[n] = Hop(a, w[n - 1])
    BY Kinds DEF Walk, Hops
  <2> QED BY <1>1, <1>2, <2>1 DEF Hop, Descends
<1> DEFINE High == {n \in 0 .. MaxHops : ~(w[n] + n <= t)}
<1>4. High = {}
  <2> SUFFICES ASSUME High # {} PROVE FALSE
    OBVIOUS
  <2>1. PICK x \in High : \A y \in High : x <= y
    <3>1. High \subseteq Nat
      BY Kinds
    <3> HIDE DEF High
    <3> QED BY <3>1, LeastNumber
  <2>2. w[0] = t /\ t \in Nat
    BY Kinds DEF Walk, Hops
  <2>3. x \in 1 .. MaxHops /\ x - 1 \in 0 .. MaxHops /\ x - 1 \notin High
    BY <2>1, <2>2, Kinds
  <2>4. w[x - 1] + (x - 1) <= t /\ w[x] < w[x - 1]
    BY <1>3, <2>3
  <2> QED BY <1>1, <2>1, <2>2, <2>3, <2>4
<1> QED BY <1>4, Kinds

\* A walk ends where the walk from any template on it ends.
LEMMA SameEnd ==
  ASSUME NEW a \in Table, NEW t, NEW w, Walk(a, w, t), a[w[MaxHops]] = Null,
         NEW k \in 0 .. MaxHops, NEW u, Walk(a, u, w[k])
  PROVE  u[MaxHops] = w[MaxHops]
<1> DEFINE v == [n \in 0 .. MaxHops |-> IF n + k <= MaxHops THEN w[n + k] ELSE w[MaxHops]]
<1>1. DOMAIN v = 0 .. MaxHops /\ v[0] = w[k]
  BY Kinds
<1>2. ASSUME NEW n \in 1 .. MaxHops PROVE v[n] = Hop(a, v[n - 1])
  <2>1. n \in 0 .. MaxHops /\ n - 1 \in 0 .. MaxHops
    BY Kinds
  <2>2. CASE n + k <= MaxHops
    <3>1. n + k \in 1 .. MaxHops /\ (n + k) - 1 = (n - 1) + k
      BY <2>1, <2>2, Kinds
    <3>2. w[n + k] = Hop(a, w[(n - 1) + k])
      BY <3>1 DEF Walk, Hops
    <3>3. v[n] = w[n + k] /\ v[n - 1] = w[(n - 1) + k]
      BY <2>1, <2>2, Kinds
    <3> QED BY <3>2, <3>3
  <2>3. CASE n + k > MaxHops
    <3>1. v[n] = w[MaxHops]
      BY <2>1, <2>3, Kinds
    <3>2. v[n - 1] = w[MaxHops]
      <4>1. CASE (n - 1) + k <= MaxHops
        <5>1. (n - 1) + k = MaxHops
          BY <2>1, <2>3, <4>1, Kinds
        <5> QED BY <2>1, <5>1, Kinds
      <4>2. CASE (n - 1) + k > MaxHops
        BY <2>1, <4>2, Kinds
      <4> QED BY <2>1, <4>1, <4>2, Kinds
    <3> QED BY <3>1, <3>2 DEF Hop
  <2> QED BY <2>1, <2>2, <2>3, Kinds
<1>3. v[MaxHops] = w[MaxHops]
  <2>1. MaxHops \in 0 .. MaxHops
    BY Kinds
  <2>2. MaxHops + k <= MaxHops => MaxHops + k = MaxHops
    BY Kinds
  <2> QED BY <2>1, <2>2
<1> HIDE DEF v
<1>4. v[MaxHops] = u[MaxHops]
  <2>1. Hops(a, v, w[k])
    BY <1>1, <1>2 DEF Hops
  <2>2. \A n \in 0 .. MaxHops : v[n] = u[n]
    BY <2>1, WalkIsOne
  <2> QED BY <2>2, Kinds
<1> QED BY <1>3, <1>4

\* So does resolving.
LEMMA ResolvesAlike ==
  ASSUME NEW a \in Table, NEW t \in Template, a[ResolveIn(a, t)] = Null,
         NEW w, Walk(a, w, t), NEW k \in 0 .. MaxHops
  PROVE  ResolveIn(a, w[k]) = ResolveIn(a, t)
<1>1. w[k] \in Template
  BY DEF Walk, Hops
<1>2. PICK u : Walk(a, u, w[k])
  BY <1>1, WalkExists
<1>3. a[w[MaxHops]] = Null
  BY ResolveWalks
<1>4. ResolveIn(a, w[k]) = u[MaxHops] /\ ResolveIn(a, t) = w[MaxHops]
  BY <1>1, <1>2, ResolveWalks
<1> QED BY <1>2, <1>3, <1>4, SameEnd

-----------------------------------------------------------------------------
\* Resolution on the line path always ends, at a root or after MAX_ALIAS_HOPS
\* hops down, for any number of templates and any table of merges, removals and
\* reloads in any order (resolve, load_aliases).
THEOREM ResolutionEnds == Spec => []AliasesResolve
<1>1. IndInv => AliasesResolve
  <2> SUFFICES ASSUME IndInv, NEW t \in Template, aliases[Resolve(t)] # Null
               PROVE  Resolve(t) + MaxHops <= t
    BY DEF IndInv, AliasesResolve, ResolveEnds
  <2>1. aliases \in Table /\ Descends(aliases)
    BY DEF IndInv, TypeOK, AliasesDescend, Table, Descends
  <2>2. PICK w : Walk(aliases, w, t)
    BY <2>1, WalkExists
  <2>3. Resolve(t) = ResolveIn(aliases, t)
    BY DEF Resolve, ResolveIn
  <2> QED BY <2>1, <2>2, <2>3, ResolveWalks, HopsSpent
<1> QED BY <1>1, InductiveInvariant, PTL

-----------------------------------------------------------------------------
(* A merge of hi into lo moves what resolved as hi did.                    *)

LEMMA HookMoves ==
  ASSUME NEW a \in Table, Descends(a), NEW p \in Pair,
         NEW b \in Table, b[p[2]] = p[1], \A x \in Template : x # p[2] => b[x] = a[x],
         \A x \in Template : a[ResolveIn(a, x)] = Null /\ b[ResolveIn(b, x)] = Null,
         NEW t \in Template, ResolveIn(b, t) # ResolveIn(a, t)
  PROVE  ResolveIn(a, t) = ResolveIn(a, p[2]) /\ ResolveIn(b, t) = ResolveIn(a, p[1])
<1>1. p[1] \in Template /\ p[2] \in Template /\ p[1] < p[2] /\ p[1] # Null
  BY Kinds
<1>2. /\ b \in Table /\ b[p[2]] = p[1]
      /\ \A x \in Template : x # p[2] => b[x] = a[x]
  OBVIOUS
<1>3. Descends(b)
  BY <1>1, <1>2 DEF Descends
\* A walk that passes p[2] by is a walk in both tables.
<1>4. ASSUME NEW x \in Template, NEW w, Walk(a, w, x), \A n \in 0 .. MaxHops : w[n] # p[2]
      PROVE  ResolveIn(b, x) = ResolveIn(a, x)
  <2>1. ASSUME NEW n \in 1 .. MaxHops PROVE w[n] = Hop(b, w[n - 1])
    <3>1. n - 1 \in 0 .. MaxHops
      BY Kinds
    <3>2. w[n - 1] \in Template /\ w[n - 1] # p[2] /\ w[n] = Hop(a, w[n - 1])
      BY <1>4, <3>1 DEF Walk, Hops
    <3> QED BY <1>2, <3>2 DEF Hop
  <2>2. Walk(b, w, x)
    BY <1>4, <2>1 DEF Walk, Hops
  <2> QED BY <1>2, <1>4, <2>2, ResolveWalks
<1>5. PICK w : Walk(a, w, t)
  BY WalkExists
<1>6. PICK k \in 0 .. MaxHops : w[k] = p[2]
  BY <1>4, <1>5
<1>7. ResolveIn(a, t) = ResolveIn(a, p[2])
  BY <1>5, <1>6, ResolvesAlike
<1>8. PICK v : Walk(b, v, t)
  BY <1>2, WalkExists
<1>9. \E j \in 0 .. MaxHops : v[j] = p[2]
  <2> SUFFICES ASSUME \A n \in 0 .. MaxHops : v[n] # p[2] PROVE FALSE
    OBVIOUS
  <2>1. ASSUME NEW n \in 1 .. MaxHops PROVE v[n] = Hop(a, v[n - 1])
    <3>1. n - 1 \in 0 .. MaxHops
      BY Kinds
    <3>2. v[n - 1] \in Template /\ v[n - 1] # p[2] /\ v[n] = Hop(b, v[n - 1])
      BY <1>8, <3>1 DEF Walk, Hops
    <3> QED BY <1>2, <3>2 DEF Hop
  <2>2. Hops(a, v, t)
    BY <1>8, <2>1 DEF Walk, Hops
  <2>3. \A n \in 0 .. MaxHops : v[n] = w[n]
    BY <1>5, <2>2, WalkIsOne
  <2> QED BY <1>6, <2>3
<1>14. ASSUME NEW x \in Template, NEW y, Walk(b, y, x), NEW n \in 0 .. MaxHops
       PROVE  ResolveIn(b, y[n]) = ResolveIn(b, x)
  <2>1. b[ResolveIn(b, x)] = Null
    OBVIOUS
  <2> QED BY <1>2, <1>14, <2>1, ResolvesAlike
<1>10. ResolveIn(b, t) = ResolveIn(b, p[2])
  <2>1. PICK j \in 0 .. MaxHops : v[j] = p[2]
    BY <1>9
  <2> QED BY <1>8, <1>14, <2>1
<1>11. ResolveIn(b, p[2]) = ResolveIn(b, p[1])
  <2>1. PICK u : Walk(b, u, p[2])
    BY <1>1, <1>2, WalkExists
  <2>2. u[0] = p[2] /\ b[u[0]] # Null
    BY <1>1, <1>2, <2>1 DEF Walk, Hops
  <2>3. MaxHops # 0
    <3>1. b[u[MaxHops]] = Null
      BY <1>1, <1>2, <2>1, ResolveWalks
    <3> QED BY <2>2, <3>1
  <2>4. 1 \in 1 .. MaxHops /\ 1 \in 0 .. MaxHops
    BY <2>3, Kinds
  <2>5. u[1] = p[1]
    <3>1. u[1] = Hop(b, u[1 - 1])
      BY <2>1, <2>4 DEF Walk, Hops
    <3> QED BY <1>2, <2>2, <3>1 DEF Hop
  <2>6. ResolveIn(b, u[1]) = ResolveIn(b, p[2])
    BY <1>1, <1>14, <2>1, <2>4
  <2> QED BY <2>5, <2>6
<1>12. ResolveIn(b, p[1]) = ResolveIn(a, p[1])
  <2>1. PICK u : Walk(a, u, p[1])
    BY <1>1, WalkExists
  <2>2. \A n \in 0 .. MaxHops : u[n] # p[2]
    <3> SUFFICES ASSUME NEW n \in 0 .. MaxHops PROVE u[n] # p[2]
      OBVIOUS
    <3>1. 0 \in 0 .. MaxHops /\ n \in 0 .. MaxHops
      BY Kinds
    <3>2. u[n] <= u[0] /\ u[0] = p[1] /\ u[n] \in Nat /\ p[2] \in Nat /\ p[1] \in Nat
      BY <1>1, <2>1, <3>1, WalkDescends, Kinds DEF Walk, Hops
    <3> QED BY <1>1, <3>2
  <2> QED BY <1>1, <1>4, <2>1, <2>2
<1> QED BY <1>7, <1>10, <1>11, <1>12

\* When an answer of resolve moves while the process runs, no removal is under
\* way and no chain is cut by the hop cap, it moves by a merge of hi into lo that
\* lands then, with its persisted yes until a read fails or a removal begins: the
\* template resolved as hi did and now resolves as lo does (MergeLands of
\* AlarmEngine).
THEOREM AnswersMove == Spec => AnswersMoveByMerges
<1> DEFINE Kept == Uncapped /\ Uncapped' /\ removing = Null /\ restarts' = restarts
           Moves(t) == \E p \in Pair : /\ aliases[p[2]] # p[1] /\ aliases'[p[2]] = p[1]
                                       /\ ~spoiled => \E d \in merges : d.merged /\ d.pair = p
                                       /\ Resolve(t) = Resolve(p[2])
                                       /\ Resolve(t)' = Resolve(p[1])
           ByMerges == Kept => \A t \in Template : Resolve(t)' # Resolve(t) => Moves(t)
<1>1. IndInv /\ [Next]_vars => [ByMerges]_vars
  <2> SUFFICES ASSUME IndInv, [Next]_vars, Kept, NEW t \in Template, Resolve(t)' # Resolve(t)
               PROVE  Moves(t)
    OBVIOUS
  <2>0. TypeOK /\ aliases \in Table /\ Descends(aliases)
    BY DEF IndInv, TypeOK, AliasesDescend, Table, Descends
  <2>1. /\ \A x : Resolve(x) = ResolveIn(aliases, x)
        /\ \A x : Resolve(x)' = ResolveIn(aliases', x)
    BY DEF Resolve, ResolveIn
  <2>2. ASSUME UNCHANGED aliases PROVE FALSE
    BY <2>1, <2>2
  <2>3. ASSUME NEW p \in Pair, Hook(p) PROVE Moves(t)
    <3>1. aliases' = [aliases EXCEPT ![p[2]] = p[1]] /\ jobs[p].decision.merged
      BY <2>2, <2>3 DEF Hook
    <3>2. aliases'[p[2]] = p[1]
      BY <2>0, <3>1, Kinds DEF Table
    <3>3. aliases[p[2]] # p[1]
      BY <2>0, <2>2, <3>1 DEF Table
    <3>4. /\ ResolveIn(aliases, t) = ResolveIn(aliases, p[2])
          /\ ResolveIn(aliases', t) = ResolveIn(aliases, p[1])
      <4>1. ResolveIn(aliases', t) # ResolveIn(aliases, t)
        BY <2>1
      <4>2. \A x \in Template : /\ aliases[ResolveIn(aliases, x)] = Null
                                /\ aliases'[ResolveIn(aliases', x)] = Null
        BY <2>1 DEF Uncapped
      <4> DEFINE b == aliases'
      <4>6. aliases \in Table /\ Descends(aliases)
        BY <2>0
      <4>3. /\ b \in Table /\ b[p[2]] = p[1]
            /\ \A x \in Template : x # p[2] => b[x] = aliases[x]
        BY <2>0, <3>1, Kinds DEF Table
      <4>7. ResolveIn(b, t) # ResolveIn(aliases, t)
        BY <4>1
      <4>4. \A x \in Template : aliases[ResolveIn(aliases, x)] = Null /\ b[ResolveIn(b, x)] = Null
        BY <4>2
      <4> HIDE DEF b
      <4>5. ResolveIn(aliases, t) = ResolveIn(aliases, p[2]) /\ ResolveIn(b, t) = ResolveIn(aliases, p[1])
        BY <4>3, <4>4, <4>6, <4>7, HookMoves
      <4> QED BY <4>5 DEF b
    <3>5. Resolve(t) = Resolve(p[2]) /\ Resolve(t)' = Resolve(p[1])
      BY <2>1, <3>4
    <3>6. ~spoiled => jobs[p].decision \in merges /\ jobs[p].decision.pair = p
      BY <2>3 DEF Hook, At, Working, IndInv, InHand, DecidedOnce
    <3> QED BY <3>1, <3>2, <3>3, <3>5, <3>6
  <2>4. ASSUME Removes PROVE FALSE
    BY <2>0, <2>4, RemovalsTake
  <2>5. ASSUME NEW b \in Bundle, Restart(b) PROVE FALSE
    BY <2>5, Kinds DEF Restart, IndInv, TypeOK
  <2>6. ASSUME NEW p \in Pair,
               \/ ReferReads(p) \/ Evict(p) \/ MergeLoop(p) \/ CallFails(p) \/ CallAnswers(p)
               \/ WriteRecord(p) \/ WriteDecision(p) \/ FillCache(p) \/ RemoveScans(p)
        PROVE  FALSE
    BY <2>2, <2>6 DEF ReferReads, Evict, MergeLoop, FindsDecided, NeedsCall, CallFails, CallAnswers,
                      WriteRecord, WriteDecision, FillCache, RemoveScans
  <2>7. ASSUME ReferFills \/ ReferEnqueues \/ UNCHANGED vars PROVE FALSE
    BY <2>2, <2>7 DEF ReferFills, ReferEnqueues, vars
  <2> QED BY <2>3, <2>4, <2>5, <2>6, <2>7 DEF Next, JudgeOne, Removes
<1> QED BY <1>1, InductiveInvariant, PTL DEF Spec, AnswersMoveByMerges
=============================================================================
