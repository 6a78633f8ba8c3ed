---------------------------- MODULE MergeAliases ----------------------------
(***************************************************************************)
(* The merge store of oarfish-store (merges.rs, merge_cache.rs,            *)
(* merge_judge.rs): pairs of close templates referred by the pipeline,     *)
(* each judged once in the background, and the alias table the engine      *)
(* resolves every line through.                                            *)
(*                                                                         *)
(* Template ids are numbers: what matters of them is their order.  The     *)
(* queue and the permits of the merge judge are those of VerdictJudge;     *)
(* here a pair is queued, in one of the steps of judge_one, or neither     *)
(* (a referral of a pair already queued or in flight is dropped by the     *)
(* loop).  Decisions are numbered in the order they were judged.           *)
(***************************************************************************)
EXTENDS Integers, FiniteSets, FiniteSetsExt

CONSTANTS
  Template,     \* template ids
  Close,        \* the pairs similar enough for Drain to refer
  Bundle,
  Model,        \* the builds a provider may resolve a call to
  MaxHops,      \* MAX_ALIAS_HOPS
  ReadFaults,   \* TRUE: reads of the store may fail
  WriteFaults,  \* TRUE: writes to the store may fail
  Corrections,  \* TRUE: merges may be removed
  MaxDecisions, \* bound: decisions judged
  MaxRestarts,  \* bound: restarts
  Null

Pair == {p \in Template \X Template : p[1] < p[2]}    \* <<id_lo, id_hi>>
Decision == [pair : Pair, bundle : Bundle, model : Model, merged : BOOLEAN,
             id : 1 .. MaxDecisions]
Step == {"queued", "calling", "record", "decision", "cache", "alias"}
Job  == [step : Step, decision : Decision \union {Null}]
Removal == [pair : Pair, keys : SUBSET (Bundle \X Model), step : {"rows", "alias"}]

ASSUME MergeAssumption ==
  /\ Template \subseteq Nat /\ Close \subseteq Pair
  /\ {MaxHops, MaxDecisions, MaxRestarts} \subseteq Nat
  /\ {ReadFaults, WriteFaults, Corrections} \subseteq BOOLEAN
  /\ Null \notin Nat /\ Null \notin Decision /\ Null \notin Job /\ Null \notin Removal

VARIABLES
  bundle,     \* the bundle this process runs under
  merges,     \* keyspace merges, keyed (pair, bundle, model)
  recorded,   \* keyspace records: the ids of decisions that have a record
  lastId,     \* decisions judged so far
  moka,       \* the memory cache: pair -> decision
  aliases,    \* the alias table: id_hi -> id_lo, or Null
  referring,  \* the pipeline in `refer`: the pair and what the store held, or Null
  jobs,       \* the merge judge: pair -> its job, or Null
  removing,   \* the removal under way: its pair, the keys still to delete, its step; or Null
  restarts,   \* restarts so far
  spoiled     \* history: a read failed over rows it had, or a removal began

vars == <<bundle, merges, recorded, lastId, moka, aliases, referring, jobs, removing, restarts,
          spoiled>>

Written == IF WriteFaults THEN BOOLEAN ELSE {TRUE}

-----------------------------------------------------------------------------
(* Reads.                                                                  *)

\* read_latest_pair scans the prefix of the pair: every build, and every
\* bundle too.
Rows(p) == {d \in merges : d.pair = p}

\* It answers the newest; Null stands for nothing found.
ReadLatestPair(p) ==
  {d \in Rows(p) : \A e \in Rows(p) : e.id <= d.id}
    \union (IF Rows(p) = {} \/ ReadFaults THEN {Null} ELSE {})

\* resolve: hop by hop down the alias table, MaxHops at most.
Resolve(t) ==
  LET walk[n \in 0 .. MaxHops] ==
        IF n = 0 THEN t
        ELSE IF aliases[walk[n - 1]] = Null THEN walk[n - 1] ELSE aliases[walk[n - 1]]
  IN  walk[MaxHops]

-----------------------------------------------------------------------------
(* refer, in the pipeline's task.                                          *)

\* A pair moka knows is decided, and nothing happens; any other is read.
ReferReads(p) ==
  /\ p \in Close
  /\ referring = Null
  /\ moka[p] = Null
  /\ \E found \in ReadLatestPair(p) :
       /\ referring' = [pair |-> p, found |-> found]
       /\ spoiled' = (spoiled \/ (found = Null /\ Rows(p) # {}))
  /\ UNCHANGED <<bundle, merges, recorded, lastId, moka, aliases, jobs, removing, restarts>>

ReferFills ==
  /\ referring # Null
  /\ referring.found # Null
  /\ moka' = [moka EXCEPT ![referring.pair] = referring.found]
  /\ referring' = Null
  /\ UNCHANGED <<bundle, merges, recorded, lastId, aliases, jobs, removing, restarts, spoiled>>

\* Undecided: enqueued, or dropped when the queue is full.
ReferEnqueues ==
  /\ referring # Null
  /\ referring.found = Null
  /\ \/ jobs' = [jobs EXCEPT ![referring.pair] =
                   IF @ = Null THEN [step |-> "queued", decision |-> Null] ELSE @]
     \/ UNCHANGED jobs
  /\ referring' = Null
  /\ UNCHANGED <<bundle, merges, recorded, lastId, moka, aliases, removing, restarts, spoiled>>

\* moka drops an entry, for want of room.
Evict(p) ==
  /\ moka[p] # Null
  /\ moka' = [moka EXCEPT ![p] = Null]
  /\ UNCHANGED <<bundle, merges, recorded, lastId, aliases, referring, jobs, removing,
                 restarts, spoiled>>

-----------------------------------------------------------------------------
(* The merge judge.                                                        *)

At(p, step) == jobs[p] # Null /\ jobs[p].step = step
Goes(p, step) == jobs' = [jobs EXCEPT ![p].step = step]
Ends(p) == jobs' = [jobs EXCEPT ![p] = Null]

\* merge_loop: decided while queued, either way; moka is filled.
FindsDecided(p) ==
  /\ At(p, "queued")
  /\ \/ moka[p] # Null /\ UNCHANGED moka
     \/ /\ moka[p] = Null
        /\ \E d \in ReadLatestPair(p) \ {Null} : moka' = [moka EXCEPT ![p] = d]
  /\ Ends(p)
  /\ UNCHANGED <<bundle, merges, recorded, lastId, aliases, referring, removing, restarts, spoiled>>

\* Mutant of NeedsCall: only moka is asked.
NeedsCallUnread(p) ==
  /\ At(p, "queued")
  /\ moka[p] = Null
  /\ Goes(p, "calling")
  /\ UNCHANGED <<bundle, merges, recorded, lastId, moka, aliases, referring, removing,
                 restarts, spoiled>>

\* Undecided, or the read failed: a call is spent.
NeedsCall(p) ==
  /\ At(p, "queued")
  /\ moka[p] = Null
  /\ Null \in ReadLatestPair(p)
  /\ Goes(p, "calling")
  /\ spoiled' = (spoiled \/ Rows(p) # {})
  /\ UNCHANGED <<bundle, merges, recorded, lastId, moka, aliases, referring, removing, restarts>>

\* The call failed, or its answer is not a noul.
CallFails(p) ==
  /\ At(p, "calling")
  /\ Ends(p)
  /\ UNCHANGED <<bundle, merges, recorded, lastId, moka, aliases, referring, removing,
                 restarts, spoiled>>

\* Merged when the noul reaches the threshold.
CallAnswers(p) ==
  /\ At(p, "calling")
  /\ lastId < MaxDecisions
  /\ lastId' = lastId + 1
  /\ \E merged \in BOOLEAN, m \in Model :
       jobs' = [jobs EXCEPT ![p] =
                  [step |-> "record",
                   decision |-> [pair |-> p, bundle |-> bundle, model |-> m,
                                 merged |-> merged, id |-> lastId + 1]]]
  /\ UNCHANGED <<bundle, merges, recorded, moka, aliases, referring, removing, restarts, spoiled>>

\* Mutant of WriteRecord: moka is filled before the decision is written.
WriteRecordAndCache(p) ==
  /\ At(p, "record")
  /\ recorded' = recorded \union {jobs[p].decision.id}
  /\ moka' = [moka EXCEPT ![p] = jobs[p].decision]
  /\ Goes(p, "decision")
  /\ UNCHANGED <<bundle, merges, lastId, aliases, referring, removing, restarts, spoiled>>

\* No decision without its record.
WriteRecord(p) ==
  /\ At(p, "record")
  /\ \E written \in Written :
       IF written
       THEN recorded' = recorded \union {jobs[p].decision.id} /\ Goes(p, "decision")
       ELSE UNCHANGED recorded /\ Ends(p)
  /\ UNCHANGED <<bundle, merges, lastId, moka, aliases, referring, removing, restarts, spoiled>>

SameKey(d, e) == d.pair = e.pair /\ d.bundle = e.bundle /\ d.model = e.model

WriteDecision(p) ==
  /\ At(p, "decision")
  /\ \E written \in Written :
       IF written
       THEN LET d == jobs[p].decision
            IN  merges' = {e \in merges : ~SameKey(d, e)} \union {d} /\ Goes(p, "cache")
       ELSE UNCHANGED merges /\ Ends(p)
  /\ UNCHANGED <<bundle, recorded, lastId, moka, aliases, referring, removing, restarts, spoiled>>

\* Mutant of FillCache: the judgment ends there.
FillCacheAndEnd(p) ==
  /\ At(p, "cache")
  /\ moka' = [moka EXCEPT ![p] = jobs[p].decision]
  /\ Ends(p)
  /\ UNCHANGED <<bundle, merges, recorded, lastId, aliases, referring, removing, restarts, spoiled>>

\* Then the memory cache, and the alias.
FillCache(p) ==
  /\ At(p, "cache")
  /\ moka' = [moka EXCEPT ![p] = jobs[p].decision]
  /\ Goes(p, "alias")
  /\ UNCHANGED <<bundle, merges, recorded, lastId, aliases, referring, removing, restarts, spoiled>>

\* Mutant of Hook: a rejection hooks too.
HookAlways(p) ==
  /\ At(p, "alias")
  /\ aliases' = [aliases EXCEPT ![p[2]] = p[1]]
  /\ Ends(p)
  /\ UNCHANGED <<bundle, merges, recorded, lastId, moka, referring, removing, restarts, spoiled>>

\* The lower id always wins; a rejection hooks nothing.
Hook(p) ==
  /\ At(p, "alias")
  /\ aliases' = IF jobs[p].decision.merged THEN [aliases EXCEPT ![p[2]] = p[1]] ELSE aliases
  /\ Ends(p)
  /\ UNCHANGED <<bundle, merges, recorded, lastId, moka, referring, removing, restarts, spoiled>>

-----------------------------------------------------------------------------
(* Corrections and restarts.                                               *)

\* What tells the rows of a pair apart.
RowKey(d) == <<d.bundle, d.model>>

\* remove_pair, in the caller's thread: it collects the keys of the rows the pair
\* has now.
RemoveScans(p) ==
  /\ Corrections
  /\ removing = Null
  /\ removing' = [pair |-> p, keys |-> {RowKey(d) : d \in Rows(p)}, step |-> "rows"]
  /\ spoiled' = TRUE
  /\ UNCHANGED <<bundle, merges, recorded, lastId, moka, aliases, referring, jobs, restarts>>

\* It deletes them one by one; a delete that fails ends it there.
RemoveRow ==
  /\ removing # Null
  /\ \E key \in removing.keys, deleted \in Written :
       IF deleted
       THEN /\ merges' = {d \in merges : d.pair # removing.pair \/ RowKey(d) # key}
            /\ removing' = [removing EXCEPT !.keys = @ \ {key}]
       ELSE UNCHANGED merges /\ removing' = Null
  /\ UNCHANGED <<bundle, recorded, lastId, moka, aliases, referring, jobs, restarts, spoiled>>

\* Then it drops the pair from moka,
RemoveInvalidates ==
  /\ removing # Null
  /\ removing.step = "rows" /\ removing.keys = {}
  /\ moka' = [moka EXCEPT ![removing.pair] = Null]
  /\ removing' = [removing EXCEPT !.step = "alias"]
  /\ UNCHANGED <<bundle, merges, recorded, lastId, aliases, referring, jobs, restarts, spoiled>>

\* and its alias, if the alias is still this pair's.
RemoveUnhooks ==
  /\ removing # Null
  /\ removing.step = "alias"
  /\ LET p == removing.pair
     IN  aliases' = IF aliases[p[2]] = p[1] THEN [aliases EXCEPT ![p[2]] = Null] ELSE aliases
  /\ removing' = Null
  /\ UNCHANGED <<bundle, merges, recorded, lastId, moka, referring, jobs, restarts, spoiled>>

\* load_aliases visits the rows in key order, so of several merges of one
\* template the one with the greatest id_lo is hooked last.
Loaded(rows, t) ==
  LET merged == {d.pair[1] : d \in {e \in rows : e.merged /\ e.pair[2] = t}}
  IN  IF merged = {} THEN Null ELSE Max(merged)

\* An unreadable row is skipped.
ReadRows == IF ReadFaults THEN SUBSET merges ELSE {merges}

\* The process ends, at any point, and another one opens the store.
Restart(b) ==
  /\ restarts < MaxRestarts
  /\ restarts' = restarts + 1
  /\ bundle' = b
  /\ moka' = [p \in Pair |-> Null]
  /\ \E rows \in ReadRows :
       /\ aliases' = [t \in Template |-> Loaded(rows, t)]
       /\ spoiled' = (spoiled \/ rows # merges)
  /\ referring' = Null /\ removing' = Null
  /\ jobs' = [p \in Pair |-> Null]
  /\ UNCHANGED <<merges, recorded, lastId>>

-----------------------------------------------------------------------------
Init ==
  /\ bundle \in Bundle
  /\ merges = {} /\ recorded = {} /\ lastId = 0 /\ restarts = 0 /\ spoiled = FALSE
  /\ moka = [p \in Pair |-> Null]
  /\ aliases = [t \in Template |-> Null]
  /\ referring = Null /\ removing = Null
  /\ jobs = [p \in Pair |-> Null]

MergeLoop(p) == FindsDecided(p) \/ NeedsCall(p)

JudgeOne(p) ==
  \/ CallFails(p) \/ CallAnswers(p) \/ WriteRecord(p) \/ WriteDecision(p)
  \/ FillCache(p) \/ Hook(p)

Next ==
  \/ \E p \in Pair : ReferReads(p) \/ Evict(p) \/ MergeLoop(p) \/ JudgeOne(p) \/ RemoveScans(p)
  \/ ReferFills
  \/ ReferEnqueues
  \/ RemoveRow
  \/ RemoveInvalidates
  \/ RemoveUnhooks
  \/ \E b \in Bundle : Restart(b)

Spec == Init /\ [][Next]_vars

-----------------------------------------------------------------------------
(* What the merge store owes.                                              *)

\* Every variable stays in its type.
TypeOK ==
  /\ bundle \in Bundle
  /\ merges \subseteq Decision
  /\ recorded \subseteq 1 .. MaxDecisions
  /\ lastId \in 0 .. MaxDecisions /\ restarts \in 0 .. MaxRestarts /\ spoiled \in BOOLEAN
  /\ moka \in [Pair -> Decision \union {Null}]
  /\ aliases \in [Template -> Template \union {Null}]
  /\ referring \in [pair : Pair, found : Decision \union {Null}] \union {Null}
  /\ jobs \in [Pair -> Job \union {Null}]
  /\ removing \in Removal \union {Null}

\* The newest decision of a pair.
Newest(p) == IF Rows(p) = {} THEN Null
             ELSE CHOOSE d \in Rows(p) : \A e \in Rows(p) : e.id <= d.id

\* Every alias points strictly downward, whatever was decided in whatever
\* order, removed and reloaded: no cycle for a line to spin in.
AliasesDescend == \A t \in Template : aliases[t] # Null => aliases[t] < t

\* Resolving a line's template ends at one nobody merged away, or has spent every
\* hop, each strictly downward.
ResolveEnds == \A t \in Template : aliases[Resolve(t)] = Null \/ Resolve(t) + MaxHops <= t

\* Resolution on the line path always ends: at a root, or at the hop cap after
\* going down at every hop (resolve, load_aliases).
AliasesResolve == AliasesDescend /\ ResolveEnds

\* No merge without a persisted yes, and no decision served without its
\* record ("never to a wrong merge"), until merges are removed or a read fails
\* (a pair asked again for a failed read may turn to a no, which unhooks
\* nothing).  The yes may be of another bundle: OnlyThisBundleIsServed.
AliasesAreDecided ==
  ~spoiled =>
    /\ \A t \in Template : aliases[t] # Null =>
         \E d \in merges : d.merged /\ d.pair = <<aliases[t], t>>
    /\ \A d \in merges : d.id \in recorded
    /\ \A p \in Pair : moka[p] # Null => moka[p].id \in recorded

\* moka answers as the store would: the pipeline and the judge, which both
\* fill it, leave no older decision in it, a failed read or a removal aside.
MokaIsNewest == ~spoiled => \A p \in Pair : moka[p] # Null => moka[p] = Newest(p)

\* A yes of the running bundle that is persisted and no task works on any more
\* is hooked, by the judge or, after a crash between the write and the hook, by
\* load_aliases: a template merged away does not come back alone.  Nothing is
\* owed to a yes of another bundle.
MergedIsHooked ==
  ~spoiled =>
    \A d \in merges : d.merged /\ d.bundle = bundle /\ jobs[d.pair] = Null =>
      aliases[d.pair[2]] # Null

\* The alias table is what was decided: no merge without its yes, and no yes of
\* the running bundle without its merge.
AliasesMirrorDecisions == TypeOK /\ AliasesAreDecided /\ MergedIsHooked

\* A pair decided under the running bundle, yes or no, is not asked again under
\* it, by a referral in flight when the decision came or after a restart, until
\* a read fails over a row or a removal begins.  A decision of another bundle is
\* no reason not to ask.
DecidedIsNotReasked ==
  [][\A p \in Pair : ~spoiled' /\ ~At(p, "calling") /\ At(p, "calling")'
                       => {d \in Rows(p) : d.bundle = bundle} = {}]_vars

\* No chain of aliases is longer than the hops resolve takes.
Uncapped == \A t \in Template : aliases[Resolve(t)] = Null

\* When an answer of resolve moves while the process runs, no removal is under
\* way and no chain is cut by the hop cap, it moves by a merge of hi into lo that
\* lands then and has its persisted yes: the template resolved as hi did and now
\* resolves as lo does.  It is what the engine's MergeLands assumes of `resolve`;
\* that templates once joined stay so is not claimed (EveryMergeHolds).
AnswersMoveByMerges ==
  [][(Uncapped /\ Uncapped' /\ removing = Null /\ restarts' = restarts) =>
       \A t \in Template : Resolve(t)' # Resolve(t) =>
         \E p \in Pair : /\ aliases[p[2]] # p[1] /\ aliases'[p[2]] = p[1]
                         /\ ~spoiled => \E d \in merges : d.merged /\ d.pair = p
                         /\ Resolve(t) = Resolve(p[2])
                         /\ Resolve(t)' = Resolve(p[1])]_vars

-----------------------------------------------------------------------------
(* The inductive invariant: what makes the alias table and moka true.      *)

\* A job of p is in one of these steps.
Working(p, steps) == jobs[p] # Null /\ jobs[p].step \in steps

\* A job past its call holds a decision of its pair; past its record, a
\* recorded one.  The pipeline holds one the store had.
InHand ==
  /\ \A p \in Pair : Working(p, {"record", "decision", "cache", "alias"}) =>
       jobs[p].decision \in Decision /\ jobs[p].decision.pair = p
  /\ \A p \in Pair : Working(p, {"decision", "cache", "alias"}) => jobs[p].decision.id \in recorded
  /\ (referring # Null /\ referring.found # Null) =>
       referring.found.pair = referring.pair /\ referring.found.id \in recorded

\* Nothing is persisted or served without its record.
Recorded ==
  /\ \A d \in merges : d.id \in recorded
  /\ \A p \in Pair : moka[p] # Null => moka[p].pair = p /\ moka[p].id \in recorded

\* The store holds one row of a key.
KeyedOnce == \A d, e \in merges : SameKey(d, e) => d = e

\* A pair is decided once: a call is spent only where there is no row, and what
\* is served or hooked is the row.
DecidedOnce ==
  ~spoiled =>
    /\ \A d, e \in merges : d.pair = e.pair => d = e
    /\ \A p \in Pair : Working(p, {"calling", "record", "decision"}) => Rows(p) = {}
    /\ \A p \in Pair : Working(p, {"cache", "alias"}) => jobs[p].decision \in merges
    /\ \A p \in Pair : moka[p] # Null => moka[p] \in merges
    /\ (referring # Null /\ referring.found # Null) => referring.found \in merges

\* Aliases have their yes, and a yes lacks its alias only on its way there.
Hooked ==
  ~spoiled =>
    /\ \A t \in Template : aliases[t] # Null =>
         \E d \in merges : d.merged /\ d.pair = <<aliases[t], t>>
    /\ \A d \in merges : d.merged /\ aliases[d.pair[2]] = Null => Working(d.pair, {"cache", "alias"})

\* Nothing is claimed of a store once a removal has begun.
RemovalSpoils == removing # Null => spoiled

IndInv ==
  /\ TypeOK /\ AliasesDescend /\ InHand /\ Recorded /\ KeyedOnce
  /\ DecidedOnce /\ Hooked /\ RemovalSpoils

-----------------------------------------------------------------------------
(* Statements of the code's comments that it does not keep.                *)

\* merge_cache.rs:9-10: "every `merged` decision maps the greater id to the
\* lesser": once hooked, the two templates of a merge are one.
EveryMergeHolds ==
  \A d \in merges : (d.merged /\ jobs[d.pair] = Null) =>
    Resolve(d.pair[2]) = Resolve(d.pair[1])

\* merges.rs:59-61: "a bundle edit must miss the cache and re-judge rather than
\* serve a merge meant for text another bundle produced": every decision in
\* moka, and every alias, is one of the running bundle.
OnlyThisBundleIsServed ==
  /\ \A p \in Pair : moka[p] # Null => moka[p].bundle = bundle
  /\ \A t \in Template : aliases[t] # Null =>
       \E d \in merges : d.merged /\ d.bundle = bundle /\ d.pair = <<aliases[t], t>>
=============================================================================
