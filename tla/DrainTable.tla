----------------------------- MODULE DrainTable -----------------------------
(***************************************************************************)
(* The clusterer of oarfish-drain (drain.rs, tree.rs) as the pipeline      *)
(* drives it (pipeline.rs): every masked line joins the cluster it is      *)
(* closest to or opens one; the least recently used make room.             *)
(*                                                                         *)
(* A line is the sequence of its tokens, cut to max_tokens; a TemplateId   *)
(* is the template it hashes.  A node of the tree is the path of edge keys *)
(* that leads to it, the token count first.  A leaf is the set of the      *)
(* sequence numbers in it: each is pushed once, higher than those before,  *)
(* and removal keeps the order, so the first of some is the lowest.        *)
(***************************************************************************)
EXTENDS Integers, Sequences, FiniteSets, SequencesExt

CONSTANTS
  Lines,           \* masked lines, as sequences of tokens
  Numeric,         \* tokens that hold a digit
  Param,           \* config.param
  Depth,           \* config.depth
  MaxChildren,     \* config.max_children
  MaxClusters,     \* config.max_clusters, 0 for no cap
  MaxLeafClusters, \* config.max_leaf_clusters, 0 for no cap
  Similarity,      \* config.similarity, as <<numerator, denominator>>
  ReferralFloor,   \* config.referral_floor, likewise
  MaxTicks,        \* bound: lines trained
  Null

Token == UNION {Range(line) : line \in Lines}

ASSUME DrainAssumption ==
  /\ Lines \subseteq Seq(Token)
  /\ Depth \in Nat /\ Depth >= 3
  /\ MaxChildren \in Nat \ {0}
  /\ {MaxClusters, MaxLeafClusters, MaxTicks} \subseteq Nat
  /\ Similarity \in Nat \X (Nat \ {0}) /\ ReferralFloor \in Nat \X (Nat \ {0})
  /\ Similarity[1] <= Similarity[2] /\ ReferralFloor[1] <= ReferralFloor[2]
  /\ Null \notin Nat

VARIABLES
  tree,     \* node -> the sequence numbers in its leaf
  table,    \* sequence number -> its entry: tokens, size, tick, path
  stamps,   \* tick -> the cluster last used then
  counts,   \* the token-count index: <<token count, sequence number>>
  tick,     \* lines trained
  nextSeq,  \* the next sequence number
  last,     \* the last assignment, and whom its cluster was referred with
  home      \* history: line -> the cluster it was last assigned to, or Null

vars == <<tree, table, stamps, counts, tick, nextSeq, last, home>>

-----------------------------------------------------------------------------
(* Similarity of a template and a line of the same length.                 *)

\* Mutant of Similar: a wildcard counts as an equal token.
SimilarOrWild(tokens, line) ==
  Cardinality({i \in DOMAIN line : tokens[i] \in {line[i], Param}})

Similar(tokens, line) == Cardinality({i \in DOMAIN line : tokens[i] # Param /\ tokens[i] = line[i]})

Params(tokens) == Cardinality({i \in DOMAIN tokens : tokens[i] = Param})

\* At or above the threshold; two empty lists are identical.
Accepted(similar, length) == similar * Similarity[2] >= Similarity[1] * length

Generalized(tokens, line) ==
  [i \in DOMAIN tokens |-> IF tokens[i] = line[i] THEN tokens[i] ELSE Param]

-----------------------------------------------------------------------------
(* The tree: count level, then leading-token levels, then candidates.      *)

Children(node) == {n \in DOMAIN tree : n # <<>> /\ Front(n) = node}

\* Token levels a line goes down: max_node_depth and its own length end it.
Levels(line) ==
  IF Len(line) < 2 THEN 0 ELSE IF Len(line) <= Depth - 3 THEN Len(line) - 1 ELSE Depth - 3

\* A line's ways down: its token count, and a key for every level.
Routes(line) ==
  {p \in [1 .. Levels(line) + 1 -> {Len(line), Param} \union Range(line)] : p[1] = Len(line)}

\* search: the child of the token, else the parameter's.
SearchKey(node, token) == IF Append(node, token) \in DOMAIN tree THEN token ELSE Param

\* The node search ends at; none when it falls off the tree.
SearchPaths(line) ==
  {p \in Routes(line) \intersect DOMAIN tree :
     \A k \in 1 .. Levels(line) : p[k + 1] = SearchKey(SubSeq(p, 1, k), line[k])}

\* Mutant of InsertKey: at the fan-out cap the token's own child is not looked
\* for.
InsertKeyAtCap(node, token) ==
  LET fanOut == Cardinality(Children(node))
      wild   == Append(node, Param) \in DOMAIN tree
      room   == IF wild THEN fanOut < MaxChildren ELSE fanOut + 1 < MaxChildren
  IN  IF token \notin Numeric /\ room THEN token ELSE Param

\* insert: a token without digits earns its own child while there is room, one
\* place being the parameter's; every other takes the parameter's.
InsertKey(node, token) ==
  LET fanOut == Cardinality(Children(node))
      wild   == Append(node, Param) \in DOMAIN tree
      room   == IF wild THEN fanOut < MaxChildren ELSE fanOut + 1 < MaxChildren
  IN  IF Append(node, token) \in DOMAIN tree \/ (token \notin Numeric /\ room)
      THEN token ELSE Param

InsertPath(line) ==
  CHOOSE p \in Routes(line) :
    \A k \in 1 .. Levels(line) : p[k + 1] = InsertKey(SubSeq(p, 1, k), line[k])

Inserted(path, seq) ==
  [n \in DOMAIN tree \union Prefixes(path) |->
     (IF n \in DOMAIN tree THEN tree[n] ELSE {}) \union (IF n = path THEN {seq} ELSE {})]

\* remove, for each of the clusters `gone`: its id leaves its leaf, and the nodes
\* of its path that hold nothing any more are pruned, bottom up.
Removed(nodes, entries, gone) ==
  LET paths   == {entries[s].path : s \in gone}
      OnPath(n) == \E p \in paths : IsPrefix(n, p)
      left    == [n \in DOMAIN nodes |-> IF n \in paths THEN nodes[n] \ gone ELSE nodes[n]]
      Kept(n) == n = <<>> \/ \E m \in DOMAIN nodes : IsPrefix(n, m) /\ (left[m] # {} \/ ~OnPath(m))
  IN  Restrict(left, {n \in DOMAIN nodes : Kept(n)})

-----------------------------------------------------------------------------
(* Forgetting, on a table being written: st has its tree, table, stamps    *)
(* and counts.                                                             *)

\* Mutant of Forget: the tree is not told.
ForgetInTable(st, gone) ==
  [tree   |-> st.tree,
   table  |-> Restrict(st.table, DOMAIN st.table \ gone),
   stamps |-> Restrict(st.stamps, DOMAIN st.stamps \ {st.table[s].tick : s \in gone}),
   counts |-> st.counts \ {<<Len(st.table[s].tokens), s>> : s \in gone}]

\* forget: from everything that tracks a cluster.
Forget(st, gone) ==
  [tree   |-> Removed(st.tree, st.table, gone),
   table  |-> Restrict(st.table, DOMAIN st.table \ gone),
   stamps |-> Restrict(st.stamps, DOMAIN st.stamps \ {st.table[s].tick : s \in gone}),
   counts |-> st.counts \ {<<Len(st.table[s].tokens), s>> : s \in gone}]

\* The k least of a set of ticks.
Earliest(ticks, k) == {t \in ticks : Cardinality({u \in ticks : u < t}) < k}

\* evict_from_leaf: while the leaf is over its cap, its least recently used
\* goes, never the newest.
EvictFromLeaf(st, path, newest) ==
  LET live     == st.tree[path] \intersect DOMAIN st.table
      over     == Cardinality(st.tree[path]) - MaxLeafClusters
      earliest == Earliest({st.table[s].tick : s \in live \ {newest}}, over)
  IN  IF MaxLeafClusters = 0 \/ over <= 0 THEN st
      ELSE Forget(st, {s \in live : st.table[s].tick \in earliest})

\* evict: while the table is over its cap, the first of the stamps goes.
Evict(st) ==
  LET over == Cardinality(DOMAIN st.table) - MaxClusters
  IN  IF MaxClusters = 0 \/ over <= 0 THEN st
      ELSE Forget(st, {st.stamps[t] : t \in Earliest(DOMAIN st.stamps, over)})

-----------------------------------------------------------------------------
(* train, and the referral of a cluster's first line.                      *)

\* The live clusters search scores: those of the leaf, of the line's length.
Candidates(line) ==
  {s \in DOMAIN table :
     Len(table[s].tokens) = Len(line) /\ \E p \in SearchPaths(line) : s \in tree[p]}

\* More words of the line, then more wildcards, then first in the leaf.
Beats(r, s, line) ==
  LET Sim(c)  == Similar(table[c].tokens, line)
      Wild(c) == Params(table[c].tokens)
  IN  \/ Sim(r) > Sim(s)
      \/ Sim(r) = Sim(s) /\ (Wild(r) > Wild(s) \/ (Wild(r) = Wild(s) /\ r < s))

\* search: the best of the candidates if it reaches the threshold, or none.
Search(line) ==
  {s \in Candidates(line) :
     /\ \A r \in Candidates(line) \ {s} : Beats(s, r, line)
     /\ Accepted(Similar(table[s].tokens, line), Len(line))}

\* Jaccard over token multisets, against the floor; two empty lists are not
\* close.
Close(a, b) ==
  LET Times(tokens, t) == Cardinality({i \in DOMAIN tokens : tokens[i] = t})
      words  == Range(a) \union Range(b)
      shared == MapThenSumSet(LAMBDA t : Min({Times(a, t), Times(b, t)}), words)
      either == MapThenSumSet(LAMBDA t : Max({Times(a, t), Times(b, t)}), words)
  IN  words # {} /\ shared * ReferralFloor[2] >= ReferralFloor[1] * either

\* neighbours: the index is read for the token counts within two of seq's.
Neighbours(st, seq) ==
  LET tokens == st.table[seq].tokens
  IN  {s \in DOMAIN st.table \ {seq} :
         /\ \E n \in Len(tokens) - 2 .. Len(tokens) + 2 : <<n, s>> \in st.counts
         /\ Close(tokens, st.table[s].tokens)}

\* The assignment of `line` to seq; a cluster's first line refers it.
Assigned(st, line, seq) ==
  /\ last' = [line |-> line, seq |-> seq, template |-> st.table[seq].tokens,
              size |-> st.table[seq].size,
              referred |-> IF st.table[seq].size = 1 THEN Neighbours(st, seq) ELSE {}]
  /\ home' = [home EXCEPT ![line] = seq]
  /\ tree' = st.tree /\ table' = st.table /\ stamps' = st.stamps /\ counts' = st.counts

\* Mutant of Touch: the old stamp stays.
TouchLate(old, new, seq) == [t \in DOMAIN stamps \union {new} |-> IF t = new THEN seq ELSE stamps[t]]

Touch(old, new, seq) ==
  [t \in (DOMAIN stamps \ {old}) \union {new} |-> IF t = new THEN seq ELSE stamps[t]]

\* The table once the line joined seq, whose template gives way where they differ.
Joined(line, seq) ==
  LET was   == table[seq]
      entry == [tokens |-> Generalized(was.tokens, line), size |-> was.size + 1,
                tick |-> tick + 1, path |-> was.path]
  IN  [tree |-> tree, table |-> [table EXCEPT ![seq] = entry],
       stamps |-> Touch(was.tick, tick + 1, seq), counts |-> counts]

Join(line, seq) == Assigned(Joined(line, seq), line, seq) /\ UNCHANGED nextSeq

\* The table once the line opened a cluster, whose template it is.
Opened(line) ==
  LET path  == InsertPath(line)
      entry == [tokens |-> line, size |-> 1, tick |-> tick + 1, path |-> path]
  IN  [tree |-> Inserted(path, nextSeq),
       table |-> [s \in DOMAIN table \union {nextSeq} |-> IF s = nextSeq THEN entry ELSE table[s]],
       stamps |-> [t \in DOMAIN stamps \union {tick + 1} |-> IF t = tick + 1 THEN nextSeq ELSE stamps[t]],
       counts |-> counts \union {<<Len(line), nextSeq>>}]

\* Its leaf, then the table, make room.
Open(line) ==
  /\ Assigned(Evict(EvictFromLeaf(Opened(line), InsertPath(line), nextSeq)), line, nextSeq)
  /\ nextSeq' = nextSeq + 1

Train(line) ==
  /\ tick < MaxTicks
  /\ tick' = tick + 1
  /\ \/ \E seq \in Search(line) : Join(line, seq)
     \/ Search(line) = {} /\ Open(line)

Init ==
  /\ tree = [n \in {<<>>} |-> {}]
  /\ table = <<>> /\ stamps = <<>> /\ counts = {}
  /\ tick = 0 /\ nextSeq = 1
  /\ last = Null
  /\ home = [line \in Lines |-> Null]

\* The bound on lines.
Quiet == tick = MaxTicks /\ UNCHANGED vars

Next == (\E line \in Lines : Train(line)) \/ Quiet

Spec == Init /\ [][Next]_vars

-----------------------------------------------------------------------------
(* What the clusterer owes.                                                *)

Seqs == 1 .. nextSeq - 1

Entry ==
  [tokens : Seq(Token \union {Param}), size : Nat \ {0}, tick : 1 .. tick,
   path : UNION {Routes(line) : line \in Lines}]

\* Every variable stays in its type.
TypeOK ==
  /\ tick \in 0 .. MaxTicks /\ nextSeq \in 1 .. MaxTicks + 1
  /\ tree \in [DOMAIN tree -> SUBSET Seqs]
  /\ table \in [DOMAIN table -> Entry] /\ DOMAIN table \subseteq Seqs
  /\ \A s \in DOMAIN table : table[s].path \in DOMAIN tree
  /\ stamps \in [DOMAIN stamps -> Seqs] /\ DOMAIN stamps \subseteq 1 .. tick
  /\ counts \subseteq Nat \X Seqs
  /\ home \in [Lines -> Seqs \union {Null}]

\* Every live cluster sits in the leaf recorded for it however its template
\* moved since, and in no other; nothing else sits in the tree, no node is left
\* empty, and every leaf and every fan-out has its bound: a node without a
\* parameter child keeps a place for it, so that the insert which relies on it
\* finds it.
TreeHoldsTheTable ==
  /\ \A n \in DOMAIN tree : tree[n] = {s \in DOMAIN table : table[s].path = n}
  /\ \A n \in DOMAIN tree \ {<<>>} : tree[n] # {} \/ Children(n) # {}
  /\ \A n \in DOMAIN tree : MaxLeafClusters > 0 => Cardinality(tree[n]) <= MaxLeafClusters
  /\ \A n \in DOMAIN tree \ {<<>>} :
       Cardinality(Children(n)) <=
         IF Append(n, Param) \in DOMAIN tree THEN MaxChildren ELSE MaxChildren - 1

\* The stamps and the token-count index know exactly the live clusters, the table
\* keeps its bound, and a new cluster was referred with every live one that is
\* close to it, as a walk of the table would find them, and no dead one.
IndexesHoldTheTable ==
  /\ DOMAIN stamps = {table[s].tick : s \in DOMAIN table}
  /\ \A s \in DOMAIN table : stamps[table[s].tick] = s
  /\ counts = {<<Len(table[s].tokens), s>> : s \in DOMAIN table}
  /\ MaxClusters > 0 => Cardinality(DOMAIN table) <= MaxClusters
  /\ (last # Null /\ last.size = 1) =>
       last.referred = {s \in DOMAIN table \ {last.seq} :
         /\ Len(table[s].tokens) - Len(last.template) \in -2 .. 2
         /\ Close(last.template, table[s].tokens)}

\* forget leaves no trace of a cluster, and train none half entered.
EveryIndexIsTheTable == TypeOK /\ TreeHoldsTheTable /\ IndexesHoldTheTable

\* A template stands for a line when it has its words, or gave them way.
Matches(tokens, line) ==
  Len(tokens) = Len(line) /\ \A i \in DOMAIN line : tokens[i] \in {line[i], Param}

\* A live cluster still matches every line assigned to it last, and however many
\* lines it took, keeps as many words as one join must find: templates do not
\* wear down to wildcards line by line (lines without the parameter's text).
TemplatesFitMembers ==
  /\ \A line \in Lines : home[line] \in DOMAIN table => Matches(table[home[line]].tokens, line)
  /\ \A s \in DOMAIN table :
       LET tokens == table[s].tokens
       IN  Accepted(Len(tokens) - Params(tokens), Len(tokens))

\* The same line twice in a row joins the cluster it was just given, whether it
\* opened it, generalised it or had others evicted (lines without the
\* parameter's text): insert and search take one path through the tree.
RefoundAtOnce == last # Null => Search(last.line) = {last.seq}

\* At most one cluster is forgotten for a new one, and it was the least recently
\* used, of the table or of the leaf the new one went to.
ForgetsLeastRecent ==
  LET gone == DOMAIN table \ DOMAIN table'
      kept == DOMAIN table' \intersect DOMAIN table
  IN  /\ Cardinality(gone) <= (IF nextSeq' = nextSeq THEN 0 ELSE 1)
      /\ \A s \in gone :
           \/ \A r \in kept : table[s].tick < table[r].tick
           \/ /\ table'[last'.seq].path = table[s].path
              /\ \A r \in kept : table[r].path = table[s].path => table[s].tick < table[r].tick

OnlyLeastRecentGoes == [][ForgetsLeastRecent]_vars

-----------------------------------------------------------------------------
(* A statement of a test and of the docs that the code does not keep.      *)

\* tree.rs:338: "A line a cluster already matches never moves its id."
\* docs/research/2026-09-22-lean-with-agents.md:188: "With no eviction in between,
\* re-training a line its cluster already matches leaves the TemplateId unchanged".
SettledIdsStay ==
  [][MaxClusters = 0 /\ MaxLeafClusters = 0 /\ last' # last =>
       LET line == last'.line
       IN  home[line] # Null /\ Matches(table[home[line]].tokens, line)
             => last'.template = table[home[line]].tokens]_vars
=============================================================================
