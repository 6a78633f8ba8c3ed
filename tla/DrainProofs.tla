---------------------------- MODULE DrainProofs ----------------------------
(***************************************************************************)
(* Tree, stamps and index of the clusterer hold the table and nothing      *)
(* else, templates fit the lines they took, and a line finds its cluster   *)
(* again, for any lines, any caps, any depth, fan-out and threshold.       *)
(***************************************************************************)
EXTENDS DrainTable, WellFoundedInduction, SequenceTheorems, FiniteSetTheorems, TLAPS

-----------------------------------------------------------------------------
(* Sequences.                                                              *)

\* The front of a path, cut anywhere.
LEMMA Cut ==
  ASSUME NEW S, NEW p \in Seq(S), NEW k \in 0 .. Len(p)
  PROVE  /\ SubSeq(p, 1, k) \in Seq(S) /\ Len(SubSeq(p, 1, k)) = k
         /\ \A i \in 1 .. k : SubSeq(p, 1, k)[i] = p[i]
<1>1. Len(p) \in Nat /\ k \in Int /\ 1 \in Int /\ \A i \in 1 .. k : p[i] \in S
  BY ElementOfSeq, LenProperties
<1> QED BY <1>1, SubSeqProperties

LEMMA CutTwice ==
  ASSUME NEW S, NEW p \in Seq(S), NEW k \in 0 .. Len(p), NEW j \in 0 .. k
  PROVE  SubSeq(SubSeq(p, 1, k), 1, j) = SubSeq(p, 1, j)
<1>1. Len(p) \in Nat /\ j \in 0 .. Len(p)
  BY LenProperties
<1>2. /\ SubSeq(p, 1, k) \in Seq(S) /\ Len(SubSeq(p, 1, k)) = k
      /\ \A i \in 1 .. k : SubSeq(p, 1, k)[i] = p[i]
  BY Cut
<1>3. /\ SubSeq(p, 1, j) \in Seq(S) /\ Len(SubSeq(p, 1, j)) = j
      /\ \A i \in 1 .. j : SubSeq(p, 1, j)[i] = p[i]
  BY <1>1, Cut
<1> DEFINE q == SubSeq(p, 1, k)
<1>4. /\ SubSeq(q, 1, j) \in Seq(S) /\ Len(SubSeq(q, 1, j)) = j
      /\ \A i \in 1 .. j : SubSeq(q, 1, j)[i] = q[i]
  <2>1. q \in Seq(S) /\ j \in 0 .. Len(q)
    BY <1>2
  <2> HIDE DEF q
  <2> QED BY <2>1, Cut
<1>5. \A i \in 1 .. j : SubSeq(q, 1, j)[i] = SubSeq(p, 1, j)[i]
  BY <1>1, <1>2, <1>3, <1>4
<1> HIDE DEF q
<1>6. SubSeq(q, 1, j) = SubSeq(p, 1, j)
  BY <1>3, <1>4, <1>5, SeqEqual
<1> QED BY <1>6 DEF q

\* One level further down.
LEMMA CutStep ==
  ASSUME NEW S, NEW p \in Seq(S), NEW k \in 1 .. Len(p)
  PROVE  SubSeq(p, 1, k) = Append(SubSeq(p, 1, k - 1), p[k])
<1>1. Len(p) \in Nat /\ k - 1 \in 0 .. Len(p) /\ k \in 0 .. Len(p) /\ p[k] \in S
  BY ElementOfSeq, LenProperties
<1> DEFINE q == SubSeq(p, 1, k - 1)
           r == SubSeq(p, 1, k)
<1>2. q \in Seq(S) /\ Len(q) = k - 1 /\ \A i \in 1 .. k - 1 : q[i] = p[i]
  BY <1>1, Cut
<1>3. r \in Seq(S) /\ Len(r) = k /\ \A i \in 1 .. k : r[i] = p[i]
  BY <1>1, Cut
<1> HIDE DEF q, r
<1>4. /\ Append(q, p[k]) \in Seq(S) /\ Len(Append(q, p[k])) = Len(q) + 1
      /\ \A i \in 1 .. Len(q) : Append(q, p[k])[i] = q[i]
      /\ Append(q, p[k])[Len(q) + 1] = p[k]
  BY <1>1, <1>2, AppendProperties
<1>5. \A i \in 1 .. Len(r) : r[i] = Append(q, p[k])[i]
  <2> SUFFICES ASSUME NEW i \in 1 .. Len(r) PROVE r[i] = Append(q, p[k])[i]
    OBVIOUS
  <2>1. CASE i = k
    BY <2>1, <1>1, <1>2, <1>3, <1>4
  <2>2. CASE i # k
    BY <2>2, <1>1, <1>2, <1>3, <1>4
  <2> QED BY <2>1, <2>2
<1>6. Len(r) = Len(Append(q, p[k]))
  BY <1>1, <1>2, <1>3, <1>4
<1>7. r = Append(q, p[k])
  BY <1>3, <1>4, <1>5, <1>6, SeqEqual
<1> QED BY <1>7 DEF q, r

LEMMA WholeCut ==
  ASSUME NEW S, NEW p \in Seq(S)
  PROVE  SubSeq(p, 1, Len(p)) = p
BY SubSeqFull

\* A node below another is its parent and a key.
LEMMA Parent ==
  ASSUME NEW S, NEW n \in Seq(S), NEW p \in Seq(S), NEW e \in S
  PROVE  /\ n # <<>> => n = Append(Front(n), n[Len(n)]) /\ n[Len(n)] \in S /\ Front(n) \in Seq(S)
         /\ Front(Append(p, e)) = p /\ Append(p, e) # <<>>
         /\ Front(n) = p /\ n # <<>> /\ n[Len(n)] = e => n = Append(p, e)
<1>1. ASSUME n # <<>> PROVE n = Append(Front(n), n[Len(n)]) /\ n[Len(n)] \in S /\ Front(n) \in Seq(S)
  <2>1. Len(n) \in Nat \ {0}
    BY <1>1, EmptySeq
  <2>2. SubSeq(n, 1, Len(n)) = n /\ SubSeq(n, 1, Len(n)) = Append(SubSeq(n, 1, Len(n) - 1), n[Len(n)])
    <3>1. Len(n) \in 1 .. Len(n)
      BY <2>1
    <3> QED BY <3>1, CutStep, SubSeqFull
  <2>3. n[Len(n)] \in S
    BY <2>1, ElementOfSeq
  <2>4. SubSeq(n, 1, Len(n) - 1) \in Seq(S)
    <3>1. Len(n) - 1 \in 0 .. Len(n)
      BY <2>1
    <3> QED BY <3>1, Cut
  <2> QED BY <2>2, <2>3, <2>4 DEF Front
<1>2. Front(Append(p, e)) = p /\ Append(p, e) # <<>>
  <2> DEFINE q == Append(p, e)
  <2>1. q \in Seq(S) /\ q # <<>> /\ Len(q) = Len(p) + 1 /\ q[Len(p) + 1] = e /\ Len(p) \in Nat
        /\ \A i \in 1 .. Len(p) : q[i] = p[i]
    BY AppendProperties, LenProperties
  <2> HIDE DEF q
  <2>2. Len(q) - 1 = Len(p) /\ Len(p) \in 0 .. Len(q)
    BY <2>1
  <2>3. /\ SubSeq(q, 1, Len(p)) \in Seq(S) /\ Len(SubSeq(q, 1, Len(p))) = Len(p)
        /\ \A i \in 1 .. Len(p) : SubSeq(q, 1, Len(p))[i] = q[i]
    BY <2>1, <2>2, Cut
  <2>4. \A i \in 1 .. Len(p) : SubSeq(q, 1, Len(p))[i] = p[i]
    BY <2>1, <2>3
  <2>5. SubSeq(q, 1, Len(p)) = p
    BY <2>3, <2>4, SeqEqual
  <2> QED BY <2>1, <2>2, <2>5 DEF Front, q
<1> QED BY <1>1, <1>2

-----------------------------------------------------------------------------
(* Prefixes.                                                               *)

LEMMA PrefixIs ==
  ASSUME NEW S, NEW n \in Seq(S), NEW p \in Seq(S)
  PROVE  /\ n \in Prefixes(p) <=> Len(n) \in 0 .. Len(p) /\ n = SubSeq(p, 1, Len(n))
         /\ IsPrefix(n, p) <=> n \in Prefixes(p)
<1>1. Len(n) \in Nat /\ Len(p) \in Nat
  BY LenProperties
<1>2. ASSUME n \in Prefixes(p) PROVE Len(n) \in 0 .. Len(p) /\ n = SubSeq(p, 1, Len(n))
  <2>1. PICK k \in 0 .. Len(p) : n = SubSeq(p, 1, k)
    BY <1>2 DEF Prefixes
  <2>2. Len(n) = k
    BY <2>1, Cut
  <2> QED BY <2>1, <2>2
<1>3. ASSUME Len(n) \in 0 .. Len(p), n = SubSeq(p, 1, Len(n)) PROVE n \in Prefixes(p)
  BY <1>3 DEF Prefixes
<1>4. SubSeq(n, 1, Len(n)) = n
  BY SubSeqFull
<1>5. IsPrefix(n, p) <=> Len(n) \in 0 .. Len(p) /\ n = SubSeq(p, 1, Len(n))
  BY <1>1, <1>4 DEF IsPrefix
<1> QED BY <1>2, <1>3, <1>5

LEMMA PrefixesAre ==
  ASSUME NEW S, NEW p \in Seq(S)
  PROVE  /\ Prefixes(p) \subseteq Seq(S) /\ IsFiniteSet(Prefixes(p))
         /\ p \in Prefixes(p) /\ <<>> \in Prefixes(p)
<1>1. Len(p) \in Nat /\ SubSeq(p, 1, Len(p)) = p
  BY LenProperties, SubSeqFull
<1>2. Prefixes(p) \subseteq Seq(S)
  <2> SUFFICES ASSUME NEW k \in 0 .. Len(p) PROVE SubSeq(p, 1, k) \in Seq(S)
    BY DEF Prefixes
  <2> QED BY Cut
<1>3. IsFiniteSet(Prefixes(p))
  <2>1. IsFiniteSet(0 .. Len(p))
    BY <1>1, FS_Interval
  <2> DEFINE f == [k \in 0 .. Len(p) |-> SubSeq(p, 1, k)]
  <2>2. f \in Surjection(0 .. Len(p), Prefixes(p))
    BY DEF Surjection, Prefixes
  <2> QED BY <2>1, <2>2, FS_Surjection
<1>4. p \in Prefixes(p)
  <2>1. Len(p) \in 0 .. Len(p)
    BY <1>1
  <2> QED BY <1>1, <2>1 DEF Prefixes
<1>5. <<>> \in Prefixes(p)
  <2>1. SubSeq(p, 1, 0) = <<>>
    BY SubSeqEmpty
  <2>2. 0 \in 0 .. Len(p)
    BY <1>1
  <2> QED BY <2>1, <2>2 DEF Prefixes
<1> QED BY <1>2, <1>3, <1>4, <1>5

LEMMA PrefixTransitive ==
  ASSUME NEW S, NEW p \in Seq(S), NEW n \in Prefixes(p), NEW m \in Prefixes(n)
  PROVE  m \in Prefixes(p)
<1>1. n \in Seq(S) /\ Len(n) \in 0 .. Len(p) /\ n = SubSeq(p, 1, Len(n)) /\ Len(p) \in Nat
  BY PrefixesAre, PrefixIs, LenProperties
<1>2. m \in Seq(S) /\ Len(m) \in 0 .. Len(n) /\ m = SubSeq(n, 1, Len(m))
  BY <1>1, PrefixesAre, PrefixIs
<1>3. SubSeq(SubSeq(p, 1, Len(n)), 1, Len(m)) = SubSeq(p, 1, Len(m))
  BY <1>1, <1>2, CutTwice
<1>4. Len(m) \in 0 .. Len(p)
  BY <1>1, <1>2
<1>5. m = SubSeq(p, 1, Len(m))
  BY <1>1, <1>2, <1>3
<1> QED BY <1>2, <1>4, <1>5, PrefixIs

\* The front of a prefix is one, and a prefix that stops short goes on.
LEMMA PrefixFront ==
  ASSUME NEW S, NEW p \in Seq(S), NEW n \in Prefixes(p)
  PROVE  /\ n # <<>> => /\ Len(n) \in 1 .. Len(p) /\ Front(n) = SubSeq(p, 1, Len(n) - 1)
                        /\ n = Append(Front(n), p[Len(n)]) /\ Front(n) \in Prefixes(p)
         /\ n # p => Len(n) < Len(p) /\ SubSeq(p, 1, Len(n) + 1) = Append(n, p[Len(n) + 1])
                     /\ SubSeq(p, 1, Len(n) + 1) \in Prefixes(p)
<1>1. n \in Seq(S) /\ Len(n) \in 0 .. Len(p) /\ n = SubSeq(p, 1, Len(n)) /\ Len(p) \in Nat
  BY PrefixesAre, PrefixIs, LenProperties
<1>2. ASSUME n # <<>>
      PROVE  /\ Len(n) \in 1 .. Len(p) /\ Front(n) = SubSeq(p, 1, Len(n) - 1)
             /\ n = Append(Front(n), p[Len(n)]) /\ Front(n) \in Prefixes(p)
  <2>1. Len(n) \in 1 .. Len(p) /\ Len(n) - 1 \in 0 .. Len(n) /\ Len(n) - 1 \in 0 .. Len(p)
    <3>1. Len(n) # 0
      BY <1>1, <1>2, EmptySeq
    <3> QED BY <3>1, <1>1
  <2>2. SubSeq(SubSeq(p, 1, Len(n)), 1, Len(n) - 1) = SubSeq(p, 1, Len(n) - 1)
    BY <1>1, <2>1, CutTwice
  <2>3. Front(n) = SubSeq(p, 1, Len(n) - 1)
    BY <2>2, <1>1 DEF Front
  <2>4. SubSeq(p, 1, Len(n)) = Append(SubSeq(p, 1, Len(n) - 1), p[Len(n)])
    BY <2>1, CutStep
  <2>5. SubSeq(p, 1, Len(n) - 1) \in Prefixes(p)
    BY <2>1 DEF Prefixes
  <2> QED BY <1>1, <2>1, <2>3, <2>4, <2>5
<1>3. ASSUME n # p
      PROVE  Len(n) < Len(p) /\ SubSeq(p, 1, Len(n) + 1) = Append(n, p[Len(n) + 1])
             /\ SubSeq(p, 1, Len(n) + 1) \in Prefixes(p)
  <2>1. Len(n) # Len(p)
    BY <1>1, <1>3, SubSeqFull
  <2>2. Len(n) < Len(p) /\ Len(n) + 1 \in 1 .. Len(p) /\ Len(n) + 1 \in 0 .. Len(p) /\ (Len(n) + 1) - 1 = Len(n)
    BY <1>1, <2>1
  <2>3. SubSeq(p, 1, Len(n) + 1) = Append(SubSeq(p, 1, (Len(n) + 1) - 1), p[Len(n) + 1])
    BY <2>2, CutStep
  <2>4. SubSeq(p, 1, Len(n) + 1) \in Prefixes(p)
    BY <2>2 DEF Prefixes
  <2> QED BY <1>1, <2>2, <2>3, <2>4
<1> QED BY <1>2, <1>3

-----------------------------------------------------------------------------
(* What a table is held by.                                                *)

Key == Token \union {Param} \union {Len(line) : line \in Lines}

Way == UNION {Routes(line) : line \in Lines}

Entries == [tokens : Seq(Token \union {Param}), size : Nat \ {0}, tick : Nat, path : Way]

\* The nodes the entries' paths go through.
NodesOf(entries) == {<<>>} \union UNION {Prefixes(entries[s].path) : s \in DOMAIN entries}

TypedTable(entries) ==
  /\ entries \in [DOMAIN entries -> Entries]
  /\ DOMAIN entries \subseteq Nat /\ IsFiniteSet(DOMAIN entries)

TreeHolds(nodes, entries) ==
  /\ DOMAIN nodes = NodesOf(entries)
  /\ nodes = [n \in DOMAIN nodes |-> {s \in DOMAIN entries : entries[s].path = n}]

StampsHold(at, entries) ==
  /\ at = [t \in DOMAIN at |-> at[t]]
  /\ DOMAIN at = {entries[s].tick : s \in DOMAIN entries}
  /\ \A s \in DOMAIN entries : at[entries[s].tick] = s

CountsHold(index, entries) == index = {<<Len(entries[s].tokens), s>> : s \in DOMAIN entries}

\* Everything that tracks a cluster agrees with the table.
Holds(st) ==
  /\ TypedTable(st.table) /\ TreeHolds(st.tree, st.table)
  /\ StampsHold(st.stamps, st.table) /\ CountsHold(st.counts, st.table)

Now == [tree |-> tree, table |-> table, stamps |-> stamps, counts |-> counts]

LEMMA RouteIs ==
  ASSUME NEW line \in Lines
  PROVE  /\ line \in Seq(Token) /\ Len(line) \in Nat /\ Levels(line) \in 0 .. Len(line)
         /\ Range(line) \subseteq Token /\ DOMAIN line = 1 .. Len(line)
         /\ \A p \in Routes(line) :
              p \in Seq(Key) /\ p # <<>> /\ Len(p) = Levels(line) + 1 /\ p[1] = Len(line)
<1>1. line \in Seq(Token) /\ Len(line) \in Nat /\ DOMAIN line = 1 .. Len(line)
  BY DrainAssumption, LenProperties
<1>2. Levels(line) \in 0 .. Len(line)
  BY <1>1, DrainAssumption DEF Levels
<1>3. Range(line) \subseteq Token
  BY DEF Token
<1>4. ASSUME NEW p \in Routes(line)
      PROVE  p \in Seq(Key) /\ p # <<>> /\ Len(p) = Levels(line) + 1 /\ p[1] = Len(line)
  <2> DEFINE n == Levels(line) + 1
             K == {Len(line), Param} \union Range(line)
  <2>1. n \in Nat \ {0} /\ p \in [1 .. n -> K] /\ p[1] = Len(line)
    BY <1>1, <1>2, <1>4 DEF Routes
  <2>2. K \subseteq Key
    BY <1>3 DEF Key
  <2>3. p \in [1 .. n -> Key]
    BY <2>1, <2>2
  <2> HIDE DEF n, K
  <2>4. p \in Seq(Key)
    BY <2>1, <2>3, SeqDef
  <2>5. Len(p) = n
    BY <2>1, <2>3, <2>4, LenProperties
  <2>6. p # <<>>
    BY <2>1, <2>4, <2>5, EmptySeq
  <2> QED BY <2>1, <2>4, <2>5, <2>6 DEF n
<1> QED BY <1>1, <1>2, <1>3, <1>4

LEMMA WayIs ==
  ASSUME NEW p \in Way
  PROVE  p \in Seq(Key) /\ p # <<>>
BY RouteIs DEF Way

\* The nodes of a table are sequences of keys, finitely many, every prefix of
\* one another; fewer entries have fewer.
LEMMA NodesAre ==
  ASSUME NEW entries, TypedTable(entries)
  PROVE  /\ NodesOf(entries) \subseteq Seq(Key) /\ IsFiniteSet(NodesOf(entries))
         /\ \A s \in DOMAIN entries :
              entries[s].path \in Way /\ Prefixes(entries[s].path) \subseteq NodesOf(entries)
         /\ \A n \in NodesOf(entries) : \A m \in Prefixes(n) : m \in NodesOf(entries)
<1>1. \A s \in DOMAIN entries : entries[s].path \in Way
  <2> SUFFICES ASSUME NEW s \in DOMAIN entries PROVE entries[s].path \in Way
    OBVIOUS
  <2>1. entries[s] \in Entries
    BY DEF TypedTable
  <2> QED BY <2>1 DEF Entries
<1>2. \A s \in DOMAIN entries : entries[s].path \in Seq(Key)
  BY <1>1, WayIs
<1> DEFINE S == DOMAIN entries
           T == {Prefixes(entries[s].path) : s \in S}
           f == [s \in S |-> Prefixes(entries[s].path)]
<1>3. \A P \in T : IsFiniteSet(P) /\ P \subseteq Seq(Key)
  BY <1>2, PrefixesAre
<1>4. f \in Surjection(S, T)
  BY DEF Surjection
<1>5. IsFiniteSet(S)
  BY DEF TypedTable
<1>6. NodesOf(entries) = {<<>>} \union UNION T
  BY DEF NodesOf
<1>7. <<>> \in Seq(Key)
  BY EmptySeq
<1>8. \A s \in S : Prefixes(entries[s].path) \in T
  OBVIOUS
<1>9. \A n \in UNION T : \E s \in S : n \in Prefixes(entries[s].path)
  OBVIOUS
<1> HIDE DEF f, S, T
<1>10. IsFiniteSet(T)
  BY <1>4, <1>5, FS_Surjection
<1>11. IsFiniteSet(UNION T)
  BY <1>3, <1>10, FS_UNION
<1>12. IsFiniteSet({<<>>} \union UNION T)
  BY <1>11, FS_Singleton, FS_Union
<1>13. NodesOf(entries) \subseteq Seq(Key)
  BY <1>3, <1>6, <1>7
<1>14. ASSUME NEW n \in NodesOf(entries), NEW m \in Prefixes(n) PROVE m \in NodesOf(entries)
  <2>1. CASE n = <<>>
    <3>1. m \in Seq(Key) /\ Len(m) \in 0 .. Len(n) /\ Len(n) = 0 /\ m = SubSeq(n, 1, Len(m))
      BY <2>1, <1>7, <1>14, EmptySeq, PrefixesAre, PrefixIs
    <3>2. m = <<>>
      <4>1. Len(m) = 0
        BY <3>1
      <4> QED BY <3>1, <4>1, EmptySeq
    <3> QED BY <3>2, <1>6
  <2>2. CASE n \in UNION T
    <3>1. PICK s \in S : n \in Prefixes(entries[s].path)
      BY <1>9, <2>2
    <3>2. m \in Prefixes(entries[s].path)
      BY <1>2, <1>14, <3>1, PrefixTransitive DEF S
    <3> QED BY <3>1, <3>2, <1>6, <1>8
  <2> QED BY <1>6, <1>14, <2>1, <2>2
<1>15. \A s \in S : Prefixes(entries[s].path) \subseteq NodesOf(entries)
  BY <1>6, <1>8
<1> QED BY <1>1, <1>6, <1>12, <1>13, <1>14, <1>15 DEF S

-----------------------------------------------------------------------------
(* Forgetting.                                                             *)

LEMMA Rest ==
  ASSUME NEW entries, TypedTable(entries), NEW gone
  PROVE  /\ TypedTable(Restrict(entries, DOMAIN entries \ gone))
         /\ DOMAIN Restrict(entries, DOMAIN entries \ gone) = DOMAIN entries \ gone
         /\ \A s \in DOMAIN entries \ gone : Restrict(entries, DOMAIN entries \ gone)[s] = entries[s]
<1>1. IsFiniteSet(DOMAIN entries \ gone)
  BY FS_Difference DEF TypedTable
<1> QED BY <1>1 DEF Restrict, TypedTable

\* The tree that forgot is the tree of the rest.
LEMMA TreeForgets ==
  ASSUME NEW entries, NEW nodes, NEW gone, gone \subseteq DOMAIN entries,
         TypedTable(entries), TreeHolds(nodes, entries)
  PROVE  TreeHolds(Removed(nodes, entries, gone), Restrict(entries, DOMAIN entries \ gone))
<1> DEFINE rest == Restrict(entries, DOMAIN entries \ gone)
           paths == {entries[s].path : s \in gone}
           OnPath(n) == \E p \in paths : IsPrefix(n, p)
           left == [n \in DOMAIN nodes |-> IF n \in paths THEN nodes[n] \ gone ELSE nodes[n]]
           Kept(n) == n = <<>> \/ \E m \in DOMAIN nodes : IsPrefix(n, m) /\ (left[m] # {} \/ ~OnPath(m))
<1>1. Removed(nodes, entries, gone) = Restrict(left, {n \in DOMAIN nodes : Kept(n)})
  BY DEF Removed
<1>2. TypedTable(rest) /\ DOMAIN rest = DOMAIN entries \ gone /\ \A s \in DOMAIN rest : rest[s] = entries[s]
  BY Rest
<1>3. /\ DOMAIN nodes = NodesOf(entries)
      /\ \A n \in DOMAIN nodes : nodes[n] = {s \in DOMAIN entries : entries[s].path = n}
  BY DEF TreeHolds
<1>4. /\ NodesOf(entries) \subseteq Seq(Key)
      /\ \A s \in DOMAIN entries :
           entries[s].path \in Way /\ Prefixes(entries[s].path) \subseteq NodesOf(entries)
      /\ \A n \in NodesOf(entries) : \A m \in Prefixes(n) : m \in NodesOf(entries)
  BY NodesAre
<1>5. \A s \in DOMAIN entries : entries[s].path \in Seq(Key)
  BY <1>4, WayIs
<1>6. \A n \in DOMAIN nodes : left[n] = {s \in DOMAIN rest : rest[s].path = n}
  <2> SUFFICES ASSUME NEW n \in DOMAIN nodes PROVE left[n] = {s \in DOMAIN rest : rest[s].path = n}
    OBVIOUS
  <2>1. left[n] = {s \in DOMAIN entries \ gone : entries[s].path = n}
    <3>1. CASE n \in paths
      BY <3>1, <1>3
    <3>2. CASE n \notin paths
      <4>1. \A s \in gone : entries[s].path # n
        BY <3>2
      <4>2. left[n] = nodes[n]
        BY <3>2
      <4> QED BY <4>1, <4>2, <1>3
    <3> QED BY <3>1, <3>2
  <2> QED BY <2>1, <1>2
<1>7. \A n \in DOMAIN nodes, m \in DOMAIN nodes : IsPrefix(n, m) <=> n \in Prefixes(m)
  BY <1>3, <1>4, PrefixIs
<1> HIDE DEF left
<1>8. NodesOf(rest) = {n \in DOMAIN nodes : Kept(n)}
  <2>1. ASSUME NEW n \in NodesOf(rest) PROVE n \in DOMAIN nodes /\ Kept(n)
    <3>1. CASE n = <<>>
      BY <3>1, <1>3 DEF NodesOf
    <3>2. CASE n # <<>>
      <4>1. PICK s \in DOMAIN rest : n \in Prefixes(rest[s].path)
        BY <2>1, <3>2 DEF NodesOf
      <4>2. s \in DOMAIN entries /\ s \notin gone /\ rest[s].path = entries[s].path
        BY <4>1, <1>2
      <4> DEFINE p == entries[s].path
      <4>3. p \in Seq(Key) /\ n \in Prefixes(p) /\ Prefixes(p) \subseteq DOMAIN nodes
        BY <4>1, <4>2, <1>3, <1>4, <1>5
      <4>4. p \in DOMAIN nodes /\ n \in DOMAIN nodes /\ IsPrefix(n, p)
        BY <4>3, <1>7, PrefixesAre
      <4>5. s \in left[p]
        BY <4>1, <4>2, <4>4, <1>6
      <4> HIDE DEF p
      <4> QED BY <4>4, <4>5
    <3> QED BY <3>1, <3>2
  <2>2. ASSUME NEW n \in DOMAIN nodes, Kept(n) PROVE n \in NodesOf(rest)
    <3>1. CASE n = <<>>
      BY <3>1 DEF NodesOf
    <3>2. CASE n # <<>>
      <4>1. PICK m \in DOMAIN nodes : IsPrefix(n, m) /\ (left[m] # {} \/ ~OnPath(m))
        BY <2>2, <3>2
      <4>2. n \in Prefixes(m) /\ m \in Seq(Key) /\ n \in Seq(Key)
        BY <4>1, <1>3, <1>4, <1>7
      <4>3. \E s \in DOMAIN rest : m \in Prefixes(rest[s].path)
        <5>1. CASE left[m] # {}
          <6>1. PICK s \in DOMAIN rest : rest[s].path = m
            BY <5>1, <4>1, <1>6
          <6> QED BY <6>1, <4>2, PrefixesAre
        <5>2. CASE left[m] = {} /\ m # <<>>
          <6>1. PICK s \in DOMAIN entries : m \in Prefixes(entries[s].path)
            BY <5>2, <4>1, <1>3 DEF NodesOf
          <6>2. IsPrefix(m, entries[s].path)
            BY <6>1, <4>2, <1>5, PrefixIs
          <6>3. s \notin gone
            BY <6>2, <5>2, <4>1
          <6> QED BY <6>1, <6>3, <1>2
        <5>3. CASE m = <<>>
          <6>1. Len(n) \in 0 .. Len(m) /\ Len(m) = 0
            BY <5>3, <4>2, PrefixIs, EmptySeq
          <6>2. Len(n) = 0
            BY <6>1
          <6> QED BY <6>2, <4>2, <3>2, EmptySeq
        <5> QED BY <5>1, <5>2, <5>3
      <4>4. PICK s \in DOMAIN rest : m \in Prefixes(rest[s].path)
        BY <4>3
      <4>5. n \in Prefixes(rest[s].path)
        <5>1. rest[s].path \in Seq(Key)
          BY <4>4, <1>2, <1>5
        <5> QED BY <5>1, <4>2, <4>4, PrefixTransitive
      <4> QED BY <4>4, <4>5 DEF NodesOf
    <3> QED BY <3>1, <3>2
  <2> QED BY <2>1, <2>2
<1> HIDE DEF Kept, rest, OnPath, paths
<1>9. Restrict(left, {n \in DOMAIN nodes : Kept(n)}) =
        [n \in NodesOf(rest) |-> {s \in DOMAIN rest : rest[s].path = n}]
  BY <1>6, <1>8 DEF Restrict
<1>10. TreeHolds(Removed(nodes, entries, gone), rest)
  BY <1>1, <1>9 DEF TreeHolds
<1> QED BY <1>10 DEF rest

\* forget, on tables whose every index holds: it holds the rest.
LEMMA Forgets ==
  ASSUME NEW st, Holds(st), NEW gone, gone \subseteq DOMAIN st.table
  PROVE  /\ Holds(Forget(st, gone))
         /\ DOMAIN Forget(st, gone).table = DOMAIN st.table \ gone
         /\ \A s \in DOMAIN st.table \ gone : Forget(st, gone).table[s] = st.table[s]
<1> DEFINE e == st.table
           rest == Restrict(e, DOMAIN e \ gone)
           f == Forget(st, gone)
<1>1. /\ f.tree = Removed(st.tree, e, gone) /\ f.table = rest
      /\ f.stamps = Restrict(st.stamps, DOMAIN st.stamps \ {e[s].tick : s \in gone})
      /\ f.counts = st.counts \ {<<Len(e[s].tokens), s>> : s \in gone}
  BY DEF Forget
<1> HIDE DEF f
<1>2. TypedTable(e) /\ TreeHolds(st.tree, e) /\ StampsHold(st.stamps, e) /\ CountsHold(st.counts, e)
  BY DEF Holds
<1> HIDE DEF e
<1>3. TypedTable(rest) /\ DOMAIN rest = DOMAIN e \ gone /\ \A s \in DOMAIN rest : rest[s] = e[s]
  <2>1. TypedTable(rest) /\ DOMAIN rest = DOMAIN e \ gone /\ \A s \in DOMAIN e \ gone : rest[s] = e[s]
    <3>1. TypedTable(e)
      BY <1>2
    <3> QED BY <3>1, Rest
  <2> HIDE DEF rest
  <2> QED BY <2>1
<1>4. TreeHolds(f.tree, rest)
  <2>1. gone \subseteq DOMAIN e
    BY DEF e
  <2> QED BY <1>1, <1>2, <2>1, TreeForgets
<1> HIDE DEF rest
<1>5. StampsHold(f.stamps, rest)
  <2>1. \A s \in DOMAIN e : \A r \in DOMAIN e : e[r].tick = e[s].tick => r = s
    BY <1>2 DEF StampsHold
  <2>2. DOMAIN st.stamps = {e[s].tick : s \in DOMAIN e} /\ \A s \in DOMAIN e : st.stamps[e[s].tick] = s
    BY <1>2 DEF StampsHold
  <2>3. gone \subseteq DOMAIN e
    BY DEF e
  <2>4. DOMAIN f.stamps = DOMAIN st.stamps \ {e[s].tick : s \in gone}
        /\ f.stamps = [t \in DOMAIN f.stamps |-> st.stamps[t]]
    BY <1>1 DEF Restrict
  <2>5. DOMAIN f.stamps = {e[s].tick : s \in DOMAIN e \ gone}
    BY <2>1, <2>2, <2>3, <2>4
  <2>6. DOMAIN f.stamps = {rest[s].tick : s \in DOMAIN rest}
    BY <2>5, <1>3
  <2>7. ASSUME NEW s \in DOMAIN rest PROVE f.stamps[rest[s].tick] = s
    <3>1. rest[s].tick \in DOMAIN f.stamps /\ rest[s].tick = e[s].tick /\ s \in DOMAIN e
      BY <2>6, <2>7, <1>3
    <3> QED BY <3>1, <2>2, <2>4
  <2>8. f.stamps = [t \in DOMAIN f.stamps |-> f.stamps[t]]
    BY <2>4
  <2> QED BY <2>6, <2>7, <2>8 DEF StampsHold
<1>6. CountsHold(f.counts, rest)
  <2>1. f.counts = {<<Len(e[s].tokens), s>> : s \in DOMAIN e \ gone}
    BY <1>1, <1>2 DEF CountsHold
  <2> QED BY <2>1, <1>3 DEF CountsHold
<1>7. Holds(f)
  BY <1>1, <1>3, <1>4, <1>5, <1>6 DEF Holds
<1> QED BY <1>1, <1>3, <1>7 DEF f, e

-----------------------------------------------------------------------------
(* Eviction.                                                               *)

LEMMA LeastNumber ==
  ASSUME NEW S, S \subseteq Nat, S # {}
  PROVE  \E x \in S : \A y \in S : x <= y
<1> DEFINE R == OpToRel(<, Nat)
<1>1. IsWellFoundedOn(R, Nat)
  BY NatLessThanWellFounded
<1>2. PICK x \in S : \A y \in S : ~(<<y, x>> \in R)
  <2> HIDE DEF R
  <2> QED BY <1>1, WFMin
<1>3. \A y \in S : ~(y < x)
  BY <1>2 DEF OpToRel
<1> QED BY <1>3

\* The earliest of some ticks is the least.
LEMMA OneEarliest ==
  ASSUME NEW ticks, ticks \subseteq Nat, ticks # {}, IsFiniteSet(ticks)
  PROVE  \E m \in ticks : Earliest(ticks, 1) = {m} /\ \A t \in ticks : m <= t
<1>1. PICK m \in ticks : \A t \in ticks : m <= t
  BY LeastNumber
<1>2. \A t \in ticks : Cardinality({u \in ticks : u < t}) < 1 <=> {u \in ticks : u < t} = {}
  <2> SUFFICES ASSUME NEW t \in ticks
               PROVE Cardinality({u \in ticks : u < t}) < 1 <=> {u \in ticks : u < t} = {}
    OBVIOUS
  <2> DEFINE T == {u \in ticks : u < t}
  <2>1. T \in SUBSET ticks
    OBVIOUS
  <2> HIDE DEF T
  <2>2. IsFiniteSet(T) /\ Cardinality(T) \in Nat
    BY <2>1, FS_Subset, FS_CardinalityType
  <2>3. Cardinality(T) = 0 <=> T = {}
    BY <2>2, FS_EmptySet
  <2>4. Cardinality(T) < 1 <=> T = {}
    BY <2>2, <2>3
  <2> QED BY <2>4 DEF T
<1>3. \A t \in ticks : {u \in ticks : u < t} = {} <=> t = m
  <2> SUFFICES ASSUME NEW t \in ticks PROVE {u \in ticks : u < t} = {} <=> t = m
    OBVIOUS
  <2>1. t \in Nat /\ m \in Nat /\ m <= t /\ \A u \in ticks : m <= u /\ u \in Nat
    BY <1>1
  <2>2. ASSUME t # m PROVE m \in {u \in ticks : u < t}
    BY <2>1, <2>2
  <2>3. ASSUME t = m PROVE {u \in ticks : u < t} = {}
    <3>1. \A u \in ticks : ~(u < t)
      BY <2>1, <2>3
    <3> QED BY <3>1
  <2> QED BY <2>2, <2>3
<1>4. Earliest(ticks, 1) = {t \in ticks : t = m}
  BY <1>2, <1>3 DEF Earliest
<1> QED BY <1>1, <1>4

\* One too many in the leaf: the least recent of the others goes.
LeafFits(st, leaf, newest, fit) ==
  \/ fit = st /\ (MaxLeafClusters > 0 => Cardinality(leaf) <= MaxLeafClusters)
  \/ MaxLeafClusters > 0 /\ \E s \in leaf \ {newest} :
       /\ fit = Forget(st, {s})
       /\ \A r \in leaf \ {newest, s} : st.table[s].tick < st.table[r].tick

LEMMA LeafEvicts ==
  ASSUME NEW st, Holds(st), NEW newest \in DOMAIN st.table, NEW path, path = st.table[newest].path,
         MaxLeafClusters > 0 => Cardinality(st.tree[path]) <= MaxLeafClusters + 1
  PROVE  LeafFits(st, st.tree[path], newest, EvictFromLeaf(st, path, newest))
<1> DEFINE leaf == st.tree[path]
           T(s) == st.table[s].tick
           fit == EvictFromLeaf(st, path, newest)
<1>1. TypedTable(st.table) /\ TreeHolds(st.tree, st.table) /\ StampsHold(st.stamps, st.table)
  BY DEF Holds
<1>2. path \in NodesOf(st.table)
  <2>1. Prefixes(path) \subseteq NodesOf(st.table) /\ path \in Seq(Key)
    BY <1>1, NodesAre, WayIs
  <2> QED BY <2>1, PrefixesAre
<1>3. leaf = {s \in DOMAIN st.table : st.table[s].path = path}
  BY <1>1, <1>2 DEF TreeHolds
<1>4. newest \in leaf /\ leaf \subseteq DOMAIN st.table /\ IsFiniteSet(leaf) /\ Cardinality(leaf) \in Nat
  <2>1. newest \in leaf /\ leaf \in SUBSET DOMAIN st.table
    BY <1>3
  <2> HIDE DEF leaf
  <2>2. IsFiniteSet(leaf)
    BY <2>1, <1>1, FS_Subset DEF TypedTable
  <2> QED BY <2>1, <2>2, FS_CardinalityType
<1>5. \A s \in leaf, r \in leaf : T(s) \in Nat /\ (T(s) = T(r) => s = r)
  <2>1. \A s \in DOMAIN st.table : T(s) \in Nat
    <3> SUFFICES ASSUME NEW s \in DOMAIN st.table PROVE T(s) \in Nat
      OBVIOUS
    <3>1. st.table[s] \in Entries
      BY <1>1 DEF TypedTable
    <3> QED BY <3>1 DEF Entries
  <2>2. \A s \in DOMAIN st.table : st.stamps[T(s)] = s
    BY <1>1 DEF StampsHold
  <2> HIDE DEF leaf, T
  <2> QED BY <2>1, <2>2, <1>4
<1>6. MaxLeafClusters \in Nat /\ (MaxLeafClusters > 0 => Cardinality(leaf) <= MaxLeafClusters + 1)
  BY DrainAssumption
<1>7. fit = IF MaxLeafClusters = 0 \/ Cardinality(leaf) - MaxLeafClusters <= 0 THEN st
            ELSE Forget(st, {s \in leaf : T(s) \in
                   Earliest({T(s1) : s1 \in leaf \ {newest}}, Cardinality(leaf) - MaxLeafClusters)})
  <2>1. leaf \intersect DOMAIN st.table = leaf
    BY <1>4
  <2> QED BY <2>1 DEF EvictFromLeaf
<1>8. CASE MaxLeafClusters = 0 \/ Cardinality(leaf) - MaxLeafClusters <= 0
  <2>1. fit = st
    BY <1>7, <1>8
  <2>2. MaxLeafClusters > 0 => Cardinality(leaf) <= MaxLeafClusters
    <3> HIDE DEF leaf
    <3> QED BY <1>4, <1>6, <1>8
  <2> QED BY <2>1, <2>2 DEF LeafFits
<1>9. CASE MaxLeafClusters # 0 /\ ~(Cardinality(leaf) - MaxLeafClusters <= 0)
  <2> HIDE DEF leaf, T, fit
  <2>1. Cardinality(leaf) - MaxLeafClusters = 1 /\ MaxLeafClusters > 0 /\ Cardinality(leaf) >= 2
    BY <1>4, <1>6, <1>9
  <2> DEFINE others == leaf \ {newest}
             ticks == {T(s1) : s1 \in others}
             f == [s \in others |-> T(s)]
  <2>2. others # {} /\ IsFiniteSet(others)
    <3>1. IsFiniteSet(leaf \ {newest}) /\ Cardinality(leaf \ {newest}) = Cardinality(leaf) - 1
      BY <1>4, FS_RemoveElement
    <3>2. Cardinality(leaf \ {newest}) # 0
      BY <3>1, <2>1, <1>4
    <3> QED BY <3>1, <3>2, FS_EmptySet
  <2>3. ticks # {} /\ ticks \subseteq Nat /\ IsFiniteSet(ticks)
    <3>1. f \in Surjection(others, ticks)
      BY DEF Surjection
    <3>2. ticks # {} /\ ticks \subseteq Nat
      BY <1>5, <2>2
    <3> HIDE DEF others, ticks, f
    <3> QED BY <3>1, <3>2, <2>2, FS_Surjection
  <2>4. PICK m \in ticks : Earliest(ticks, 1) = {m} /\ \A t \in ticks : m <= t
    <3> HIDE DEF ticks
    <3> QED BY <2>3, OneEarliest
  <2>5. PICK s \in others : T(s) = m
    BY <2>4
  <2>6. {r \in leaf : T(r) \in Earliest(ticks, 1)} = {s}
    BY <2>4, <2>5, <1>5
  <2>7. fit = Forget(st, {s})
    BY <1>7, <1>9, <2>1, <2>6
  <2>8. \A r \in leaf \ {newest, s} : T(s) < T(r)
    <3> SUFFICES ASSUME NEW r \in leaf \ {newest, s} PROVE T(s) < T(r)
      OBVIOUS
    <3>1. r \in others /\ r # s /\ r \in leaf /\ s \in leaf
      OBVIOUS
    <3>2. T(r) \in ticks
      BY <3>1
    <3>3. m <= T(r) /\ T(s) = m /\ T(s) # T(r) /\ T(s) \in Nat /\ T(r) \in Nat
      BY <3>1, <3>2, <2>4, <2>5, <1>5
    <3> QED BY <3>3
  <2>9. s \in leaf \ {newest}
    OBVIOUS
  <2> HIDE DEF others, ticks, f
  <2> QED BY <2>1, <2>7, <2>8, <2>9 DEF leaf, T, fit, LeafFits
<1> QED BY <1>8, <1>9

\* One too many in the table: the least recent goes, which is not the newest.
LEMMA TableEvicts ==
  ASSUME NEW st, Holds(st), NEW newest \in DOMAIN st.table,
         \A r \in DOMAIN st.table \ {newest} : st.table[r].tick < st.table[newest].tick,
         MaxClusters > 0 => Cardinality(DOMAIN st.table) <= MaxClusters + 1
  PROVE  \/ Evict(st) = st /\ (MaxClusters > 0 => Cardinality(DOMAIN st.table) <= MaxClusters)
         \/ /\ MaxClusters > 0 /\ Cardinality(DOMAIN st.table) = MaxClusters + 1
            /\ \E s \in DOMAIN st.table \ {newest} :
                 /\ Evict(st) = Forget(st, {s})
                 /\ \A r \in DOMAIN st.table \ {s} : st.table[s].tick < st.table[r].tick
<1> DEFINE D == DOMAIN st.table
           T(s) == st.table[s].tick
<1>1. TypedTable(st.table) /\ StampsHold(st.stamps, st.table)
  BY DEF Holds
<1>2. IsFiniteSet(D) /\ Cardinality(D) \in Nat /\ MaxClusters \in Nat
  BY <1>1, FS_CardinalityType, DrainAssumption DEF TypedTable
<1>3. \A s \in D : T(s) \in Nat
  <2> SUFFICES ASSUME NEW s \in D PROVE T(s) \in Nat
    OBVIOUS
  <2>1. st.table[s] \in Entries
    BY <1>1 DEF TypedTable
  <2> QED BY <2>1 DEF Entries
<1>4. DOMAIN st.stamps = {T(s) : s \in D} /\ \A s \in D : st.stamps[T(s)] = s
  BY <1>1 DEF StampsHold
<1>5. Evict(st) = IF MaxClusters = 0 \/ Cardinality(D) - MaxClusters <= 0 THEN st
                  ELSE Forget(st, {st.stamps[t] : t \in Earliest(DOMAIN st.stamps, Cardinality(D) - MaxClusters)})
  BY DEF Evict
<1>6. newest \in D /\ (\A r \in D \ {newest} : T(r) < T(newest)) /\ (MaxClusters > 0 => Cardinality(D) <= MaxClusters + 1)
  OBVIOUS
<1> HIDE DEF D, T
<1>7. CASE MaxClusters = 0 \/ Cardinality(D) - MaxClusters <= 0
  <2>1. Evict(st) = st
    BY <1>5, <1>7
  <2>2. MaxClusters > 0 => Cardinality(D) <= MaxClusters
    BY <1>2, <1>7
  <2> QED BY <2>1, <2>2 DEF D
<1>8. CASE MaxClusters # 0 /\ ~(Cardinality(D) - MaxClusters <= 0)
  <2>1. Cardinality(D) - MaxClusters = 1 /\ MaxClusters > 0 /\ Cardinality(D) = MaxClusters + 1 /\ Cardinality(D) >= 2
    BY <1>2, <1>6, <1>8
  <2> DEFINE ticks == DOMAIN st.stamps
             f == [s \in D |-> T(s)]
  <2>2. ticks # {} /\ ticks \subseteq Nat /\ IsFiniteSet(ticks)
    <3>1. f \in Surjection(D, ticks)
      BY <1>4 DEF Surjection
    <3>2. ticks # {} /\ ticks \subseteq Nat
      BY <1>3, <1>4, <1>6
    <3> HIDE DEF ticks, f
    <3> QED BY <3>1, <3>2, <1>2, FS_Surjection
  <2>3. PICK m \in ticks : Earliest(ticks, 1) = {m} /\ \A t \in ticks : m <= t
    <3> HIDE DEF ticks
    <3> QED BY <2>2, OneEarliest
  <2>4. PICK s \in D : T(s) = m
    BY <2>3, <1>4
  <2>5. {st.stamps[t] : t \in Earliest(ticks, 1)} = {s}
    BY <2>3, <2>4, <1>4
  <2>6. Evict(st) = Forget(st, {s})
    BY <1>5, <1>8, <2>1, <2>5
  <2>7. \A r \in D \ {s} : T(s) < T(r)
    <3> SUFFICES ASSUME NEW r \in D \ {s} PROVE T(s) < T(r)
      OBVIOUS
    <3>1. r \in D /\ r # s /\ T(r) \in ticks
      BY <1>4
    <3>2. m <= T(r) /\ T(s) # T(r) /\ T(s) \in Nat /\ T(r) \in Nat
      BY <3>1, <2>3, <2>4, <1>3, <1>4
    <3> QED BY <3>2, <2>4
  <2>8. s # newest
    <3>1. PICK r \in D : r # newest
      <4>1. Cardinality(D \ {newest}) = Cardinality(D) - 1 /\ IsFiniteSet(D \ {newest})
        BY <1>2, <1>6, FS_RemoveElement
      <4>2. Cardinality(D \ {newest}) # 0
        BY <4>1, <2>1, <1>2
      <4> QED BY <4>1, <4>2, FS_EmptySet
    <3>2. T(r) < T(newest) /\ T(r) \in Nat /\ T(newest) \in Nat
      BY <3>1, <1>3, <1>6
    <3>3. s = newest => T(newest) < T(r)
      BY <3>1, <2>7
    <3> QED BY <3>2, <3>3
  <2> QED BY <2>1, <2>4, <2>6, <2>7, <2>8 DEF D, T
<1> QED BY <1>7, <1>8

\* What may be forgotten for `newest`: nothing, or one other cluster, the least
\* recent of the table, or of its leaf, which is the newest's.
Victim(entries, newest, gone) ==
  \/ gone = {}
  \/ \E s \in DOMAIN entries \ {newest} :
       /\ gone = {s}
       /\ \/ \A r \in DOMAIN entries \ {s} : entries[s].tick < entries[r].tick
          \/ /\ entries[s].path = entries[newest].path
             /\ \A r \in DOMAIN entries \ {s, newest} :
                  entries[r].path = entries[s].path => entries[s].tick < entries[r].tick

\* `room` is st with nothing forgotten but such a victim, at its caps again.
MadeRoom(st, leaf, newest, room) ==
  /\ Holds(room)
  /\ MaxClusters > 0 => Cardinality(DOMAIN room.table) <= MaxClusters
  /\ \E gone : /\ Victim(st.table, newest, gone)
               /\ DOMAIN room.table = DOMAIN st.table \ gone
               /\ \A s \in DOMAIN room.table : room.table[s] = st.table[s]
               /\ MaxLeafClusters > 0 => Cardinality(leaf \ gone) <= MaxLeafClusters

LEMMA RoomIsMade ==
  ASSUME NEW st, Holds(st), NEW newest \in DOMAIN st.table, NEW path, path = st.table[newest].path,
         \A r \in DOMAIN st.table \ {newest} : st.table[r].tick < st.table[newest].tick,
         MaxLeafClusters > 0 => Cardinality(st.tree[path]) <= MaxLeafClusters + 1,
         MaxClusters > 0 => Cardinality(DOMAIN st.table) <= MaxClusters + 1
  PROVE  MadeRoom(st, st.tree[path], newest, Evict(EvictFromLeaf(st, path, newest)))
<1>0. LeafFits(st, st.tree[path], newest, EvictFromLeaf(st, path, newest))
  BY LeafEvicts
<1> DEFINE fit == EvictFromLeaf(st, path, newest)
           leaf == st.tree[path]
           room == Evict(fit)
           D == DOMAIN st.table
           T(s) == st.table[s].tick
           Goal == MadeRoom(st, leaf, newest, room)
<1>1. TypedTable(st.table) /\ TreeHolds(st.tree, st.table) /\ IsFiniteSet(D) /\ Cardinality(D) \in Nat
  BY FS_CardinalityType DEF Holds, TypedTable
<1>2. leaf = {s \in D : st.table[s].path = path} /\ newest \in D /\ newest \in leaf
  <2>1. Prefixes(path) \subseteq NodesOf(st.table) /\ path \in Seq(Key)
    BY <1>1, NodesAre, WayIs
  <2>2. path \in NodesOf(st.table)
    BY <2>1, PrefixesAre
  <2> QED BY <1>1, <2>2 DEF TreeHolds
<1>3. IsFiniteSet(leaf) /\ Cardinality(leaf) \in Nat
  <2>1. leaf \in SUBSET D
    BY <1>2
  <2> HIDE DEF leaf, D
  <2>2. IsFiniteSet(leaf)
    BY <1>1, <2>1, FS_Subset
  <2> QED BY <2>2, FS_CardinalityType
<1>4. \/ fit = st /\ (MaxLeafClusters > 0 => Cardinality(leaf) <= MaxLeafClusters)
      \/ MaxLeafClusters > 0 /\ \E s \in leaf \ {newest} :
           fit = Forget(st, {s}) /\ \A r \in leaf \ {newest, s} : T(s) < T(r)
  BY <1>0 DEF LeafFits
<1>5. MaxClusters \in Nat /\ MaxLeafClusters \in Nat
  BY DrainAssumption
<1>6. ASSUME fit = st, MaxLeafClusters > 0 => Cardinality(leaf) <= MaxLeafClusters
      PROVE  Goal
  <2>1. \/ Evict(st) = st /\ (MaxClusters > 0 => Cardinality(D) <= MaxClusters)
        \/ /\ MaxClusters > 0 /\ Cardinality(D) = MaxClusters + 1
           /\ \E s \in D \ {newest} : Evict(st) = Forget(st, {s}) /\ \A r \in D \ {s} : T(s) < T(r)
    BY TableEvicts
  <2>2. room = Evict(st)
    BY <1>6
  <2>3. ASSUME Evict(st) = st, MaxClusters > 0 => Cardinality(D) <= MaxClusters
        PROVE  Goal
    <3>1. room = st
      BY <2>2, <2>3
    <3>2. Victim(st.table, newest, {}) /\ D \ {} = D /\ leaf \ {} = leaf
      BY DEF Victim
    <3>3. \A s \in DOMAIN room.table : room.table[s] = st.table[s]
      BY <3>1
    <3> HIDE DEF room, leaf
    <3> QED BY <1>6, <2>3, <3>1, <3>2, <3>3 DEF MadeRoom
  <2>4. ASSUME NEW s \in D \ {newest}, Evict(st) = Forget(st, {s}), \A r \in D \ {s} : T(s) < T(r),
               Cardinality(D) = MaxClusters + 1, MaxClusters > 0
        PROVE  Goal
    <3>1. /\ Holds(room) /\ DOMAIN room.table = D \ {s}
          /\ \A r \in D \ {s} : room.table[r] = st.table[r]
      <4>1. {s} \subseteq DOMAIN st.table
        OBVIOUS
      <4> HIDE DEF room
      <4> QED BY <2>2, <2>4, <4>1, Forgets
    <3>2. Cardinality(D \ {s}) <= MaxClusters
      <4>1. s \in D /\ IsFiniteSet(D)
        BY <1>1
      <4>2. Cardinality(D \ {s}) = Cardinality(D) - 1
        <5> HIDE DEF D
        <5> QED BY <4>1, FS_RemoveElement
      <4> QED BY <4>2, <2>4, <1>1, <1>5
    <3>3. Victim(st.table, newest, {s})
      BY <2>4 DEF Victim
    <3>4. MaxLeafClusters > 0 => Cardinality(leaf \ {s}) <= MaxLeafClusters
      <4> HIDE DEF leaf
      <4>1. Cardinality(leaf \ {s}) <= Cardinality(leaf) /\ Cardinality(leaf \ {s}) \in Nat
        <5>1. IsFiniteSet(leaf \ {s}) /\ leaf \ {s} \in SUBSET leaf
          BY <1>3, FS_Difference
        <5> QED BY <5>1, <1>3, FS_Subset, FS_CardinalityType
      <4> QED BY <4>1, <1>3, <1>5, <1>6
    <3> HIDE DEF room, leaf
    <3> QED BY <3>1, <3>2, <3>3, <3>4 DEF MadeRoom
  <2> HIDE DEF Goal, D, T, room
  <2> QED BY <2>1, <2>3, <2>4
<1>7. ASSUME MaxLeafClusters > 0, NEW s \in leaf \ {newest}, fit = Forget(st, {s}),
             \A r \in leaf \ {newest, s} : T(s) < T(r)
      PROVE  Goal
  <2>1. s \in D /\ st.table[s].path = path /\ s # newest /\ s \in leaf
    BY <1>2, <1>7
  <2>2. /\ Holds(fit) /\ DOMAIN fit.table = D \ {s}
        /\ \A r \in D \ {s} : fit.table[r] = st.table[r]
    <3>1. {s} \subseteq DOMAIN st.table
      BY <2>1
    <3> HIDE DEF fit
    <3> QED BY <1>7, <3>1, Forgets
  <2> HIDE DEF fit
  <2>3. MaxClusters > 0 => Cardinality(DOMAIN fit.table) <= MaxClusters
    <3>1. Cardinality(D \ {s}) = Cardinality(D) - 1
      <4>1. IsFiniteSet(D)
        BY <1>1
      <4> HIDE DEF D
      <4> QED BY <4>1, <2>1, FS_RemoveElement
    <3> QED BY <3>1, <2>2, <1>1, <1>5
  <2>4. room = fit
    <3>1. IsFiniteSet(DOMAIN fit.table) /\ Cardinality(DOMAIN fit.table) \in Nat
      <4>1. IsFiniteSet(DOMAIN fit.table)
        BY <2>2 DEF Holds, TypedTable
      <4> QED BY <4>1, FS_CardinalityType
    <3>2. MaxClusters = 0 \/ Cardinality(DOMAIN fit.table) - MaxClusters <= 0
      BY <3>1, <2>3, <1>5
    <3> QED BY <3>2 DEF Evict
  <2>5. Victim(st.table, newest, {s})
    <3>1. \A r \in D \ {s, newest} : st.table[r].path = st.table[s].path => T(s) < T(r)
      BY <2>1, <1>2, <1>7
    <3> QED BY <3>1, <2>1 DEF Victim
  <2>6. Cardinality(leaf \ {s}) <= MaxLeafClusters
    <3>1. Cardinality(leaf \ {s}) = Cardinality(leaf) - 1
      <4>1. s \in leaf /\ IsFiniteSet(leaf)
        BY <2>1, <1>3
      <4> HIDE DEF leaf
      <4> QED BY <4>1, FS_RemoveElement
    <3>2. Cardinality(leaf) <= MaxLeafClusters + 1
      BY <1>7
    <3> HIDE DEF leaf
    <3> QED BY <3>1, <3>2, <1>3, <1>5
  <2> HIDE DEF room, leaf
  <2> QED BY <2>2, <2>3, <2>4, <2>5, <2>6 DEF MadeRoom
<1>8. Goal
  <2> HIDE DEF leaf, fit, T, Goal
  <2> QED BY <1>4, <1>6, <1>7
<1> QED BY <1>8

-----------------------------------------------------------------------------
(* The fan-out.                                                            *)

Under(nodes, node) == {n \in nodes : n # <<>> /\ Front(n) = node}

FanOutHolds(nodes) ==
  \A n \in nodes \ {<<>>} :
    Cardinality(Under(nodes, n)) <= IF Append(n, Param) \in nodes THEN MaxChildren ELSE MaxChildren - 1

\* Nodes go, the parameter's last or first: every place kept stays kept.
LEMMA FanOutShrinks ==
  ASSUME NEW nodes, nodes \subseteq Seq(Key), IsFiniteSet(nodes), FanOutHolds(nodes),
         NEW fewer, fewer \subseteq nodes
  PROVE  FanOutHolds(fewer)
<1> SUFFICES ASSUME NEW n \in fewer \ {<<>>}
             PROVE  Cardinality(Under(fewer, n)) <=
                      IF Append(n, Param) \in fewer THEN MaxChildren ELSE MaxChildren - 1
  BY DEF FanOutHolds
<1> DEFINE U == Under(nodes, n)
           V == Under(fewer, n)
           c == Append(n, Param)
<1>1. V \subseteq U /\ U \subseteq nodes /\ V \subseteq fewer
  BY DEF Under
<1>2. n \in Seq(Key) /\ Param \in Key /\ n \in nodes \ {<<>>}
  BY DEF Key
<1>3. Front(c) = n /\ c # <<>>
  BY <1>2, Parent
<1>4. c \in nodes => c \in U
  BY <1>3 DEF Under
<1>5. Cardinality(U) <= IF c \in nodes THEN MaxChildren ELSE MaxChildren - 1
  BY <1>2 DEF FanOutHolds
<1> HIDE DEF U, V, c
<1>6. IsFiniteSet(U) /\ IsFiniteSet(V) /\ Cardinality(U) \in Nat /\ Cardinality(V) \in Nat /\ Cardinality(V) <= Cardinality(U)
  <2>1. U \in SUBSET nodes /\ V \in SUBSET U
    BY <1>1
  <2>2. IsFiniteSet(U)
    BY <2>1, FS_Subset
  <2> QED BY <2>1, <2>2, FS_Subset, FS_CardinalityType
<1>7. MaxChildren \in Nat \ {0}
  BY DrainAssumption
<1>8. ASSUME c \notin fewer, c \in nodes PROVE Cardinality(V) <= MaxChildren - 1
  <2>1. V \in SUBSET (U \ {c}) /\ c \in U
    BY <1>1, <1>4, <1>8
  <2>2. IsFiniteSet(U \ {c}) /\ Cardinality(U \ {c}) = Cardinality(U) - 1
    BY <2>1, <1>6, FS_RemoveElement
  <2>3. Cardinality(V) <= Cardinality(U \ {c})
    BY <2>1, <2>2, FS_Subset
  <2>4. Cardinality(U) <= MaxChildren
    BY <1>5, <1>8
  <2> QED BY <2>2, <2>3, <2>4, <1>6, <1>7
<1>9. Cardinality(V) <= IF c \in fewer THEN MaxChildren ELSE MaxChildren - 1
  <2>1. CASE c \in fewer
    BY <2>1, <1>5, <1>6, <1>7
  <2>2. CASE c \notin fewer /\ c \in nodes
    BY <2>2, <1>8
  <2>3. CASE c \notin fewer /\ c \notin nodes
    BY <2>3, <1>5, <1>6, <1>7
  <2> QED BY <2>1, <2>2, <2>3
<1> QED BY <1>9 DEF V, c

-----------------------------------------------------------------------------
(* insert finds its way.                                                   *)

\* Level by level: the key of a node is a matter of the nodes above it.
LEMMA InsertGoesOn ==
  ASSUME NEW line \in Lines, NEW k \in Nat, k < Levels(line),
         NEW p \in Seq(Key), Len(p) = k + 1, \A i \in 1 .. k + 1 : p[i] \in {Len(line), Param} \union Range(line),
         p[1] = Len(line), \A j \in 1 .. k : p[j + 1] = InsertKey(SubSeq(p, 1, j), line[j])
  PROVE  \E q \in Seq(Key) :
           /\ Len(q) = k + 2 /\ \A i \in 1 .. k + 2 : q[i] \in {Len(line), Param} \union Range(line)
           /\ q[1] = Len(line) /\ \A j \in 1 .. k + 1 : q[j + 1] = InsertKey(SubSeq(q, 1, j), line[j])
<1>1. /\ line \in Seq(Token) /\ Len(line) \in Nat /\ Levels(line) \in 0 .. Len(line)
      /\ Range(line) \subseteq Token /\ DOMAIN line = 1 .. Len(line)
  BY RouteIs
<1> DEFINE key == InsertKey(p, line[k + 1])
           q == Append(p, key)
<1>2. key \in {Param} \union Range(line)
  <2>1. k + 1 \in DOMAIN line
    BY <1>1
  <2>2. line[k + 1] \in Range(line)
    BY <2>1 DEF Range
  <2> QED BY <2>2 DEF InsertKey
<1>3. key \in Key
  BY <1>1, <1>2 DEF Key
<1> HIDE DEF key
<1>4. q \in Seq(Key) /\ Len(q) = k + 2 /\ (\A i \in 1 .. k + 1 : q[i] = p[i]) /\ q[k + 2] = key
  BY <1>3, AppendProperties
<1> HIDE DEF q
<1>5. \A j \in 1 .. k + 1 : SubSeq(q, 1, j) = SubSeq(p, 1, j)
  <2> SUFFICES ASSUME NEW j \in 1 .. k + 1 PROVE SubSeq(q, 1, j) = SubSeq(p, 1, j)
    OBVIOUS
  <2>1. j \in 0 .. Len(q) /\ j \in 0 .. Len(p)
    BY <1>4
  <2>2. /\ SubSeq(q, 1, j) \in Seq(Key) /\ Len(SubSeq(q, 1, j)) = j
        /\ \A i \in 1 .. j : SubSeq(q, 1, j)[i] = q[i]
    BY <2>1, <1>4, Cut
  <2>3. /\ SubSeq(p, 1, j) \in Seq(Key) /\ Len(SubSeq(p, 1, j)) = j
        /\ \A i \in 1 .. j : SubSeq(p, 1, j)[i] = p[i]
    BY <2>1, Cut
  <2>4. \A i \in 1 .. j : SubSeq(q, 1, j)[i] = SubSeq(p, 1, j)[i]
    BY <2>2, <2>3, <1>4
  <2> QED BY <2>2, <2>3, <2>4, SeqEqual
<1>6. \A j \in 1 .. k + 1 : q[j + 1] = InsertKey(SubSeq(q, 1, j), line[j])
  <2> SUFFICES ASSUME NEW j \in 1 .. k + 1 PROVE q[j + 1] = InsertKey(SubSeq(q, 1, j), line[j])
    OBVIOUS
  <2>1. SubSeq(q, 1, j) = SubSeq(p, 1, j)
    BY <1>5
  <2>2. CASE j = k + 1
    <3>1. SubSeq(p, 1, j) = p
      BY <2>2, SubSeqFull
    <3>2. q[j + 1] = InsertKey(p, line[j])
      BY <2>2, <1>4 DEF key
    <3> QED BY <3>1, <3>2, <2>1
  <2>3. CASE j # k + 1
    <3>1. j \in 1 .. k /\ j + 1 \in 1 .. k + 1
      BY <2>3
    <3>2. q[j + 1] = p[j + 1] /\ p[j + 1] = InsertKey(SubSeq(p, 1, j), line[j])
      BY <3>1, <1>4
    <3> QED BY <3>2, <2>1
  <2> QED BY <2>2, <2>3
<1>7. \A i \in 1 .. k + 2 : q[i] \in {Len(line), Param} \union Range(line)
  <2> SUFFICES ASSUME NEW i \in 1 .. k + 2 PROVE q[i] \in {Len(line), Param} \union Range(line)
    OBVIOUS
  <2>1. CASE i = k + 2
    BY <2>1, <1>2, <1>4
  <2>2. CASE i # k + 2
    <3>1. i \in 1 .. k + 1
      BY <2>2
    <3> QED BY <3>1, <1>4
  <2> QED BY <2>1, <2>2
<1>8. q[1] = Len(line)
  <2>1. 1 \in 1 .. k + 1
    OBVIOUS
  <2> QED BY <2>1, <1>4
<1> QED BY <1>4, <1>6, <1>7, <1>8

\* insert always ends at a leaf of its line.
LEMMA InsertArrives ==
  ASSUME NEW line \in Lines
  PROVE  /\ InsertPath(line) \in Routes(line)
         /\ \A k \in 1 .. Levels(line) :
              InsertPath(line)[k + 1] = InsertKey(SubSeq(InsertPath(line), 1, k), line[k])
<1> DEFINE K == {Len(line), Param} \union Range(line)
           Reached(k) == \E p \in Seq(Key) :
             /\ Len(p) = k + 1 /\ \A i \in 1 .. k + 1 : p[i] \in K
             /\ p[1] = Len(line) /\ \A j \in 1 .. k : p[j + 1] = InsertKey(SubSeq(p, 1, j), line[j])
           Missed == {k \in 0 .. Levels(line) : ~Reached(k)}
<1>1. /\ line \in Seq(Token) /\ Len(line) \in Nat /\ Levels(line) \in 0 .. Len(line)
      /\ Range(line) \subseteq Token
  BY RouteIs
<1>2. Reached(0)
  <2> DEFINE p == <<Len(line)>>
  <2>1. Len(line) \in Key
    BY DEF Key
  <2>2. p \in Seq(Key) /\ Len(p) = 1 /\ p[1] = Len(line)
    BY <2>1
  <2>3. \A i \in 1 .. 0 + 1 : p[i] \in K
    BY <2>2
  <2>4. \A j \in 1 .. 0 : p[j + 1] = InsertKey(SubSeq(p, 1, j), line[j])
    OBVIOUS
  <2> HIDE DEF p, K
  <2> QED BY <2>2, <2>3, <2>4
<1>3. ASSUME NEW k \in Nat, k < Levels(line), Reached(k) PROVE Reached(k + 1)
  <2>1. PICK p \in Seq(Key) :
          /\ Len(p) = k + 1 /\ \A i \in 1 .. k + 1 : p[i] \in K
          /\ p[1] = Len(line) /\ \A j \in 1 .. k : p[j + 1] = InsertKey(SubSeq(p, 1, j), line[j])
    BY <1>3
  <2>2. \E q \in Seq(Key) :
           /\ Len(q) = k + 2 /\ \A i \in 1 .. k + 2 : q[i] \in K
           /\ q[1] = Len(line) /\ \A j \in 1 .. k + 1 : q[j + 1] = InsertKey(SubSeq(q, 1, j), line[j])
    BY <1>3, <2>1, InsertGoesOn
  <2>3. (k + 1) + 1 = k + 2
    OBVIOUS
  <2> HIDE DEF K
  <2> QED BY <2>2, <2>3
<1>4. Missed = {}
  <2> SUFFICES ASSUME Missed # {} PROVE FALSE
    OBVIOUS
  <2>1. Missed \subseteq Nat
    OBVIOUS
  <2>2. PICK k \in Missed : \A m \in Missed : k <= m
    <3> HIDE DEF Missed
    <3> QED BY <2>1, LeastNumber
  <2> HIDE DEF Reached
  <2>3. k \in 0 .. Levels(line) /\ ~Reached(k) /\ k # 0
    BY <1>2, <2>2
  <2>4. k - 1 \in Nat /\ k - 1 < Levels(line) /\ (k - 1) + 1 = k /\ k - 1 \in 0 .. Levels(line)
    BY <1>1, <2>3
  <2>5. Reached(k - 1)
    <3>1. k - 1 \notin Missed
      BY <2>2, <2>4
    <3> QED BY <3>1, <2>4
  <2>6. Reached((k - 1) + 1)
    BY <1>3, <2>4, <2>5
  <2> QED BY <2>3, <2>4, <2>6
<1>5. Reached(Levels(line))
  <2> HIDE DEF Reached
  <2>1. Levels(line) \in 0 .. Levels(line)
    BY <1>1
  <2> QED BY <2>1, <1>4
<1>6. PICK p \in Seq(Key) :
        /\ Len(p) = Levels(line) + 1 /\ \A i \in 1 .. Levels(line) + 1 : p[i] \in K
        /\ p[1] = Len(line)
        /\ \A j \in 1 .. Levels(line) : p[j + 1] = InsertKey(SubSeq(p, 1, j), line[j])
  BY <1>5
<1>7. p \in Routes(line)
  <2>1. p \in [1 .. Levels(line) + 1 -> K]
    <3>1. p \in [1 .. Len(p) -> Key]
      BY LenProperties
    <3> HIDE DEF K
    <3> QED BY <3>1, <1>6
  <2> QED BY <2>1, <1>6 DEF Routes
<1>8. \E r \in Routes(line) :
        \A k \in 1 .. Levels(line) : r[k + 1] = InsertKey(SubSeq(r, 1, k), line[k])
  BY <1>6, <1>7
<1> QED BY <1>8 DEF InsertPath

\* A path goes in: a new child is the token's while a place is kept, or the
\* parameter's in the place kept.
LEMMA FanOutGrows ==
  ASSUME DOMAIN tree \subseteq Seq(Key), IsFiniteSet(DOMAIN tree), FanOutHolds(DOMAIN tree),
         \A n \in DOMAIN tree : \A m \in Prefixes(n) : m \in DOMAIN tree,
         NEW line \in Lines
  PROVE  FanOutHolds(DOMAIN tree \union Prefixes(InsertPath(line)))
<1> DEFINE N == DOMAIN tree
           p == InsertPath(line)
           P == Prefixes(p)
           M == N \union P
<1>1. /\ p \in Seq(Key) /\ Len(p) = Levels(line) + 1 /\ Levels(line) \in Nat /\ p # <<>>
      /\ \A k \in 1 .. Levels(line) : p[k + 1] = InsertKey(SubSeq(p, 1, k), line[k])
  <2>1. p \in Routes(line) /\ \A k \in 1 .. Levels(line) : p[k + 1] = InsertKey(SubSeq(p, 1, k), line[k])
    BY InsertArrives
  <2> HIDE DEF p
  <2> QED BY <2>1, RouteIs
<1>2. P \subseteq Seq(Key) /\ IsFiniteSet(P)
  <2> HIDE DEF p
  <2> QED BY <1>1, PrefixesAre
<1>3. MaxChildren \in Nat \ {0}
  BY DrainAssumption
<1>4. \A n : Children(n) = Under(N, n)
  BY DEF Children, Under
<1>5. \A n \in N : n # <<>> => Front(n) \in N
  <2> SUFFICES ASSUME NEW n \in N, n # <<>> PROVE Front(n) \in N
    OBVIOUS
  <2>1. n \in Seq(Key) /\ n \in Prefixes(n)
    BY PrefixesAre
  <2>2. Front(n) \in Prefixes(n)
    BY <2>1, PrefixFront
  <2> QED BY <2>2
<1>6. \A n \in P : /\ n # <<>> => Len(n) \in 1 .. Len(p) /\ n = Append(Front(n), p[Len(n)]) /\ Front(n) \in P
                   /\ n # p => /\ Len(n) < Len(p) /\ SubSeq(p, 1, Len(n) + 1) = Append(n, p[Len(n) + 1])
                               /\ SubSeq(p, 1, Len(n) + 1) \in P
                   /\ Len(n) \in Nat /\ Len(n) <= Len(p) /\ n = SubSeq(p, 1, Len(n))
  <2> SUFFICES ASSUME NEW n \in P
               PROVE  /\ n # <<>> => Len(n) \in 1 .. Len(p) /\ n = Append(Front(n), p[Len(n)]) /\ Front(n) \in P
                      /\ n # p => /\ Len(n) < Len(p) /\ SubSeq(p, 1, Len(n) + 1) = Append(n, p[Len(n) + 1])
                                  /\ SubSeq(p, 1, Len(n) + 1) \in P
                      /\ Len(n) \in Nat /\ Len(n) <= Len(p) /\ n = SubSeq(p, 1, Len(n))
    OBVIOUS
  <2> HIDE DEF p
  <2>1. Len(n) \in 0 .. Len(p) /\ n = SubSeq(p, 1, Len(n)) /\ Len(p) \in Nat
    BY <1>1, <1>2, PrefixIs
  <2>2. n \in Prefixes(p) /\ p \in Seq(Key)
    BY <1>1
  <2>3. n # <<>> => /\ Len(n) \in 1 .. Len(p) /\ n = Append(Front(n), p[Len(n)])
                    /\ Front(n) \in Prefixes(p)
    BY <2>2, PrefixFront
  <2>4. n # p => /\ Len(n) < Len(p) /\ SubSeq(p, 1, Len(n) + 1) = Append(n, p[Len(n) + 1])
                 /\ SubSeq(p, 1, Len(n) + 1) \in Prefixes(p)
    BY <2>2, PrefixFront
  <2>5. Len(n) \in Nat /\ Len(n) <= Len(p)
    BY <2>1
  <2> QED BY <2>1, <2>3, <2>4, <2>5
<1>7. \A n \in N : Cardinality(Under(N, n)) \in Nat /\ IsFiniteSet(Under(N, n))
  <2> SUFFICES ASSUME NEW n \in N PROVE Cardinality(Under(N, n)) \in Nat /\ IsFiniteSet(Under(N, n))
    OBVIOUS
  <2>1. Under(N, n) \in SUBSET N
    BY DEF Under
  <2>2. IsFiniteSet(Under(N, n))
    BY <2>1, FS_Subset
  <2> QED BY <2>2, FS_CardinalityType
<1>8. \A n : n \notin N => Under(N, n) = {}
  BY <1>5 DEF Under
<1>9. \A n \in N \ {<<>>} :
        Cardinality(Under(N, n)) <= IF Append(n, Param) \in N THEN MaxChildren ELSE MaxChildren - 1
  BY DEF FanOutHolds
<1>10. DOMAIN tree = N
  OBVIOUS
<1> HIDE DEF N, p, P
<1> SUFFICES ASSUME NEW n \in M \ {<<>>}
             PROVE  Cardinality(Under(M, n)) <=
                      IF Append(n, Param) \in M THEN MaxChildren ELSE MaxChildren - 1
  BY DEF FanOutHolds, N, P, p
<1> DEFINE U == Under(N, n)
           c == Append(n, Param)
<1>11. Cardinality({}) = 0 /\ IsFiniteSet({})
  BY FS_EmptySet
<1>12. Cardinality(U) \in Nat /\ IsFiniteSet(U)
  <2>1. CASE n \in N
    BY <2>1, <1>7
  <2>2. CASE n \notin N
    <3>1. U = {}
      BY <2>2, <1>8
    <3> HIDE DEF U
    <3>2. Cardinality(U) = 0 /\ IsFiniteSet(U)
      BY <3>1, <1>11
    <3> QED BY <3>2
  <2> QED BY <2>1, <2>2
<1>13. Cardinality(U) <= IF c \in N THEN MaxChildren ELSE MaxChildren - 1
  <2>1. CASE n \in N
    BY <2>1, <1>9
  <2>2. CASE n \notin N
    <3>1. U = {}
      BY <2>2, <1>8
    <3> HIDE DEF U, c
    <3>2. Cardinality(U) = 0
      BY <3>1, <1>11
    <3> QED BY <3>2, <1>3
  <2> QED BY <2>1, <2>2
<1>14. ASSUME Under(M, n) = U PROVE Cardinality(Under(M, n)) <= IF c \in M THEN MaxChildren ELSE MaxChildren - 1
  <2>1. c \in N => c \in M
    OBVIOUS
  <2> HIDE DEF U, c, M
  <2> QED BY <2>1, <1>3, <1>12, <1>13, <1>14
<1>15. CASE n \notin P \/ n = p
  <2>1. \A m \in P : m # <<>> /\ Front(m) = n => m \in N
    <3> SUFFICES ASSUME NEW m \in P, m # <<>>, Front(m) = n PROVE FALSE
      OBVIOUS
    <3>1. n \in P /\ Len(m) <= Len(p) /\ m = Append(n, p[Len(m)]) /\ Len(m) \in 1 .. Len(p)
      BY <1>6
    <3>2. n = p
      BY <3>1, <1>15
    <3>3. p[Len(m)] \in Key
      BY <3>1, <1>1, ElementOfSeq
    <3>4. Len(m) = Len(p) + 1
      BY <3>1, <3>2, <3>3, <1>1, AppendProperties
    <3> QED BY <3>1, <3>4
  <2>2. Under(M, n) = U
    BY <2>1 DEF Under
  <2> QED BY <2>2, <1>14
<1>16. CASE n \in P /\ n # p
  <2> DEFINE k == Len(n)
             e == p[k + 1]
             d == Append(n, e)
  <2>1. k \in 1 .. Levels(line) /\ n = SubSeq(p, 1, k) /\ d \in P
    <3>1. Len(n) \in 1 .. Len(p) /\ Len(n) < Len(p) /\ n = SubSeq(p, 1, Len(n))
      BY <1>6, <1>16
    <3>2. d \in P
      BY <1>6, <1>16
    <3> QED BY <3>1, <3>2, <1>1
  <2>2. e = InsertKey(n, line[k])
    BY <2>1, <1>1
  <2>3. n \in Seq(Key) /\ e \in Key
    <3>1. n \in Seq(Key)
      BY <1>2, <1>16
    <3>2. k + 1 \in 1 .. Len(p)
      BY <2>1, <1>1
    <3> QED BY <3>1, <3>2, <1>1, ElementOfSeq
  <2>4. Front(d) = n /\ d # <<>>
    BY <2>3, Parent
  <2>5. \A m \in P : m # <<>> /\ Front(m) = n => m = d
    <3> SUFFICES ASSUME NEW m \in P, m # <<>>, Front(m) = n PROVE m = d
      OBVIOUS
    <3>1. m = Append(n, p[Len(m)]) /\ Len(m) \in 1 .. Len(p)
      BY <1>6
    <3>2. p[Len(m)] \in Key
      BY <3>1, <1>1, ElementOfSeq
    <3>3. Len(m) = k + 1
      BY <3>1, <3>2, <2>3, AppendProperties
    <3> QED BY <3>1, <3>3
  <2>6. Under(M, n) = U \union {d}
    BY <2>1, <2>4, <2>5 DEF Under
  <2>7. d \in N <=> d \in U
    BY <2>4 DEF Under
  <2>8. CASE d \in N
    <3>1. Under(M, n) = U
      BY <2>6, <2>7, <2>8
    <3> QED BY <3>1, <1>14
  <2>9. CASE d \notin N
    <3>1. d \notin U
      BY <2>7, <2>9
    <3> DEFINE room == IF c \in N THEN Cardinality(U) < MaxChildren ELSE Cardinality(U) + 1 < MaxChildren
    <3>2. e = IF Append(n, line[k]) \in N \/ (line[k] \notin Numeric /\ room) THEN line[k] ELSE Param
      BY <2>2, <1>4, <1>10 DEF InsertKey
    <3>3. room \/ e = Param
      BY <3>2, <2>9
    <3>4. Cardinality(Under(M, n)) = Cardinality(U) + 1
      <4> HIDE DEF U, d, M
      <4> QED BY <2>6, <3>1, <1>12, FS_AddElement
    <3>5. e = Param => c \notin N /\ c \in M
      BY <2>1, <2>9
    <3>6. c \in N => c \in M
      OBVIOUS
    <3> HIDE DEF U, d, M, c, e
    <3>7. Cardinality(Under(M, n)) <= IF c \in M THEN MaxChildren ELSE MaxChildren - 1
      <4>1. CASE e = Param
        BY <4>1, <3>4, <3>5, <1>3, <1>12, <1>13
      <4>2. CASE room /\ c \in N
        BY <4>2, <3>4, <3>6, <1>3, <1>12
      <4>3. CASE room /\ c \notin N
        BY <4>3, <3>4, <1>3, <1>12
      <4> QED BY <4>1, <4>2, <4>3, <3>3
    <3> QED BY <3>7 DEF c
  <2> QED BY <2>8, <2>9
<1> QED BY <1>15, <1>16

-----------------------------------------------------------------------------
(* The invariant.                                                          *)

\* Sequence numbers and ticks are those given out.
Clocked ==
  /\ tick \in 0 .. MaxTicks /\ nextSeq \in 1 .. tick + 1
  /\ home \in [Lines -> Seqs \union {Null}]
  /\ DOMAIN table \subseteq Seqs /\ \A s \in DOMAIN table : table[s].tick \in 1 .. tick

Capped ==
  /\ MaxLeafClusters > 0 => \A n \in DOMAIN tree : Cardinality(tree[n]) <= MaxLeafClusters
  /\ MaxClusters > 0 => Cardinality(DOMAIN table) <= MaxClusters

Referred ==
  (last # Null /\ last.size = 1) =>
    last.referred = {s \in DOMAIN table \ {last.seq} :
      /\ Len(table[s].tokens) - Len(last.template) \in -2 .. 2
      /\ Close(last.template, table[s].tokens)}

IndexInv == Clocked /\ Holds(Now) /\ FanOutHolds(DOMAIN tree) /\ Capped /\ Referred

LEMMA NowIs ==
  /\ Holds(Now) <=> /\ TypedTable(table) /\ TreeHolds(tree, table)
                    /\ StampsHold(stamps, table) /\ CountsHold(counts, table)
  /\ Now.tree = tree /\ Now.table = table /\ Now.stamps = stamps /\ Now.counts = counts
BY DEF Holds, Now

LEMMA EntryIs ==
  ASSUME NEW entries, TypedTable(entries), NEW s \in DOMAIN entries
  PROVE  /\ entries[s].tokens \in Seq(Token \union {Param}) /\ entries[s].size \in Nat \ {0}
         /\ entries[s].tick \in Nat /\ entries[s].path \in Way
         /\ DOMAIN entries[s].tokens = 1 .. Len(entries[s].tokens)
         /\ Len(entries[s].tokens) \in Nat
<1>1. entries[s] \in Entries
  BY DEF TypedTable
<1>2. entries[s].tokens \in Seq(Token \union {Param}) /\ entries[s].size \in Nat \ {0}
      /\ entries[s].tick \in Nat /\ entries[s].path \in Way
  BY <1>1 DEF Entries
<1> QED BY <1>2, LenProperties

\* Giving way keeps the length, and every place is the line's or the parameter.
LEMMA GeneralizedIs ==
  ASSUME NEW tokens \in Seq(Token \union {Param}), NEW line
  PROVE  /\ Generalized(tokens, line) \in Seq(Token \union {Param})
         /\ Len(Generalized(tokens, line)) = Len(tokens)
         /\ DOMAIN Generalized(tokens, line) = DOMAIN tokens
         /\ \A i \in DOMAIN tokens :
              Generalized(tokens, line)[i] = IF tokens[i] = line[i] THEN tokens[i] ELSE Param
<1> DEFINE g == Generalized(tokens, line)
           S == Token \union {Param}
<1>1. Len(tokens) \in Nat /\ DOMAIN tokens = 1 .. Len(tokens) /\ \A i \in DOMAIN tokens : tokens[i] \in S
  BY LenProperties, ElementOfSeq
<1>2. g \in [1 .. Len(tokens) -> S] /\ DOMAIN g = DOMAIN tokens
      /\ \A i \in DOMAIN tokens : g[i] = IF tokens[i] = line[i] THEN tokens[i] ELSE Param
  BY <1>1 DEF Generalized
<1> HIDE DEF g, S
<1>3. g \in Seq(S)
  BY <1>1, <1>2, SeqDef
<1>4. Len(g) = Len(tokens)
  BY <1>1, <1>2, <1>3, LenProperties
<1> QED BY <1>2, <1>3, <1>4 DEF g, S

\* The line joins: every index still holds.
LEMMA JoinedHolds ==
  ASSUME Holds(Now), Clocked, NEW line, NEW seq \in DOMAIN table
  PROVE  LET st == Joined(line, seq)
         IN  /\ Holds(st) /\ st.tree = tree /\ DOMAIN st.table = DOMAIN table
             /\ \A s \in DOMAIN table \ {seq} : st.table[s] = table[s]
             /\ st.table[seq] = [tokens |-> Generalized(table[seq].tokens, line),
                                 size |-> table[seq].size + 1, tick |-> tick + 1,
                                 path |-> table[seq].path]
<1> DEFINE was == table[seq]
           entry == [tokens |-> Generalized(was.tokens, line), size |-> was.size + 1,
                     tick |-> tick + 1, path |-> was.path]
           now == [table EXCEPT ![seq] = entry]
           st == Joined(line, seq)
<1>1. /\ st.tree = tree /\ st.table = now /\ st.counts = counts
      /\ st.stamps = Touch(was.tick, tick + 1, seq)
  BY DEF Joined
<1>2. /\ TypedTable(table) /\ TreeHolds(tree, table)
      /\ StampsHold(stamps, table) /\ CountsHold(counts, table)
  BY NowIs
<1>3. tick \in Nat /\ \A s \in DOMAIN table : table[s].tick \in 1 .. tick
  BY DrainAssumption DEF Clocked
<1>4. /\ was.tokens \in Seq(Token \union {Param}) /\ was.size \in Nat \ {0}
      /\ was.path \in Way
  BY <1>2, EntryIs
<1>5. /\ Generalized(was.tokens, line) \in Seq(Token \union {Param})
      /\ Len(Generalized(was.tokens, line)) = Len(was.tokens)
  BY <1>4, GeneralizedIs
<1>6. entry \in Entries
  BY <1>3, <1>4, <1>5 DEF Entries
<1>7. /\ entry.tick = tick + 1 /\ entry.path = was.path /\ Len(entry.tokens) = Len(was.tokens)
  BY <1>5
<1>8. DOMAIN now = DOMAIN table /\ now[seq] = entry /\ \A s \in DOMAIN table \ {seq} : now[s] = table[s]
  BY <1>2 DEF TypedTable
<1> HIDE DEF entry, now, st
<1>9. TypedTable(now)
  <2>1. now \in [DOMAIN table -> Entries]
    <3>1. now = [s \in DOMAIN table |-> now[s]]
      BY <1>2, <1>8 DEF now, TypedTable
    <3>2. \A s \in DOMAIN table : now[s] \in Entries
      BY <1>2, <1>6, <1>8 DEF TypedTable
    <3> QED BY <3>1, <3>2
  <2> QED BY <2>1, <1>2, <1>8 DEF TypedTable
<1>10. \A s \in DOMAIN table : now[s].path = table[s].path /\ Len(now[s].tokens) = Len(table[s].tokens)
  BY <1>7, <1>8
<1>11. TreeHolds(tree, now)
  <2>1. NodesOf(now) = NodesOf(table)
    BY <1>8, <1>10 DEF NodesOf
  <2>2. \A n : {s \in DOMAIN now : now[s].path = n} = {s \in DOMAIN table : table[s].path = n}
    BY <1>8, <1>10
  <2> QED BY <1>2, <2>1, <2>2 DEF TreeHolds
<1>12. StampsHold(st.stamps, now)
  <2>1. DOMAIN stamps = {table[s].tick : s \in DOMAIN table} /\ \A s \in DOMAIN table : stamps[table[s].tick] = s
    BY <1>2 DEF StampsHold
  <2>2. /\ DOMAIN st.stamps = (DOMAIN stamps \ {was.tick}) \union {tick + 1}
        /\ st.stamps = [t \in DOMAIN st.stamps |-> IF t = tick + 1 THEN seq ELSE stamps[t]]
    BY <1>1 DEF Touch
  <2>3. \A s \in DOMAIN table \ {seq} : now[s].tick = table[s].tick /\ table[s].tick # was.tick /\ table[s].tick # tick + 1
    <3> SUFFICES ASSUME NEW s \in DOMAIN table \ {seq}
                 PROVE now[s].tick = table[s].tick /\ table[s].tick # was.tick /\ table[s].tick # tick + 1
      OBVIOUS
    <3>1. now[s].tick = table[s].tick /\ table[s].tick # tick + 1
      BY <1>3, <1>8
    <3>2. table[s].tick # was.tick
      BY <2>1
    <3> QED BY <3>1, <3>2
  <2>4. now[seq].tick = tick + 1
    BY <1>7, <1>8
  <2>5. DOMAIN st.stamps = {now[s].tick : s \in DOMAIN now}
    <3>1. ASSUME NEW t \in DOMAIN st.stamps PROVE \E s \in DOMAIN now : t = now[s].tick
      <4>1. CASE t = tick + 1
        BY <4>1, <2>4, <1>8
      <4>2. CASE t # tick + 1
        <5>1. t \in DOMAIN stamps /\ t # was.tick
          BY <3>1, <4>2, <2>2
        <5>2. PICK s \in DOMAIN table : t = table[s].tick
          BY <5>1, <2>1
        <5>3. s # seq
          BY <5>1, <5>2
        <5> QED BY <5>2, <5>3, <2>3, <1>8
      <4> QED BY <4>1, <4>2
    <3>2. ASSUME NEW s \in DOMAIN now PROVE now[s].tick \in DOMAIN st.stamps
      <4>1. CASE s = seq
        BY <4>1, <2>2, <2>4
      <4>2. CASE s # seq
        BY <4>2, <1>8, <2>1, <2>2, <2>3
      <4> QED BY <4>1, <4>2
    <3> QED BY <3>1, <3>2
  <2>6. ASSUME NEW s \in DOMAIN now PROVE st.stamps[now[s].tick] = s
    <3>1. now[s].tick \in DOMAIN st.stamps
      BY <2>5
    <3>2. CASE s = seq
      BY <3>1, <3>2, <2>2, <2>4
    <3>3. CASE s # seq
      <4>1. now[s].tick = table[s].tick /\ table[s].tick # tick + 1 /\ stamps[table[s].tick] = s
        BY <3>3, <1>8, <2>1, <2>3
      <4> QED BY <4>1, <3>1, <2>2
    <3> QED BY <3>2, <3>3
  <2>7. st.stamps = [t \in DOMAIN st.stamps |-> st.stamps[t]]
    BY <2>2
  <2> QED BY <2>5, <2>6, <2>7 DEF StampsHold
<1>13. CountsHold(counts, now)
  BY <1>2, <1>8, <1>10 DEF CountsHold
<1>14. Holds(st)
  BY <1>1, <1>9, <1>11, <1>12, <1>13 DEF Holds
<1> QED BY <1>1, <1>8, <1>14 DEF st, entry

\* The line opens a cluster: every index still holds.
LEMMA OpenedHolds ==
  ASSUME Holds(Now), Clocked, NEW line \in Lines
  PROVE  LET st == Opened(line)
             path == InsertPath(line)
         IN  /\ Holds(st) /\ DOMAIN st.tree = DOMAIN tree \union Prefixes(path)
             /\ \A n \in DOMAIN st.tree :
                  st.tree[n] = (IF n \in DOMAIN tree THEN tree[n] ELSE {})
                                 \union (IF n = path THEN {nextSeq} ELSE {})
             /\ DOMAIN st.table = DOMAIN table \union {nextSeq} /\ nextSeq \notin DOMAIN table
             /\ \A s \in DOMAIN table : st.table[s] = table[s]
             /\ st.table[nextSeq] = [tokens |-> line, size |-> 1, tick |-> tick + 1, path |-> path]
<1> DEFINE path == InsertPath(line)
           entry == [tokens |-> line, size |-> 1, tick |-> tick + 1, path |-> path]
           D == DOMAIN table \union {nextSeq}
           now == [s \in D |-> IF s = nextSeq THEN entry ELSE table[s]]
           st == Opened(line)
<1>1. /\ st.tree = Inserted(path, nextSeq) /\ st.table = now
      /\ st.counts = counts \union {<<Len(line), nextSeq>>}
      /\ st.stamps = [t \in DOMAIN stamps \union {tick + 1} |-> IF t = tick + 1 THEN nextSeq ELSE stamps[t]]
  BY DEF Opened
<1>2. /\ TypedTable(table) /\ TreeHolds(tree, table)
      /\ StampsHold(stamps, table) /\ CountsHold(counts, table)
  BY NowIs
<1>3. /\ tick \in Nat /\ \A s \in DOMAIN table : table[s].tick \in 1 .. tick
      /\ nextSeq \in Nat /\ nextSeq \notin DOMAIN table
  BY DrainAssumption DEF Clocked, Seqs
<1>4. path \in Way /\ path \in Seq(Key) /\ path # <<>>
  <2>1. path \in Routes(line)
    BY InsertArrives
  <2> HIDE DEF path
  <2> QED BY <2>1, RouteIs DEF Way
<1>5. entry \in Entries
  <2>1. line \in Seq(Token)
    BY RouteIs
  <2>2. line \in Seq(Token \union {Param})
    BY <2>1, SeqMonotonic
  <2> HIDE DEF path
  <2> QED BY <2>2, <1>3, <1>4 DEF Entries
<1>6. entry.tick = tick + 1 /\ entry.path = path /\ entry.tokens = line
  OBVIOUS
<1>7. DOMAIN now = D /\ now[nextSeq] = entry /\ \A s \in DOMAIN table : now[s] = table[s]
  BY <1>3
<1>8. TypedTable(now)
  <2>1. IsFiniteSet(D) /\ D \subseteq Nat
    BY <1>2, <1>3, FS_AddElement DEF TypedTable
  <2> HIDE DEF entry
  <2>2. \A s \in DOMAIN table : table[s] \in Entries
    BY <1>2 DEF TypedTable
  <2>3. now \in [D -> Entries]
    BY <2>2, <1>5
  <2> QED BY <2>1, <2>3, <1>7 DEF TypedTable
<1> HIDE DEF entry, now, st, path
<1>9. \A n : {s \in D : now[s].path = n} = {s \in DOMAIN table : table[s].path = n}
                                             \union (IF n = path THEN {nextSeq} ELSE {})
  <2> SUFFICES ASSUME NEW n
               PROVE {s \in D : now[s].path = n} = {s \in DOMAIN table : table[s].path = n}
                                                     \union (IF n = path THEN {nextSeq} ELSE {})
    OBVIOUS
  <2>1. now[nextSeq].path = path
    BY <1>6, <1>7
  <2>2. \A s \in DOMAIN table : now[s].path = table[s].path
    BY <1>7
  <2>3. CASE n = path
    BY <2>1, <2>2, <2>3
  <2>4. CASE n # path
    BY <2>1, <2>2, <2>4
  <2> QED BY <2>3, <2>4
<1>10. NodesOf(now) = NodesOf(table) \union Prefixes(path)
  <2>1. now[nextSeq].path = path /\ \A s \in DOMAIN table : now[s].path = table[s].path
    BY <1>6, <1>7
  <2> QED BY <2>1, <1>7 DEF NodesOf
<1>11. DOMAIN tree = NodesOf(table) /\ \A n \in DOMAIN tree : tree[n] = {s \in DOMAIN table : table[s].path = n}
  BY <1>2 DEF TreeHolds
<1>12. \A n : n \notin DOMAIN tree => {s \in DOMAIN table : table[s].path = n} = {}
  <2> SUFFICES ASSUME NEW s \in DOMAIN table PROVE table[s].path \in DOMAIN tree
    OBVIOUS
  <2>1. table[s].path \in Way /\ Prefixes(table[s].path) \subseteq NodesOf(table)
    BY <1>2, NodesAre
  <2>2. table[s].path \in Prefixes(table[s].path)
    BY <2>1, WayIs, PrefixesAre
  <2> QED BY <2>1, <2>2, <1>11
<1>13. /\ DOMAIN st.tree = DOMAIN tree \union Prefixes(path)
       /\ st.tree = [n \in DOMAIN st.tree |-> (IF n \in DOMAIN tree THEN tree[n] ELSE {})
                                                \union (IF n = path THEN {nextSeq} ELSE {})]
  BY <1>1 DEF Inserted
<1>14. \A n \in DOMAIN st.tree :
         (IF n \in DOMAIN tree THEN tree[n] ELSE {}) \union (IF n = path THEN {nextSeq} ELSE {})
           = {s \in D : now[s].path = n}
  <2> SUFFICES ASSUME NEW n \in DOMAIN st.tree
               PROVE (IF n \in DOMAIN tree THEN tree[n] ELSE {}) \union (IF n = path THEN {nextSeq} ELSE {})
                       = {s \in D : now[s].path = n}
    OBVIOUS
  <2>1. (IF n \in DOMAIN tree THEN tree[n] ELSE {}) = {s \in DOMAIN table : table[s].path = n}
    BY <1>11, <1>12
  <2> QED BY <2>1, <1>9
<1>15. TreeHolds(st.tree, now)
  <2>1. st.tree = [n \in DOMAIN st.tree |-> {s \in D : now[s].path = n}]
    BY <1>13, <1>14
  <2>2. DOMAIN st.tree = NodesOf(now)
    BY <1>10, <1>11, <1>13
  <2> QED BY <2>1, <2>2, <1>7 DEF TreeHolds
<1>16. StampsHold(st.stamps, now)
  <2>1. DOMAIN stamps = {table[s].tick : s \in DOMAIN table} /\ \A s \in DOMAIN table : stamps[table[s].tick] = s
    BY <1>2 DEF StampsHold
  <2>2. \A s \in DOMAIN table : now[s].tick = table[s].tick /\ table[s].tick # tick + 1
    BY <1>3, <1>7
  <2>3. now[nextSeq].tick = tick + 1
    BY <1>6, <1>7
  <2>4. DOMAIN st.stamps = {now[s].tick : s \in DOMAIN now}
    BY <1>1, <1>7, <2>1, <2>2, <2>3
  <2>5. ASSUME NEW s \in DOMAIN now PROVE st.stamps[now[s].tick] = s
    <3>1. now[s].tick \in DOMAIN st.stamps
      BY <2>4
    <3>2. CASE s = nextSeq
      BY <3>1, <3>2, <1>1, <2>3
    <3>3. CASE s # nextSeq
      BY <3>1, <3>3, <1>1, <1>7, <2>1, <2>2
    <3> QED BY <3>2, <3>3
  <2>6. st.stamps = [t \in DOMAIN st.stamps |-> st.stamps[t]]
    BY <1>1
  <2> QED BY <2>4, <2>5, <2>6 DEF StampsHold
<1>17. CountsHold(st.counts, now)
  <2>1. counts = {<<Len(table[s].tokens), s>> : s \in DOMAIN table}
    BY <1>2 DEF CountsHold
  <2>2. now[nextSeq].tokens = line /\ \A s \in DOMAIN table : now[s].tokens = table[s].tokens
    BY <1>6, <1>7
  <2> QED BY <2>1, <2>2, <1>1, <1>7 DEF CountsHold
<1>18. Holds(st)
  BY <1>1, <1>8, <1>15, <1>16, <1>17 DEF Holds
<1>19. \A n \in DOMAIN st.tree : st.tree[n] = (IF n \in DOMAIN tree THEN tree[n] ELSE {})
                                                \union (IF n = path THEN {nextSeq} ELSE {})
  BY <1>13
<1>20. st.table[nextSeq] = entry
  BY <1>1, <1>7
<1> QED BY <1>1, <1>3, <1>7, <1>13, <1>18, <1>19, <1>20 DEF st, path, entry

LEMMA OneMore ==
  ASSUME NEW S, IsFiniteSet(S), NEW x
  PROVE  /\ IsFiniteSet(S \union {x}) /\ Cardinality(S) \in Nat /\ Cardinality(S \union {x}) \in Nat
         /\ Cardinality(S \union {x}) <= Cardinality(S) + 1
<1>1. IsFiniteSet(S \union {x}) /\ Cardinality(S) \in Nat
  BY FS_AddElement, FS_CardinalityType
<1>2. Cardinality(S \union {x}) = IF x \in S THEN Cardinality(S) ELSE Cardinality(S) + 1
  BY FS_AddElement
<1> QED BY <1>1, <1>2

\* A leaf holds finitely many.
LEMMA LeafIs ==
  ASSUME NEW nodes, NEW entries, TypedTable(entries), TreeHolds(nodes, entries), NEW n \in DOMAIN nodes
  PROVE  /\ nodes[n] = {s \in DOMAIN entries : entries[s].path = n}
         /\ IsFiniteSet(nodes[n]) /\ Cardinality(nodes[n]) \in Nat
<1>1. nodes[n] = {s \in DOMAIN entries : entries[s].path = n}
  BY DEF TreeHolds
<1>2. nodes[n] \in SUBSET DOMAIN entries /\ IsFiniteSet(DOMAIN entries)
  BY <1>1 DEF TypedTable
<1>3. IsFiniteSet(nodes[n])
  BY <1>2, FS_Subset
<1> QED BY <1>1, <1>3, FS_CardinalityType

\* Room is made for the cluster a line opens.
LEMMA OpenedMakesRoom ==
  ASSUME IndexInv, NEW line \in Lines
  PROVE  LET st   == Opened(line)
             path == InsertPath(line)
         IN  MadeRoom(st, st.tree[path], nextSeq, Evict(EvictFromLeaf(st, path, nextSeq)))
<1> DEFINE st == Opened(line)
           path == InsertPath(line)
<1>1. Holds(Now) /\ Clocked /\ Capped /\ TypedTable(table) /\ TreeHolds(tree, table)
  BY NowIs DEF IndexInv
<1>2. /\ Holds(st) /\ DOMAIN st.tree = DOMAIN tree \union Prefixes(path)
      /\ \A n \in DOMAIN st.tree :
           st.tree[n] = (IF n \in DOMAIN tree THEN tree[n] ELSE {})
                          \union (IF n = path THEN {nextSeq} ELSE {})
      /\ DOMAIN st.table = DOMAIN table \union {nextSeq} /\ nextSeq \notin DOMAIN table
      /\ \A s \in DOMAIN table : st.table[s] = table[s]
      /\ st.table[nextSeq] = [tokens |-> line, size |-> 1, tick |-> tick + 1, path |-> path]
  BY <1>1, OpenedHolds
<1>3. path \in Prefixes(path)
  <2>1. path \in Routes(line)
    BY InsertArrives
  <2> HIDE DEF path
  <2>2. path \in Seq(Key)
    BY <2>1, RouteIs
  <2> QED BY <2>2, PrefixesAre
<1> HIDE DEF st, path
<1>4. nextSeq \in DOMAIN st.table /\ path = st.table[nextSeq].path
  BY <1>2
<1>5. \A r \in DOMAIN st.table \ {nextSeq} : st.table[r].tick < st.table[nextSeq].tick
  BY <1>1, <1>2, DrainAssumption DEF Clocked
<1>6. MaxLeafClusters > 0 => Cardinality(st.tree[path]) <= MaxLeafClusters + 1
  <2>1. MaxLeafClusters \in Nat
    BY DrainAssumption
  <2>2. CASE path \in DOMAIN tree
    <3>1. st.tree[path] = tree[path] \union {nextSeq}
      BY <2>2, <1>2, <1>3
    <3>2. IsFiniteSet(tree[path]) /\ Cardinality(tree[path]) \in Nat
      BY <2>2, <1>1, LeafIs
    <3>3. Cardinality(tree[path] \union {nextSeq}) <= Cardinality(tree[path]) + 1
          /\ Cardinality(tree[path] \union {nextSeq}) \in Nat
      BY <3>2, OneMore
    <3>4. MaxLeafClusters > 0 => Cardinality(tree[path]) <= MaxLeafClusters
      BY <2>2, <1>1 DEF Capped
    <3> QED BY <2>1, <3>1, <3>2, <3>3, <3>4
  <2>3. CASE path \notin DOMAIN tree
    <3>1. st.tree[path] = {nextSeq}
      BY <2>3, <1>2, <1>3
    <3>2. Cardinality({nextSeq}) = 1
      BY FS_Singleton
    <3> QED BY <3>1, <3>2, <2>1
  <2> QED BY <2>2, <2>3
<1>7. MaxClusters > 0 => Cardinality(DOMAIN st.table) <= MaxClusters + 1
  <2>1. MaxClusters \in Nat /\ IsFiniteSet(DOMAIN table) /\ Cardinality(DOMAIN table) \in Nat
    BY <1>1, FS_CardinalityType, DrainAssumption DEF TypedTable
  <2>2. Cardinality(DOMAIN table \union {nextSeq}) <= Cardinality(DOMAIN table) + 1
        /\ Cardinality(DOMAIN table \union {nextSeq}) \in Nat
    BY <2>1, OneMore
  <2>3. MaxClusters > 0 => Cardinality(DOMAIN table) <= MaxClusters
    BY <1>1 DEF Capped
  <2> QED BY <2>1, <2>2, <2>3, <1>2
<1>8. MadeRoom(st, st.tree[path], nextSeq, Evict(EvictFromLeaf(st, path, nextSeq)))
  BY <1>2, <1>4, <1>5, <1>6, <1>7, RoomIsMade
<1> QED BY <1>8 DEF st, path

\* The fan-out of a table with some entries fewer.
LEMMA FewerNodes ==
  ASSUME NEW entries, TypedTable(entries), NEW rest, TypedTable(rest), DOMAIN rest \subseteq DOMAIN entries,
         \A s \in DOMAIN rest : rest[s] = entries[s]
  PROVE  NodesOf(rest) \subseteq NodesOf(entries)
BY DEF NodesOf

\* What neighbours reads off the index is what a walk of the table finds.
LEMMA NeighboursAre ==
  ASSUME NEW st, Holds(st), NEW seq \in DOMAIN st.table
  PROVE  Neighbours(st, seq) =
           {s \in DOMAIN st.table \ {seq} :
              /\ Len(st.table[s].tokens) - Len(st.table[seq].tokens) \in -2 .. 2
              /\ Close(st.table[seq].tokens, st.table[s].tokens)}
<1> DEFINE tokens(s) == st.table[s].tokens
<1>1. \A s \in DOMAIN st.table : Len(tokens(s)) \in Nat
  BY EntryIs DEF Holds
<1>2. st.counts = {<<Len(tokens(s)), s>> : s \in DOMAIN st.table}
  BY DEF Holds, CountsHold
<1>3. \A s \in DOMAIN st.table : \A n : <<n, s>> \in st.counts <=> n = Len(tokens(s))
  BY <1>2
<1> HIDE DEF tokens
<1>4. \A s \in DOMAIN st.table :
        (\E n \in Len(tokens(seq)) - 2 .. Len(tokens(seq)) + 2 : <<n, s>> \in st.counts)
          <=> Len(tokens(s)) - Len(tokens(seq)) \in -2 .. 2
  <2> SUFFICES ASSUME NEW s \in DOMAIN st.table
               PROVE (\E n \in Len(tokens(seq)) - 2 .. Len(tokens(seq)) + 2 : <<n, s>> \in st.counts)
                       <=> Len(tokens(s)) - Len(tokens(seq)) \in -2 .. 2
    OBVIOUS
  <2>1. (\E n \in Len(tokens(seq)) - 2 .. Len(tokens(seq)) + 2 : <<n, s>> \in st.counts)
          <=> Len(tokens(s)) \in Len(tokens(seq)) - 2 .. Len(tokens(seq)) + 2
    BY <1>3
  <2>2. Len(tokens(s)) \in Nat /\ Len(tokens(seq)) \in Nat
    BY <1>1
  <2> QED BY <2>1, <2>2
<1>5. Neighbours(st, seq) =
        {s \in DOMAIN st.table \ {seq} :
           /\ \E n \in Len(tokens(seq)) - 2 .. Len(tokens(seq)) + 2 : <<n, s>> \in st.counts
           /\ Close(tokens(seq), tokens(s))}
  BY DEF Neighbours, tokens
<1>6. Neighbours(st, seq) =
        {s \in DOMAIN st.table \ {seq} :
           Len(tokens(s)) - Len(tokens(seq)) \in -2 .. 2 /\ Close(tokens(seq), tokens(s))}
  BY <1>4, <1>5
<1> QED BY <1>6 DEF tokens

LEMMA InitHolds == Init => IndexInv
<1> SUFFICES ASSUME Init PROVE IndexInv
  OBVIOUS
<1>1. tree = [n \in {<<>>} |-> {}] /\ table = <<>> /\ stamps = <<>> /\ counts = {} /\ last = Null
  BY DEF Init
<1>2. DOMAIN table = {} /\ DOMAIN stamps = {} /\ DOMAIN tree = {<<>>} /\ tree[<<>>] = {}
  BY <1>1
<1>3. IsFiniteSet({}) /\ Cardinality({}) = 0
  BY FS_EmptySet
<1>4. TypedTable(table)
  <2>1. table \in [DOMAIN table -> Entries]
    BY <1>1, <1>2
  <2> QED BY <2>1, <1>2, <1>3 DEF TypedTable
<1>5. NodesOf(table) = {<<>>}
  BY <1>2 DEF NodesOf
<1>6. TreeHolds(tree, table)
  <2>1. tree = [n \in DOMAIN tree |-> {s \in DOMAIN table : table[s].path = n}]
    BY <1>1, <1>2
  <2> QED BY <2>1, <1>2, <1>5 DEF TreeHolds
<1>7. StampsHold(stamps, table)
  <2>1. stamps = [t \in DOMAIN stamps |-> stamps[t]]
    BY <1>1, <1>2
  <2> QED BY <2>1, <1>2 DEF StampsHold
<1>8. CountsHold(counts, table)
  BY <1>1, <1>2 DEF CountsHold
<1>9. Holds(Now)
  BY <1>4, <1>6, <1>7, <1>8, NowIs
<1>10. Clocked
  <2>1. tick = 0 /\ nextSeq = 1 /\ home = [line \in Lines |-> Null] /\ MaxTicks \in Nat
    BY DrainAssumption DEF Init
  <2> QED BY <2>1, <1>2 DEF Clocked, Seqs
<1>11. FanOutHolds(DOMAIN tree)
  BY <1>2 DEF FanOutHolds
<1>12. Capped
  <2>1. MaxLeafClusters \in Nat /\ MaxClusters \in Nat
    BY DrainAssumption
  <2>2. \A n \in DOMAIN tree : Cardinality(tree[n]) = 0
    BY <1>2, <1>3
  <2>3. Cardinality(DOMAIN table) = 0
    BY <1>2, <1>3
  <2> QED BY <2>1, <2>2, <2>3 DEF Capped
<1> QED BY <1>1, <1>9, <1>10, <1>11, <1>12 DEF IndexInv, Referred

LEMMA SearchIs ==
  ASSUME NEW line, NEW seq \in Search(line)
  PROVE  /\ seq \in DOMAIN table /\ Len(table[seq].tokens) = Len(line)
         /\ Accepted(Similar(table[seq].tokens, line), Len(line))
<1>1. seq \in Candidates(line) /\ Accepted(Similar(table[seq].tokens, line), Len(line))
  BY DEF Search
<1>2. seq \in DOMAIN table /\ Len(table[seq].tokens) = Len(line)
  BY <1>1 DEF Candidates
<1> QED BY <1>1, <1>2

LEMMA JoinKeeps ==
  ASSUME IndexInv, NEW line \in Lines, NEW seq \in Search(line), tick < MaxTicks, tick' = tick + 1,
         Join(line, seq)
  PROVE  IndexInv'
<1> DEFINE st == Joined(line, seq)
<1>1. Holds(Now) /\ Clocked /\ Capped /\ FanOutHolds(DOMAIN tree)
  BY DEF IndexInv
<1>2. seq \in DOMAIN table
  BY SearchIs
<1>3. /\ Holds(st) /\ st.tree = tree /\ DOMAIN st.table = DOMAIN table
      /\ \A s \in DOMAIN table \ {seq} : st.table[s] = table[s]
      /\ st.table[seq] = [tokens |-> Generalized(table[seq].tokens, line),
                          size |-> table[seq].size + 1, tick |-> tick + 1,
                          path |-> table[seq].path]
  BY <1>1, <1>2, JoinedHolds
<1>4. /\ tree' = st.tree /\ table' = st.table /\ stamps' = st.stamps /\ counts' = st.counts
      /\ nextSeq' = nextSeq /\ home' = [home EXCEPT ![line] = seq] /\ last'.size = st.table[seq].size
  BY DEF Join, Assigned
<1> HIDE DEF st
<1>5. Holds(Now)'
  <2>1. TypedTable(table') /\ TreeHolds(tree', table') /\ StampsHold(stamps', table') /\ CountsHold(counts', table')
    BY <1>3, <1>4 DEF Holds
  <2>2. Now' = [tree |-> tree', table |-> table', stamps |-> stamps', counts |-> counts']
    BY DEF Now
  <2> QED BY <2>1, <2>2 DEF Holds
<1>6. Clocked'
  <2>1. tick \in 0 .. MaxTicks /\ MaxTicks \in Nat /\ nextSeq \in 1 .. tick + 1
        /\ \A s \in DOMAIN table : table[s].tick \in 1 .. tick
    BY <1>1, DrainAssumption DEF Clocked
  <2>2. tick' \in 0 .. MaxTicks /\ nextSeq' \in 1 .. tick' + 1 /\ tick' = tick + 1
    BY <2>1, <1>4
  <2>3. Seqs' = Seqs
    BY <1>4 DEF Seqs
  <2>4. DOMAIN table' \subseteq Seqs /\ seq \in Seqs
    BY <1>1, <1>2, <1>3, <1>4 DEF Clocked
  <2>5. home' \in [Lines -> Seqs \union {Null}]
    BY <1>1, <1>4, <2>4 DEF Clocked
  <2>6. \A s \in DOMAIN table' : table'[s].tick \in 1 .. tick'
    <3> SUFFICES ASSUME NEW s \in DOMAIN table' PROVE table'[s].tick \in 1 .. tick'
      OBVIOUS
    <3>1. CASE s = seq
      BY <3>1, <1>3, <1>4, <2>1, <2>2
    <3>2. CASE s # seq
      <4>1. table'[s].tick = table[s].tick /\ s \in DOMAIN table
        BY <3>2, <1>3, <1>4
      <4> QED BY <4>1, <2>1, <2>2
    <3> QED BY <3>1, <3>2
  <2> QED BY <2>2, <2>3, <2>4, <2>5, <2>6 DEF Clocked
<1>7. tree' = tree /\ DOMAIN table' = DOMAIN table
  BY <1>3, <1>4
<1>8. FanOutHolds(DOMAIN tree)'
  BY <1>1, <1>7 DEF FanOutHolds, Under
<1>9. Capped'
  BY <1>1, <1>7 DEF Capped
<1>10. Referred'
  <2>1. last'.size = table[seq].size + 1
    BY <1>3, <1>4
  <2>2. table[seq].size \in Nat \ {0}
    BY <1>1, <1>2, NowIs, EntryIs
  <2>3. last'.size # 1
    BY <2>1, <2>2
  <2> QED BY <2>3 DEF Referred
<1> QED BY <1>5, <1>6, <1>8, <1>9, <1>10 DEF IndexInv

LEMMA OpenKeeps ==
  ASSUME IndexInv, NEW line \in Lines, tick < MaxTicks, tick' = tick + 1, Open(line)
  PROVE  IndexInv'
<1> DEFINE st == Opened(line)
           path == InsertPath(line)
           room == Evict(EvictFromLeaf(st, path, nextSeq))
<1>1. Holds(Now) /\ Clocked /\ Capped /\ FanOutHolds(DOMAIN tree) /\ TypedTable(table) /\ TreeHolds(tree, table)
  BY NowIs DEF IndexInv
<1>2. /\ Holds(st) /\ DOMAIN st.tree = DOMAIN tree \union Prefixes(path)
      /\ \A n \in DOMAIN st.tree :
           st.tree[n] = (IF n \in DOMAIN tree THEN tree[n] ELSE {})
                          \union (IF n = path THEN {nextSeq} ELSE {})
      /\ DOMAIN st.table = DOMAIN table \union {nextSeq} /\ nextSeq \notin DOMAIN table
      /\ \A s \in DOMAIN table : st.table[s] = table[s]
      /\ st.table[nextSeq] = [tokens |-> line, size |-> 1, tick |-> tick + 1, path |-> path]
  BY <1>1, OpenedHolds
<1>3. MadeRoom(st, st.tree[path], nextSeq, room)
  BY OpenedMakesRoom
<1>4. /\ tree' = room.tree /\ table' = room.table /\ stamps' = room.stamps /\ counts' = room.counts
      /\ nextSeq' = nextSeq + 1 /\ home' = [home EXCEPT ![line] = nextSeq]
      /\ last' = [line |-> line, seq |-> nextSeq, template |-> room.table[nextSeq].tokens,
                  size |-> room.table[nextSeq].size,
                  referred |-> IF room.table[nextSeq].size = 1 THEN Neighbours(room, nextSeq) ELSE {}]
  BY DEF Open, Assigned
<1>5. FanOutHolds(DOMAIN st.tree) /\ IsFiniteSet(DOMAIN st.tree) /\ DOMAIN st.tree \subseteq Seq(Key)
  <2>1. DOMAIN tree = NodesOf(table)
    BY <1>1 DEF TreeHolds
  <2>2. /\ DOMAIN tree \subseteq Seq(Key) /\ IsFiniteSet(DOMAIN tree)
        /\ \A n \in DOMAIN tree : \A m \in Prefixes(n) : m \in DOMAIN tree
    BY <1>1, <2>1, NodesAre
  <2>3. FanOutHolds(DOMAIN tree \union Prefixes(path))
    BY <1>1, <2>2, FanOutGrows
  <2> HIDE DEF st, path
  <2>4. TypedTable(st.table) /\ DOMAIN st.tree = NodesOf(st.table)
    BY <1>2 DEF Holds, TreeHolds
  <2>5. IsFiniteSet(DOMAIN st.tree) /\ DOMAIN st.tree \subseteq Seq(Key)
    BY <2>4, NodesAre
  <2> QED BY <1>2, <2>3, <2>5
<1>6. path \in DOMAIN st.tree
  <2>1. path \in Routes(line)
    BY InsertArrives
  <2> HIDE DEF path, st
  <2>2. path \in Seq(Key)
    BY <2>1, RouteIs
  <2> QED BY <1>2, <2>2, PrefixesAre
<1> HIDE DEF st, path, room
<1>7. PICK gone : /\ Victim(st.table, nextSeq, gone)
                  /\ DOMAIN room.table = DOMAIN st.table \ gone
                  /\ \A s \in DOMAIN room.table : room.table[s] = st.table[s]
                  /\ MaxLeafClusters > 0 => Cardinality(st.tree[path] \ gone) <= MaxLeafClusters
  BY <1>3 DEF MadeRoom
<1>8. nextSeq \notin gone /\ gone \subseteq DOMAIN st.table
  BY <1>7 DEF Victim
<1>9. nextSeq \in DOMAIN room.table /\ room.table[nextSeq] = st.table[nextSeq]
  BY <1>2, <1>7, <1>8
<1>10. /\ Holds(room) /\ TypedTable(room.table) /\ TreeHolds(room.tree, room.table)
       /\ TypedTable(st.table) /\ TreeHolds(st.tree, st.table)
       /\ MaxClusters > 0 => Cardinality(DOMAIN room.table) <= MaxClusters
  BY <1>2, <1>3 DEF MadeRoom, Holds
<1>11. Holds(Now)'
  <2>1. TypedTable(table') /\ TreeHolds(tree', table') /\ StampsHold(stamps', table') /\ CountsHold(counts', table')
    BY <1>10, <1>4 DEF Holds
  <2>2. Now' = [tree |-> tree', table |-> table', stamps |-> stamps', counts |-> counts']
    BY DEF Now
  <2> QED BY <2>1, <2>2 DEF Holds
<1>12. DOMAIN room.tree \subseteq DOMAIN st.tree
  <2>1. NodesOf(room.table) \subseteq NodesOf(st.table)
    <3>1. DOMAIN room.table \subseteq DOMAIN st.table
      BY <1>7
    <3> QED BY <3>1, <1>7, <1>10, FewerNodes
  <2> QED BY <2>1, <1>10 DEF TreeHolds
<1>13. FanOutHolds(DOMAIN tree)'
  <2>1. FanOutHolds(DOMAIN room.tree)
    BY <1>5, <1>12, FanOutShrinks
  <2> QED BY <2>1, <1>4 DEF FanOutHolds, Under
<1>14. Clocked'
  <2>1. tick \in 0 .. MaxTicks /\ MaxTicks \in Nat /\ nextSeq \in 1 .. tick + 1 /\ DOMAIN table \subseteq Seqs
        /\ \A s \in DOMAIN table : table[s].tick \in 1 .. tick
    BY <1>1, DrainAssumption DEF Clocked
  <2>2. tick' \in 0 .. MaxTicks /\ nextSeq' \in 1 .. tick' + 1 /\ tick' = tick + 1
    BY <2>1, <1>4
  <2>3. Seqs' = 1 .. nextSeq /\ Seqs = 1 .. nextSeq - 1 /\ Seqs \subseteq Seqs' /\ nextSeq \in Seqs'
    BY <1>4, <2>1 DEF Seqs
  <2>4. DOMAIN table' \subseteq Seqs'
    BY <1>2, <1>4, <1>7, <2>1, <2>3
  <2>5. home' \in [Lines -> Seqs' \union {Null}]
    BY <1>1, <1>4, <2>3 DEF Clocked
  <2>6. \A s \in DOMAIN table' : table'[s].tick \in 1 .. tick'
    <3> SUFFICES ASSUME NEW s \in DOMAIN table' PROVE table'[s].tick \in 1 .. tick'
      OBVIOUS
    <3>1. s \in DOMAIN st.table /\ table'[s] = st.table[s]
      BY <1>4, <1>7
    <3>2. CASE s = nextSeq
      BY <3>1, <3>2, <1>2, <2>1, <2>2
    <3>3. CASE s # nextSeq
      <4>1. table'[s].tick = table[s].tick /\ s \in DOMAIN table
        BY <3>1, <3>3, <1>2
      <4> QED BY <4>1, <2>1, <2>2
    <3> QED BY <3>2, <3>3
  <2> QED BY <2>2, <2>4, <2>5, <2>6 DEF Clocked
<1>15. Capped'
  <2>1. MaxLeafClusters \in Nat
    BY DrainAssumption
  <2>2. ASSUME MaxLeafClusters > 0, NEW n \in DOMAIN room.tree PROVE Cardinality(room.tree[n]) <= MaxLeafClusters
    <3>1. n \in DOMAIN st.tree
      BY <1>12, <2>2
    <3>2. /\ room.tree[n] = {s \in DOMAIN room.table : room.table[s].path = n}
          /\ IsFiniteSet(room.tree[n]) /\ Cardinality(room.tree[n]) \in Nat
      BY <1>10, <2>2, LeafIs
    <3>3. /\ st.tree[n] = {s \in DOMAIN st.table : st.table[s].path = n}
          /\ IsFiniteSet(st.tree[n]) /\ Cardinality(st.tree[n]) \in Nat
      BY <1>10, <3>1, LeafIs
    <3>4. room.tree[n] = st.tree[n] \ gone
      BY <3>2, <3>3, <1>7
    <3>5. CASE n = path
      BY <3>4, <3>5, <1>7, <2>2
    <3>6. CASE n # path /\ n \in DOMAIN tree
      <4>1. st.tree[n] = tree[n]
        BY <3>1, <3>6, <1>2
      <4>2. Cardinality(tree[n]) <= MaxLeafClusters
        BY <3>6, <2>2, <1>1 DEF Capped
      <4>3. room.tree[n] \in SUBSET st.tree[n]
        BY <3>4
      <4>4. Cardinality(room.tree[n]) <= Cardinality(st.tree[n])
        BY <4>3, <3>3, FS_Subset
      <4> QED BY <4>1, <4>2, <4>4, <3>2, <3>3, <2>1
    <3>7. CASE n # path /\ n \notin DOMAIN tree
      <4>1. st.tree[n] = {}
        BY <3>1, <3>7, <1>2
      <4>2. room.tree[n] = {}
        BY <4>1, <3>4
      <4>3. Cardinality(room.tree[n]) = 0
        BY <4>2, FS_EmptySet
      <4> QED BY <4>3, <2>1
    <3> QED BY <3>5, <3>6, <3>7
  <2> QED BY <2>2, <1>4, <1>10 DEF Capped
<1>16. Referred'
  <2>1. room.table[nextSeq].size = 1
    BY <1>2, <1>9
  <2>2. last'.seq = nextSeq /\ last'.template = room.table[nextSeq].tokens
        /\ last'.referred = Neighbours(room, nextSeq)
    BY <2>1, <1>4
  <2>3. Neighbours(room, nextSeq) =
           {s \in DOMAIN room.table \ {nextSeq} :
              /\ Len(room.table[s].tokens) - Len(room.table[nextSeq].tokens) \in -2 .. 2
              /\ Close(room.table[nextSeq].tokens, room.table[s].tokens)}
    BY <1>9, <1>10, NeighboursAre
  <2>4. last'.referred = {s \in DOMAIN table' \ {last'.seq} :
              /\ Len(table'[s].tokens) - Len(last'.template) \in -2 .. 2
              /\ Close(last'.template, table'[s].tokens)}
    BY <2>2, <2>3, <1>4
  <2> QED BY <2>4 DEF Referred
<1> QED BY <1>11, <1>13, <1>14, <1>15, <1>16 DEF IndexInv

LEMMA NextKeeps == IndexInv /\ [Next]_vars => IndexInv'
<1> SUFFICES ASSUME IndexInv, [Next]_vars PROVE IndexInv'
  OBVIOUS
<1>1. ASSUME NEW line \in Lines, Train(line) PROVE IndexInv'
  <2>1. tick < MaxTicks /\ tick' = tick + 1
    BY <1>1 DEF Train
  <2>2. ASSUME NEW seq \in Search(line), Join(line, seq) PROVE IndexInv'
    BY <2>1, <2>2, JoinKeeps
  <2>3. CASE Open(line)
    BY <2>1, <2>3, OpenKeeps
  <2> QED BY <1>1, <2>2, <2>3 DEF Train
<1>2. CASE UNCHANGED vars
  <2>1. /\ tree' = tree /\ table' = table /\ stamps' = stamps /\ counts' = counts /\ tick' = tick
        /\ nextSeq' = nextSeq /\ last' = last /\ home' = home
    BY <1>2 DEF vars
  <2>2. Clocked' /\ Capped' /\ Referred'
    BY <2>1 DEF IndexInv, Clocked, Capped, Referred, Seqs
  <2>3. Holds(Now)' /\ FanOutHolds(DOMAIN tree)'
    <3>1. Now' = Now
      BY <2>1 DEF Now
    <3> QED BY <3>1, <2>1 DEF IndexInv, Holds, FanOutHolds, Under
  <2> QED BY <2>2, <2>3 DEF IndexInv
<1> QED BY <1>1, <1>2 DEF Next, Quiet

\* Whatever the lines and the caps: tree, stamps and index follow the table.
THEOREM InductiveInvariant == Spec => []IndexInv
BY InitHolds, NextKeeps, PTL DEF Spec

\* The indexes are those of the table, node by node and entry by entry.
LEMMA IndexesFollow == IndexInv => EveryIndexIsTheTable
<1> SUFFICES ASSUME IndexInv PROVE EveryIndexIsTheTable
  OBVIOUS
<1>1. /\ Clocked /\ Capped /\ Referred /\ FanOutHolds(DOMAIN tree)
      /\ TypedTable(table) /\ TreeHolds(tree, table) /\ StampsHold(stamps, table) /\ CountsHold(counts, table)
  BY NowIs DEF IndexInv
<1>2. /\ DOMAIN tree = NodesOf(table)
      /\ tree = [n \in DOMAIN tree |-> {s \in DOMAIN table : table[s].path = n}]
  BY <1>1 DEF TreeHolds
<1>3. /\ NodesOf(table) \subseteq Seq(Key)
      /\ \A s \in DOMAIN table :
           table[s].path \in Way /\ Prefixes(table[s].path) \subseteq DOMAIN tree
  BY <1>1, <1>2, NodesAre
<1>4. \A s \in DOMAIN table : table[s].path \in DOMAIN tree
  <2> SUFFICES ASSUME NEW s \in DOMAIN table PROVE table[s].path \in DOMAIN tree
    OBVIOUS
  <2>1. table[s].path \in Seq(Key)
    BY <1>3, WayIs
  <2>2. table[s].path \in Prefixes(table[s].path)
    BY <2>1, PrefixesAre
  <2> QED BY <2>2, <1>3
<1>5. TypeOK
  <2>1. tick \in 0 .. MaxTicks /\ nextSeq \in 1 .. MaxTicks + 1 /\ MaxTicks \in Nat /\ tick \in Nat
    BY <1>1, DrainAssumption DEF Clocked
  <2>2. DOMAIN table \subseteq Seqs /\ \A s \in DOMAIN table : table[s].tick \in 1 .. tick
    BY <1>1 DEF Clocked
  <2>3. tree \in [DOMAIN tree -> SUBSET Seqs]
    <3>1. \A n \in DOMAIN tree : {s \in DOMAIN table : table[s].path = n} \in SUBSET Seqs
      BY <2>2
    <3> QED BY <1>2, <3>1
  <2>4. table \in [DOMAIN table -> Entry]
    <3>1. ASSUME NEW s \in DOMAIN table PROVE table[s] \in Entry
      <4>1. table[s] \in Entries
        BY <1>1 DEF TypedTable
      <4> QED BY <4>1, <2>2 DEF Entries, Entry, Way
    <3>2. table = [s \in DOMAIN table |-> table[s]]
      BY <1>1 DEF TypedTable
    <3> QED BY <3>1, <3>2
  <2>5. stamps \in [DOMAIN stamps -> Seqs] /\ DOMAIN stamps \subseteq 1 .. tick
    <3>1. /\ stamps = [t \in DOMAIN stamps |-> stamps[t]] /\ DOMAIN stamps = {table[s].tick : s \in DOMAIN table}
          /\ \A s \in DOMAIN table : stamps[table[s].tick] = s
      BY <1>1 DEF StampsHold
    <3>2. \A t \in DOMAIN stamps : stamps[t] \in Seqs /\ t \in 1 .. tick
      BY <3>1, <2>2
    <3> QED BY <3>1, <3>2
  <2>6. counts \subseteq Nat \X Seqs
    <3>1. \A s \in DOMAIN table : Len(table[s].tokens) \in Nat
      BY <1>1, EntryIs
    <3>2. counts = {<<Len(table[s].tokens), s>> : s \in DOMAIN table}
      BY <1>1 DEF CountsHold
    <3> QED BY <3>1, <3>2, <2>2
  <2>7. home \in [Lines -> Seqs \union {Null}]
    BY <1>1 DEF Clocked
  <2> QED BY <2>1, <2>2, <2>3, <2>4, <2>5, <2>6, <2>7, <1>4 DEF TypeOK
<1>6. TreeHoldsTheTable
  <2>1. \A n \in DOMAIN tree : tree[n] = {s \in DOMAIN table : table[s].path = n}
    BY <1>2
  <2>2. ASSUME NEW n \in DOMAIN tree \ {<<>>} PROVE tree[n] # {} \/ Children(n) # {}
    <3>1. PICK s \in DOMAIN table : n \in Prefixes(table[s].path)
      BY <1>2 DEF NodesOf
    <3>2. table[s].path \in Seq(Key) /\ Prefixes(table[s].path) \subseteq DOMAIN tree /\ n \in Seq(Key)
      BY <1>2, <1>3, WayIs
    <3>3. CASE n = table[s].path
      BY <3>3, <2>1
    <3>4. CASE n # table[s].path
      <4> DEFINE p == table[s].path
                 k == Len(n) + 1
                 c == SubSeq(p, 1, k)
      <4>1. Len(n) < Len(p) /\ c = Append(n, p[k]) /\ c \in Prefixes(p)
        BY <3>1, <3>2, <3>4, PrefixFront
      <4>2. p[k] \in Key
        <5>1. Len(n) \in Nat /\ Len(p) \in Nat
          BY <3>2, LenProperties
        <5>2. k \in 1 .. Len(p)
          BY <5>1, <4>1
        <5> QED BY <5>2, <3>2, ElementOfSeq
      <4> HIDE DEF p, k, c
      <4>3. Front(c) = n /\ c # <<>>
        BY <4>1, <4>2, <3>2, Parent
      <4>4. c \in Children(n)
        BY <4>1, <4>3, <3>2 DEF Children, p
      <4> QED BY <4>4
    <3> QED BY <3>3, <3>4
  <2>3. \A n \in DOMAIN tree : MaxLeafClusters > 0 => Cardinality(tree[n]) <= MaxLeafClusters
    BY <1>1 DEF Capped
  <2>4. \A n \in DOMAIN tree \ {<<>>} :
          Cardinality(Children(n)) <= IF Append(n, Param) \in DOMAIN tree THEN MaxChildren ELSE MaxChildren - 1
    <3>1. \A n : Children(n) = Under(DOMAIN tree, n)
      BY DEF Children, Under
    <3> QED BY <3>1, <1>1 DEF FanOutHolds
  <2> QED BY <2>1, <2>2, <2>3, <2>4 DEF TreeHoldsTheTable
<1>7. IndexesHoldTheTable
  BY <1>1 DEF IndexesHoldTheTable, StampsHold, CountsHold, Capped, Referred
<1> QED BY <1>5, <1>6, <1>7 DEF EveryIndexIsTheTable

\* Every live cluster sits in its leaf and nowhere else, under its caps and the
\* fan-out's; stamps and token counts know the live clusters and no other.
THEOREM IndexesHold == Spec => []EveryIndexIsTheTable
BY InductiveInvariant, IndexesFollow, PTL

\* A step forgets nothing, or the least recent of the table or of the leaf a new
\* cluster went to.
LEMMA StepForgets ==
  ASSUME IndexInv, NEW line \in Lines, Open(line)
  PROVE  /\ nextSeq' # nextSeq /\ last'.seq = nextSeq
         /\ nextSeq \in DOMAIN table' /\ DOMAIN table' \subseteq DOMAIN table \union {nextSeq}
         /\ table'[nextSeq].path = InsertPath(line)
         /\ \/ DOMAIN table \subseteq DOMAIN table'
            \/ \E s \in DOMAIN table :
                 /\ DOMAIN table \ DOMAIN table' = {s}
                 /\ \/ \A r \in DOMAIN table \ {s} : table[s].tick < table[r].tick
                    \/ /\ table[s].path = InsertPath(line)
                       /\ \A r \in DOMAIN table \ {s} :
                            table[r].path = table[s].path => table[s].tick < table[r].tick
<1> DEFINE st == Opened(line)
           path == InsertPath(line)
           room == Evict(EvictFromLeaf(st, path, nextSeq))
<1>1. Holds(Now) /\ Clocked
  BY DEF IndexInv
<1>2. /\ DOMAIN st.table = DOMAIN table \union {nextSeq} /\ nextSeq \notin DOMAIN table
      /\ \A s \in DOMAIN table : st.table[s] = table[s]
      /\ st.table[nextSeq] = [tokens |-> line, size |-> 1, tick |-> tick + 1, path |-> path]
  BY <1>1, OpenedHolds
<1>3. MadeRoom(st, st.tree[path], nextSeq, room)
  BY OpenedMakesRoom
<1>4. table' = room.table /\ nextSeq' = nextSeq + 1 /\ last'.seq = nextSeq
  BY DEF Open, Assigned
<1> HIDE DEF st, path, room
<1>5. PICK gone : /\ Victim(st.table, nextSeq, gone)
                  /\ DOMAIN room.table = DOMAIN st.table \ gone
                  /\ \A s \in DOMAIN room.table : room.table[s] = st.table[s]
  BY <1>3 DEF MadeRoom
<1>6. nextSeq \in Nat
  BY <1>1 DEF Clocked
<1>7. nextSeq \notin gone /\ gone \subseteq DOMAIN table
  BY <1>2, <1>5 DEF Victim
<1>8. /\ nextSeq \in DOMAIN table' /\ DOMAIN table' \subseteq DOMAIN table \union {nextSeq}
      /\ table'[nextSeq].path = path
  BY <1>2, <1>4, <1>5, <1>7
<1>9. CASE gone = {}
  BY <1>2, <1>4, <1>5, <1>6, <1>8, <1>9 DEF path
<1>10. CASE gone # {}
  <2>1. PICK s \in DOMAIN st.table \ {nextSeq} :
          /\ gone = {s}
          /\ \/ \A r \in DOMAIN st.table \ {s} : st.table[s].tick < st.table[r].tick
             \/ /\ st.table[s].path = st.table[nextSeq].path
                /\ \A r \in DOMAIN st.table \ {s, nextSeq} :
                     st.table[r].path = st.table[s].path => st.table[s].tick < st.table[r].tick
    BY <1>5, <1>10 DEF Victim
  <2>2. s \in DOMAIN table /\ DOMAIN table \ DOMAIN table' = {s} /\ st.table[s] = table[s]
    BY <2>1, <1>2, <1>4, <1>5
  <2>3. \/ \A r \in DOMAIN table \ {s} : table[s].tick < table[r].tick
        \/ /\ table[s].path = path
           /\ \A r \in DOMAIN table \ {s} : table[r].path = table[s].path => table[s].tick < table[r].tick
    BY <2>1, <2>2, <1>2
  <2> QED BY <2>2, <2>3, <1>4, <1>6, <1>8 DEF path
<1> QED BY <1>9, <1>10

\* Only the least recently used are forgotten, one for a new one at most.
THEOREM EvictionHolds == Spec => OnlyLeastRecentGoes
<1> DEFINE gone == DOMAIN table \ DOMAIN table'
           kept == DOMAIN table' \intersect DOMAIN table
           Least(s) == \/ \A r \in kept : table[s].tick < table[r].tick
                       \/ /\ table'[last'.seq].path = table[s].path
                          /\ \A r \in kept : table[r].path = table[s].path => table[s].tick < table[r].tick
           Goes == /\ Cardinality(gone) <= (IF nextSeq' = nextSeq THEN 0 ELSE 1)
                   /\ \A s \in gone : Least(s)
<1>1. ASSUME IndexInv, Next PROVE Goes \/ UNCHANGED vars
  <2>1. Cardinality({}) = 0 /\ \A x : Cardinality({x}) = 1
    BY FS_EmptySet, FS_Singleton
  <2>2. ASSUME gone = {} PROVE Goes
    <3>1. Cardinality(gone) = 0
      BY <2>1, <2>2
    <3> HIDE DEF gone
    <3> QED BY <3>1, <2>2
  <2>3. ASSUME NEW line \in Lines, NEW seq \in Search(line), Join(line, seq) PROVE Goes
    <3>1. Holds(Now) /\ Clocked /\ seq \in DOMAIN table
      BY <1>1, SearchIs DEF IndexInv
    <3>2. DOMAIN Joined(line, seq).table = DOMAIN table
      BY <3>1, JoinedHolds
    <3>3. table' = Joined(line, seq).table
      BY <2>3 DEF Join, Assigned
    <3> HIDE DEF Goes
    <3> QED BY <2>2, <3>2, <3>3
  <2>4. ASSUME NEW line \in Lines, Open(line) PROVE Goes
    <3>1. /\ nextSeq' # nextSeq /\ last'.seq = nextSeq
          /\ table'[nextSeq].path = InsertPath(line)
          /\ \/ DOMAIN table \subseteq DOMAIN table'
             \/ \E s \in DOMAIN table :
                  /\ DOMAIN table \ DOMAIN table' = {s}
                  /\ \/ \A r \in DOMAIN table \ {s} : table[s].tick < table[r].tick
                     \/ /\ table[s].path = InsertPath(line)
                        /\ \A r \in DOMAIN table \ {s} :
                             table[r].path = table[s].path => table[s].tick < table[r].tick
      BY <1>1, <2>4, StepForgets
    <3>2. CASE DOMAIN table \subseteq DOMAIN table'
      BY <2>2, <3>2
    <3>3. CASE ~(DOMAIN table \subseteq DOMAIN table')
      <4>1. PICK s \in DOMAIN table :
                  /\ gone = {s}
                  /\ \/ \A r \in DOMAIN table \ {s} : table[s].tick < table[r].tick
                     \/ /\ table[s].path = InsertPath(line)
                        /\ \A r \in DOMAIN table \ {s} :
                             table[r].path = table[s].path => table[s].tick < table[r].tick
        BY <3>1, <3>3
      <4>2. \A r \in kept : r \in DOMAIN table \ {s}
        BY <4>1
      <4>3. Least(s)
        BY <4>1, <4>2, <3>1
      <4> HIDE DEF Least, kept, gone
      <4>4. Cardinality(gone) = 1
        BY <4>1, <2>1
      <4> QED BY <4>1, <4>3, <4>4, <3>1
    <3> QED BY <3>2, <3>3
  <2> HIDE DEF Goes
  <2> QED BY <1>1, <2>3, <2>4 DEF Next, Train, Quiet
<1>2. IndexInv /\ [Next]_vars => [ForgetsLeastRecent]_vars
  <2>1. Goes => ForgetsLeastRecent
    BY DEF ForgetsLeastRecent
  <2> HIDE DEF Goes
  <2> QED BY <1>1, <2>1
<1> QED BY InductiveInvariant, <1>2, PTL DEF Spec, OnlyLeastRecentGoes

-----------------------------------------------------------------------------
(* Templates.                                                              *)

LEMMA UpTo ==
  ASSUME NEW n \in Nat
  PROVE  IsFiniteSet(1 .. n) /\ Cardinality(1 .. n) = n
<1>1. 1 \in Int /\ n \in Int /\ (IF 1 > n THEN 0 ELSE n - 1 + 1) = n
  OBVIOUS
<1>2. IsFiniteSet(1 .. n) /\ Cardinality(1 .. n) = IF 1 > n THEN 0 ELSE n - 1 + 1
  BY <1>1, FS_Interval
<1> QED BY <1>1, <1>2

\* Giving way loses no place to the parameter but where line and template
\* differed, and leaves the words they share.
LEMMA GivingWay ==
  ASSUME NEW tokens \in Seq(Token \union {Param}), NEW line \in Lines, Len(tokens) = Len(line)
  PROVE  LET given == Generalized(tokens, line)
         IN  /\ Similar(given, line) = Similar(tokens, line)
             /\ Len(given) - Params(given) = Similar(tokens, line)
             /\ Params(tokens) \in Nat /\ Params(given) \in Nat /\ Params(tokens) <= Params(given)
             /\ Matches(given, line)
             /\ \A other \in Lines : Matches(tokens, other) => Matches(given, other)
<1> DEFINE given == Generalized(tokens, line)
           D == DOMAIN tokens
           W == {i \in D : given[i] = Param}
           V == {i \in D : tokens[i] = Param}
           S == {i \in D : tokens[i] # Param /\ tokens[i] = line[i]}
<1>1. /\ Len(given) = Len(tokens) /\ DOMAIN given = D
      /\ \A i \in D : given[i] = IF tokens[i] = line[i] THEN tokens[i] ELSE Param
  BY GeneralizedIs
<1>2. Len(tokens) \in Nat /\ D = 1 .. Len(tokens) /\ DOMAIN line = D
  BY RouteIs, LenProperties
<1> HIDE DEF given
<1>3. IsFiniteSet(D) /\ Cardinality(D) = Len(tokens)
  <2> HIDE DEF D
  <2> QED BY <1>2, UpTo
<1>4. W \in SUBSET D /\ V \in SUBSET W /\ D \ W = S /\ D \intersect W = W
  BY <1>1
<1>5. Params(tokens) = Cardinality(V) /\ Params(given) = Cardinality(W)
  BY <1>1 DEF Params
<1>6. Similar(tokens, line) = Cardinality(S)
  BY <1>2 DEF Similar
<1>7. Similar(given, line) = Cardinality(S)
  <2>1. {i \in DOMAIN line : given[i] # Param /\ given[i] = line[i]} = S
    BY <1>1, <1>2
  <2> HIDE DEF S
  <2> QED BY <2>1 DEF Similar
<1> HIDE DEF D, W, V, S
<1>8. IsFiniteSet(W) /\ Cardinality(W) \in Nat /\ IsFiniteSet(V) /\ Cardinality(V) \in Nat
      /\ Cardinality(V) <= Cardinality(W)
  BY <1>3, <1>4, FS_Subset, FS_CardinalityType
<1>9. Cardinality(S) = Len(tokens) - Cardinality(W)
  <2>1. Cardinality(D \ W) = Cardinality(D) - Cardinality(D \intersect W)
    BY <1>3, FS_Difference
  <2> QED BY <2>1, <1>3, <1>4
<1>10. Matches(given, line)
  BY <1>1, <1>2 DEF Matches, D
<1>11. ASSUME NEW other \in Lines, Matches(tokens, other) PROVE Matches(given, other)
  <2>1. Len(tokens) = Len(other) /\ \A i \in DOMAIN other : tokens[i] \in {other[i], Param}
    BY <1>11 DEF Matches
  <2>2. DOMAIN other = D
    BY <2>1, <1>2, RouteIs
  <2>3. ASSUME NEW i \in DOMAIN other PROVE given[i] \in {other[i], Param}
    BY <2>1, <2>2, <1>1
  <2> QED BY <2>1, <2>3, <1>1 DEF Matches
<1> QED BY <1>1, <1>5, <1>6, <1>7, <1>8, <1>9, <1>10, <1>11 DEF given

\* A template shares at most all of a line's words, and then has no parameter.
LEMMA SharesAtMostAll ==
  ASSUME NEW tokens \in Seq(Token \union {Param}), NEW line \in Lines, Len(tokens) = Len(line)
  PROVE  /\ Similar(tokens, line) \in 0 .. Len(line)
         /\ Similar(tokens, line) = Len(line) => Params(tokens) = 0
<1> DEFINE D == DOMAIN line
           S == {i \in D : tokens[i] # Param /\ tokens[i] = line[i]}
<1>1. Len(line) \in Nat /\ D = 1 .. Len(line) /\ DOMAIN tokens = D
  BY RouteIs, LenProperties
<1>2. IsFiniteSet(D) /\ Cardinality(D) = Len(line)
  <2> HIDE DEF D
  <2> QED BY <1>1, UpTo
<1>3. S \in SUBSET D
  OBVIOUS
<1>4. IsFiniteSet(S) /\ Cardinality(S) \in Nat /\ Cardinality(S) <= Len(line)
      /\ (Cardinality(S) = Len(line) => S = D)
  <2> HIDE DEF S, D
  <2> QED BY <1>2, <1>3, FS_Subset, FS_CardinalityType
<1>5. ASSUME S = D PROVE Params(tokens) = 0
  <2>1. {i \in DOMAIN tokens : tokens[i] = Param} = {}
    BY <1>1, <1>5
  <2>2. Cardinality({}) = 0
    BY FS_EmptySet
  <2> QED BY <2>1, <2>2 DEF Params
<1> QED
  <2>1. Similar(tokens, line) = Cardinality(S)
    BY DEF Similar
  <2> HIDE DEF S, D
  <2> QED BY <2>1, <1>1, <1>4, <1>5

\* A line without the parameter's text is its own template, and is accepted.
LEMMA SharesItself ==
  ASSUME Param \notin Token, NEW line \in Lines
  PROVE  Similar(line, line) = Len(line) /\ Params(line) = 0 /\ Matches(line, line)
<1> DEFINE D == DOMAIN line
<1>1. Len(line) \in Nat /\ D = 1 .. Len(line) /\ \A i \in D : line[i] # Param
  <2>1. line \in Seq(Token) /\ Len(line) \in Nat /\ D = 1 .. Len(line)
    BY RouteIs
  <2> QED BY <2>1
<1>2. IsFiniteSet(D) /\ Cardinality(D) = Len(line)
  <2> HIDE DEF D
  <2> QED BY <1>1, UpTo
<1>3. {i \in DOMAIN line : line[i] # Param /\ line[i] = line[i]} = D
  BY <1>1
<1>4. {i \in DOMAIN line : line[i] = Param} = {}
  BY <1>1
<1>5. Matches(line, line)
  BY DEF Matches
<1> QED BY <1>2, <1>3, <1>4, <1>5, FS_EmptySet DEF Similar, Params

LEMMA AllIsAccepted ==
  ASSUME NEW n \in Nat
  PROVE  Accepted(n, n)
<1> DEFINE a == Similarity[1]
           b == Similarity[2]
<1>1. a \in Nat /\ b \in Nat /\ a <= b
  BY DrainAssumption
<1> HIDE DEF a, b
<1>2. n * b >= a * n
  BY <1>1
<1> QED BY <1>2 DEF Accepted, a, b

LEMMA JoinFits ==
  ASSUME IndexInv, TemplatesFitMembers, NEW line \in Lines, NEW seq \in Search(line), Join(line, seq)
  PROVE  TemplatesFitMembers'
<1> DEFINE was   == table[seq].tokens
           given == Generalized(was, line)
<1>1. Holds(Now) /\ Clocked /\ TypedTable(table)
  BY NowIs DEF IndexInv
<1>2. seq \in DOMAIN table /\ Len(was) = Len(line) /\ Accepted(Similar(was, line), Len(line))
  BY SearchIs
<1>3. was \in Seq(Token \union {Param})
  BY <1>1, <1>2, EntryIs
<1>4. /\ DOMAIN table' = DOMAIN table /\ \A s \in DOMAIN table \ {seq} : table'[s] = table[s]
      /\ table'[seq].tokens = given /\ home' = [home EXCEPT ![line] = seq]
  <2> DEFINE st == Joined(line, seq)
  <2>1. /\ DOMAIN st.table = DOMAIN table
        /\ \A s \in DOMAIN table \ {seq} : st.table[s] = table[s]
        /\ st.table[seq] = [tokens |-> given, size |-> table[seq].size + 1, tick |-> tick + 1,
                            path |-> table[seq].path]
    BY <1>1, <1>2, JoinedHolds
  <2>2. table' = st.table /\ home' = [home EXCEPT ![line] = seq]
    BY DEF Join, Assigned
  <2> HIDE DEF st, given
  <2> QED BY <2>1, <2>2
<1>5. /\ Len(given) - Params(given) = Similar(was, line) /\ Matches(given, line)
      /\ \A other \in Lines : Matches(was, other) => Matches(given, other)
  BY <1>2, <1>3, GivingWay
<1>6. Len(given) = Len(line)
  BY <1>5 DEF Matches
<1> HIDE DEF was, given
<1>7. \A other \in Lines : home'[other] \in DOMAIN table' => Matches(table'[home'[other]].tokens, other)
  <2> SUFFICES ASSUME NEW other \in Lines, home'[other] \in DOMAIN table'
               PROVE  Matches(table'[home'[other]].tokens, other)
    OBVIOUS
  <2>1. home'[other] = IF other = line THEN seq ELSE home[other]
    BY <1>1, <1>4 DEF Clocked
  <2>2. CASE other = line
    BY <2>1, <2>2, <1>4, <1>5
  <2>3. CASE other # line
    <3>1. home'[other] = home[other] /\ home[other] \in DOMAIN table
      BY <2>1, <2>3, <1>4
    <3>2. Matches(table[home[other]].tokens, other)
      BY <3>1 DEF TemplatesFitMembers
    <3> QED BY <3>1, <3>2, <1>4, <1>5 DEF was
  <2> QED BY <2>2, <2>3
<1>8. \A s \in DOMAIN table' :
        Accepted(Len(table'[s].tokens) - Params(table'[s].tokens), Len(table'[s].tokens))
  <2> SUFFICES ASSUME NEW s \in DOMAIN table'
               PROVE  Accepted(Len(table'[s].tokens) - Params(table'[s].tokens), Len(table'[s].tokens))
    OBVIOUS
  <2>1. CASE s = seq
    BY <2>1, <1>2, <1>4, <1>5, <1>6
  <2>2. CASE s # seq
    <3>1. table'[s] = table[s] /\ s \in DOMAIN table
      BY <2>2, <1>4
    <3>2. Accepted(Len(table[s].tokens) - Params(table[s].tokens), Len(table[s].tokens))
      BY <3>1 DEF TemplatesFitMembers
    <3> QED BY <3>1, <3>2
  <2> QED BY <2>1, <2>2
<1> QED BY <1>7, <1>8 DEF TemplatesFitMembers

\* What opening a cluster leaves: the new entry, and old ones as they were.
LEMMA OpenLeaves ==
  ASSUME IndexInv, NEW line \in Lines, Open(line)
  PROVE  /\ nextSeq \in DOMAIN table' /\ nextSeq \notin DOMAIN table
         /\ table'[nextSeq] =
              [tokens |-> line, size |-> 1, tick |-> tick + 1, path |-> InsertPath(line)]
         /\ \A s \in DOMAIN table' \ {nextSeq} : s \in DOMAIN table /\ table'[s] = table[s]
         /\ home' = [home EXCEPT ![line] = nextSeq] /\ last'.line = line /\ last'.seq = nextSeq
         /\ DOMAIN tree' \subseteq DOMAIN tree \union Prefixes(InsertPath(line))
<1> DEFINE st == Opened(line)
           path == InsertPath(line)
           room == Evict(EvictFromLeaf(st, path, nextSeq))
<1>1. Holds(Now) /\ Clocked
  BY DEF IndexInv
<1>2. /\ Holds(st) /\ DOMAIN st.tree = DOMAIN tree \union Prefixes(path)
      /\ DOMAIN st.table = DOMAIN table \union {nextSeq} /\ nextSeq \notin DOMAIN table
      /\ \A s \in DOMAIN table : st.table[s] = table[s]
      /\ st.table[nextSeq] = [tokens |-> line, size |-> 1, tick |-> tick + 1, path |-> path]
  BY <1>1, OpenedHolds
<1>3. MadeRoom(st, st.tree[path], nextSeq, room)
  BY OpenedMakesRoom
<1>4. /\ tree' = room.tree /\ table' = room.table
      /\ home' = [home EXCEPT ![line] = nextSeq] /\ last'.line = line /\ last'.seq = nextSeq
  BY DEF Open, Assigned
<1> HIDE DEF st, path, room
<1>5. PICK gone : /\ Victim(st.table, nextSeq, gone)
                  /\ DOMAIN room.table = DOMAIN st.table \ gone
                  /\ \A s \in DOMAIN room.table : room.table[s] = st.table[s]
  BY <1>3 DEF MadeRoom
<1>6. nextSeq \notin gone
  BY <1>5 DEF Victim
<1>7. /\ nextSeq \in DOMAIN room.table /\ room.table[nextSeq] = st.table[nextSeq]
      /\ DOMAIN room.table \subseteq DOMAIN st.table
  BY <1>2, <1>5, <1>6
<1>8. \A s \in DOMAIN table' \ {nextSeq} : s \in DOMAIN table /\ table'[s] = table[s]
  BY <1>2, <1>4, <1>5
<1>9. DOMAIN room.tree \subseteq DOMAIN st.tree
  <2>1. TypedTable(room.table) /\ TreeHolds(room.tree, room.table)
        /\ TypedTable(st.table) /\ TreeHolds(st.tree, st.table)
    BY <1>2, <1>3 DEF MadeRoom, Holds
  <2>2. NodesOf(room.table) \subseteq NodesOf(st.table)
    BY <2>1, <1>5, <1>7, FewerNodes
  <2> QED BY <2>1, <2>2 DEF TreeHolds
<1> QED BY <1>2, <1>4, <1>7, <1>8, <1>9 DEF path

LEMMA OpenFits ==
  ASSUME Param \notin Token, IndexInv, TemplatesFitMembers, NEW line \in Lines, Open(line)
  PROVE  TemplatesFitMembers'
<1>1. /\ nextSeq \in DOMAIN table' /\ nextSeq \notin DOMAIN table /\ table'[nextSeq].tokens = line
      /\ \A s \in DOMAIN table' \ {nextSeq} : s \in DOMAIN table /\ table'[s] = table[s]
      /\ home' = [home EXCEPT ![line] = nextSeq]
  <2> DEFINE entry == [tokens |-> line, size |-> 1, tick |-> tick + 1, path |-> InsertPath(line)]
  <2>1. /\ nextSeq \in DOMAIN table' /\ nextSeq \notin DOMAIN table /\ table'[nextSeq] = entry
        /\ \A s \in DOMAIN table' \ {nextSeq} : s \in DOMAIN table /\ table'[s] = table[s]
        /\ home' = [home EXCEPT ![line] = nextSeq]
    BY OpenLeaves
  <2>2. entry.tokens = line
    OBVIOUS
  <2> HIDE DEF entry
  <2> QED BY <2>1, <2>2
<1>2. Clocked
  BY DEF IndexInv
<1>3. \A other \in Lines : home'[other] \in DOMAIN table' => Matches(table'[home'[other]].tokens, other)
  <2> SUFFICES ASSUME NEW other \in Lines, home'[other] \in DOMAIN table'
               PROVE  Matches(table'[home'[other]].tokens, other)
    OBVIOUS
  <2>1. home'[other] = IF other = line THEN nextSeq ELSE home[other]
    BY <1>1, <1>2 DEF Clocked
  <2>2. CASE other = line
    BY <2>1, <2>2, <1>1, SharesItself
  <2>3. CASE other # line
    <3>1. home[other] # nextSeq
      <4>1. home[other] \in Seqs \union {Null} /\ nextSeq \in Nat /\ Null \notin Nat
        BY <1>2, DrainAssumption DEF Clocked
      <4>2. nextSeq \notin Seqs
        BY <4>1 DEF Seqs
      <4> QED BY <4>1, <4>2
    <3>2. home[other] \in DOMAIN table /\ table'[home[other]] = table[home[other]]
      BY <2>1, <2>3, <3>1, <1>1
    <3>3. Matches(table[home[other]].tokens, other)
      BY <3>2 DEF TemplatesFitMembers
    <3> QED BY <2>1, <2>3, <3>2, <3>3
  <2> QED BY <2>2, <2>3
<1>4. \A s \in DOMAIN table' :
        Accepted(Len(table'[s].tokens) - Params(table'[s].tokens), Len(table'[s].tokens))
  <2> SUFFICES ASSUME NEW s \in DOMAIN table'
               PROVE  Accepted(Len(table'[s].tokens) - Params(table'[s].tokens), Len(table'[s].tokens))
    OBVIOUS
  <2>1. CASE s = nextSeq
    <3>1. table'[s].tokens = line /\ Params(line) = 0 /\ Len(line) \in Nat
      BY <2>1, <1>1, SharesItself, RouteIs
    <3>2. Len(line) - Params(line) = Len(line)
      BY <3>1
    <3> QED BY <3>1, <3>2, AllIsAccepted
  <2>2. CASE s # nextSeq
    <3>1. table'[s] = table[s] /\ s \in DOMAIN table
      BY <2>2, <1>1
    <3>2. Accepted(Len(table[s].tokens) - Params(table[s].tokens), Len(table[s].tokens))
      BY <3>1 DEF TemplatesFitMembers
    <3> QED BY <3>1, <3>2
  <2> QED BY <2>1, <2>2
<1> QED BY <1>3, <1>4 DEF TemplatesFitMembers

\* While no line holds the parameter's text: every live cluster matches each
\* line last assigned to it, and keeps the share of words a join must find.
THEOREM FitHolds ==
  ASSUME Param \notin Token
  PROVE  Spec => []TemplatesFitMembers
<1>1. Init => TemplatesFitMembers
  BY DEF Init, TemplatesFitMembers
<1>2. IndexInv /\ TemplatesFitMembers /\ [Next]_vars => TemplatesFitMembers'
  <2> SUFFICES ASSUME IndexInv, TemplatesFitMembers, [Next]_vars PROVE TemplatesFitMembers'
    OBVIOUS
  <2>1. ASSUME NEW line \in Lines, Train(line) PROVE TemplatesFitMembers'
    <3>1. ASSUME NEW seq \in Search(line), Join(line, seq) PROVE TemplatesFitMembers'
      BY <3>1, JoinFits
    <3>2. CASE Open(line)
      BY <3>2, OpenFits
    <3> QED BY <2>1, <3>1, <3>2 DEF Train
  <2>2. ASSUME UNCHANGED vars PROVE TemplatesFitMembers'
    BY <2>2 DEF vars, TemplatesFitMembers
  <2> QED BY <2>1, <2>2 DEF Next, Quiet
<1> QED BY InductiveInvariant, <1>1, <1>2, PTL DEF Spec

-----------------------------------------------------------------------------
(* The way down.                                                           *)

\* Search ends at p in a tree of these nodes.
Leads(nodes, line, p) ==
  /\ p \in Routes(line) /\ p \in nodes
  /\ \A k \in 1 .. Levels(line) :
       p[k + 1] = IF Append(SubSeq(p, 1, k), line[k]) \in nodes THEN line[k] ELSE Param

\* Search ends at one node at most: where two ways part first, the key is the same.
LEMMA OneWay ==
  ASSUME NEW line \in Lines, NEW nodes, NEW p, NEW q, Leads(nodes, line, p), Leads(nodes, line, q)
  PROVE  q = p
<1> DEFINE n == Levels(line) + 1
           Parts == {i \in 1 .. n : q[i] # p[i]}
<1>1. /\ p \in Seq(Key) /\ q \in Seq(Key) /\ Len(p) = n /\ Len(q) = n /\ p[1] = q[1]
      /\ Levels(line) \in Nat /\ n \in Nat
  BY RouteIs DEF Leads
<1>2. ASSUME Parts # {} PROVE FALSE
  <2>1. PICK i \in Parts : \A j \in Parts : i <= j
    <3>1. Parts \subseteq Nat
      OBVIOUS
    <3> HIDE DEF Parts
    <3> QED BY <3>1, <1>2, LeastNumber
  <2>2. i \in 2 .. n /\ i - 1 \in 1 .. Levels(line) /\ (i - 1) + 1 = i /\ q[i] # p[i]
    BY <2>1, <1>1
  <2> DEFINE k == i - 1
  <2>3. k \in 1 .. Levels(line) /\ k \in 0 .. Len(p) /\ k \in 0 .. Len(q) /\ k + 1 = i
    BY <2>2, <1>1
  <2>4. \A j \in 1 .. k : q[j] = p[j]
    BY <2>1, <2>2, <1>1
  <2> HIDE DEF k
  <2>5. SubSeq(q, 1, k) = SubSeq(p, 1, k)
    <3>1. /\ SubSeq(p, 1, k) \in Seq(Key) /\ Len(SubSeq(p, 1, k)) = k
          /\ \A j \in 1 .. k : SubSeq(p, 1, k)[j] = p[j]
      BY <1>1, <2>3, Cut
    <3>2. /\ SubSeq(q, 1, k) \in Seq(Key) /\ Len(SubSeq(q, 1, k)) = k
          /\ \A j \in 1 .. k : SubSeq(q, 1, k)[j] = q[j]
      BY <1>1, <2>3, Cut
    <3>3. \A j \in 1 .. Len(SubSeq(p, 1, k)) : SubSeq(q, 1, k)[j] = SubSeq(p, 1, k)[j]
      BY <3>1, <3>2, <2>4
    <3> QED BY <3>1, <3>2, <3>3, SeqEqual
  <2>6. q[k + 1] = p[k + 1]
    BY <2>3, <2>5 DEF Leads
  <2> QED BY <2>2, <2>3, <2>6
<1>3. \A i \in 1 .. Len(p) : q[i] = p[i]
  BY <1>1, <1>2
<1> HIDE DEF n, Parts
<1> QED BY <1>1, <1>3, SeqEqual

\* Search takes the way insert took, in the tree before if it ends there, and in
\* any after: the token's own child is there just when insert went to it.
LEMMA InsertLeads ==
  ASSUME NEW line \in Lines, NEW nodes, nodes \subseteq DOMAIN tree \union Prefixes(InsertPath(line)),
         Prefixes(InsertPath(line)) \subseteq nodes
  PROVE  Leads(nodes, line, InsertPath(line))
<1> DEFINE p == InsertPath(line)
<1>1. p \in Routes(line) /\ \A k \in 1 .. Levels(line) : p[k + 1] = InsertKey(SubSeq(p, 1, k), line[k])
  BY InsertArrives
<1> HIDE DEF p
<1>2. /\ p \in Seq(Key) /\ Len(p) = Levels(line) + 1 /\ Levels(line) \in 0 .. Len(line)
      /\ line \in Seq(Token) /\ Len(line) \in Nat
  BY <1>1, RouteIs
<1>3. p \in nodes
  BY <1>2, PrefixesAre DEF p
<1>4. ASSUME NEW k \in 1 .. Levels(line)
      PROVE  p[k + 1] = IF Append(SubSeq(p, 1, k), line[k]) \in nodes THEN line[k] ELSE Param
  <2> DEFINE c == Append(SubSeq(p, 1, k), line[k])
  <2>1. /\ k \in Nat /\ k \in 0 .. Len(p) /\ k + 1 \in 1 .. Len(p) /\ k + 1 \in 0 .. Len(p) /\ (k + 1) - 1 = k
        /\ k \in 1 .. Len(line)
    BY <1>2
  <2>2. line[k] \in Key /\ SubSeq(p, 1, k) \in Seq(Key) /\ Len(SubSeq(p, 1, k)) = k
    <3>1. line[k] \in Token
      BY <2>1, <1>2
    <3> QED BY <3>1, <2>1, <1>2, Cut DEF Key
  <2>3. c \in Seq(Key) /\ Len(c) = k + 1 /\ c[k + 1] = line[k]
    BY <2>2, <2>1, AppendProperties
  <2>4. SubSeq(p, 1, k + 1) = Append(SubSeq(p, 1, k), p[k + 1]) /\ SubSeq(p, 1, k + 1)[k + 1] = p[k + 1]
    <3>1. SubSeq(p, 1, k + 1) = Append(SubSeq(p, 1, (k + 1) - 1), p[k + 1])
      BY <1>2, <2>1, CutStep
    <3>2. \A i \in 1 .. k + 1 : SubSeq(p, 1, k + 1)[i] = p[i]
      BY <1>2, <2>1, Cut
    <3> QED BY <3>1, <3>2, <2>1
  <2>5. SubSeq(p, 1, k + 1) \in Prefixes(p)
    BY <2>1 DEF Prefixes
  <2>6. p[k + 1] = line[k] \/ (p[k + 1] = Param /\ c \notin DOMAIN tree)
    BY <1>1 DEF InsertKey
  <2>7. ASSUME p[k + 1] = line[k] PROVE c \in nodes
    BY <2>4, <2>5, <2>7 DEF p
  <2>8. ASSUME p[k + 1] # line[k] PROVE c \notin Prefixes(p)
    <3>1. ASSUME c \in Prefixes(p) PROVE c = SubSeq(p, 1, k + 1)
      BY <3>1, <1>2, <2>3, PrefixIs
    <3> HIDE DEF c
    <3> QED BY <3>1, <2>3, <2>4, <2>8
  <2> HIDE DEF c
  <2>9. p[k + 1] = IF c \in nodes THEN line[k] ELSE Param
    BY <2>6, <2>7, <2>8 DEF p
  <2> QED BY <2>9 DEF c
<1> QED BY <1>1, <1>3, <1>4 DEF Leads, p

LEMMA SearchLeads ==
  ASSUME NEW line \in Lines
  PROVE  /\ \A p : p \in SearchPaths(line) <=> Leads(DOMAIN tree, line, p)
         /\ \A p : (p \in SearchPaths(line))' <=> Leads(DOMAIN tree', line, p)
BY DEF SearchPaths, SearchKey, Leads

-----------------------------------------------------------------------------
(* What search finds in a tree and a table.                                *)

Contenders(nodes, entries, line) ==
  {s \in DOMAIN entries :
     Len(entries[s].tokens) = Len(line) /\ \E p : Leads(DOMAIN nodes, line, p) /\ s \in nodes[p]}

Outdoes(entries, r, s, line) ==
  LET Sim(c)  == Similar(entries[c].tokens, line)
      Wild(c) == Params(entries[c].tokens)
  IN  \/ Sim(r) > Sim(s)
      \/ Sim(r) = Sim(s) /\ (Wild(r) > Wild(s) \/ (Wild(r) = Wild(s) /\ r < s))

Found(nodes, entries, line) ==
  {s \in Contenders(nodes, entries, line) :
     /\ \A r \in Contenders(nodes, entries, line) \ {s} : Outdoes(entries, s, r, line)
     /\ Accepted(Similar(entries[s].tokens, line), Len(line))}

LEMMA SearchFinds ==
  ASSUME NEW line \in Lines
  PROVE  /\ Search(line) = Found(tree, table, line)
         /\ (Search(line))' = Found(tree', table', line)
<1>1. Candidates(line) = Contenders(tree, table, line)
  BY SearchLeads DEF Candidates, Contenders
<1>2. (Candidates(line))' = Contenders(tree', table', line)
  BY SearchLeads DEF Candidates, Contenders
<1>3. \A r, s : Beats(r, s, line) <=> Outdoes(table, r, s, line)
  BY DEF Beats, Outdoes
<1>4. \A r, s : (Beats(r, s, line))' <=> Outdoes(table', r, s, line)
  BY DEF Beats, Outdoes
<1>5. Search(line) = Found(tree, table, line)
  BY <1>1, <1>3 DEF Search, Found
<1>6. (Search(line))' = Found(tree', table', line)
  BY <1>2, <1>4 DEF Search, Found
<1> QED BY <1>5, <1>6

LEMMA RefoundNext ==
  ASSUME NEW line \in Lines, NEW seq, last'.line = line, last'.seq = seq, Found(tree', table', line) = {seq}
  PROVE  RefoundAtOnce'
<1>1. (Search(line))' = {last'.seq}
  BY SearchFinds
<1>2. (Search(last.line))' = (Search(line))'
  BY DEF Search, Candidates, SearchPaths, SearchKey, Beats
<1> QED BY <1>1, <1>2 DEF RefoundAtOnce

\* Whoever outdoes all the others is all that is found.
LEMMA BestIsFound ==
  ASSUME NEW nodes, NEW entries, TypedTable(entries), NEW line \in Lines,
         NEW s \in Contenders(nodes, entries, line),
         \A r \in Contenders(nodes, entries, line) \ {s} : Outdoes(entries, s, r, line),
         Accepted(Similar(entries[s].tokens, line), Len(line))
  PROVE  Found(nodes, entries, line) = {s}
<1> DEFINE Sim(c)  == Similar(entries[c].tokens, line)
           Wild(c) == Params(entries[c].tokens)
           C == Contenders(nodes, entries, line)
<1>1. \A c \in C : c \in Nat /\ Sim(c) \in Int /\ Wild(c) \in Int
  <2> SUFFICES ASSUME NEW c \in C PROVE c \in Nat /\ Sim(c) \in Int /\ Wild(c) \in Int
    OBVIOUS
  <2>1. c \in DOMAIN entries /\ Len(entries[c].tokens) = Len(line) /\ c \in Nat
    BY DEF Contenders, TypedTable
  <2>2. entries[c].tokens \in Seq(Token \union {Param})
    BY <2>1, EntryIs
  <2>3. Sim(c) \in 0 .. Len(line) /\ Wild(c) \in Nat
    BY <2>1, <2>2, SharesAtMostAll, GivingWay
  <2>4. Len(line) \in Nat
    BY RouteIs
  <2> QED BY <2>1, <2>3, <2>4
<1>2. ASSUME NEW r \in C, r # s PROVE ~Outdoes(entries, r, s, line)
  <2>1. Outdoes(entries, s, r, line)
    BY <1>2
  <2>2. \/ Sim(s) > Sim(r)
        \/ Sim(s) = Sim(r) /\ (Wild(s) > Wild(r) \/ (Wild(s) = Wild(r) /\ s < r))
    BY <2>1 DEF Outdoes
  <2>3. r \in Nat /\ s \in Nat /\ Sim(r) \in Int /\ Sim(s) \in Int /\ Wild(r) \in Int /\ Wild(s) \in Int
    BY <1>1
  <2> HIDE DEF Sim, Wild
  <2>4. ~(\/ Sim(r) > Sim(s)
          \/ Sim(r) = Sim(s) /\ (Wild(r) > Wild(s) \/ (Wild(r) = Wild(s) /\ r < s)))
    BY <2>2, <2>3
  <2> QED BY <2>4 DEF Outdoes, Sim, Wild
<1> HIDE DEF Sim, Wild
<1> QED BY <1>2 DEF Found

LEMMA JoinRefinds ==
  ASSUME IndexInv, NEW line \in Lines, NEW seq \in Search(line), Join(line, seq), IndexInv'
  PROVE  RefoundAtOnce'
<1> DEFINE was   == table[seq].tokens
           given == Generalized(was, line)
           C == Contenders(tree, table, line)
<1>1. Holds(Now) /\ Clocked /\ TypedTable(table)
  BY NowIs DEF IndexInv
<1>2. /\ seq \in DOMAIN table /\ Len(was) = Len(line) /\ Accepted(Similar(was, line), Len(line))
      /\ was \in Seq(Token \union {Param})
  BY <1>1, SearchIs, EntryIs
<1>3. /\ tree' = tree /\ DOMAIN table' = DOMAIN table /\ \A s \in DOMAIN table \ {seq} : table'[s] = table[s]
      /\ table'[seq].tokens = given /\ last'.line = line /\ last'.seq = seq
  <2> DEFINE st == Joined(line, seq)
  <2>1. /\ st.tree = tree /\ DOMAIN st.table = DOMAIN table
        /\ \A s \in DOMAIN table \ {seq} : st.table[s] = table[s]
        /\ st.table[seq] = [tokens |-> given, size |-> table[seq].size + 1, tick |-> tick + 1,
                            path |-> table[seq].path]
    BY <1>1, <1>2, JoinedHolds
  <2>2. tree' = st.tree /\ table' = st.table /\ last'.line = line /\ last'.seq = seq
    BY DEF Join, Assigned
  <2> HIDE DEF st, given
  <2> QED BY <2>1, <2>2
<1>4. /\ Similar(given, line) = Similar(was, line) /\ Len(given) = Len(line)
      /\ Params(was) \in Nat /\ Params(given) \in Nat /\ Params(was) <= Params(given)
  BY <1>2, GivingWay, GeneralizedIs
<1>5. TypedTable(table')
  <2>1. Holds(Now)'
    BY DEF IndexInv
  <2>2. Now' = [tree |-> tree', table |-> table', stamps |-> stamps', counts |-> counts']
    BY DEF Now
  <2> QED BY <2>1, <2>2 DEF Holds
<1>6. seq \in C /\ \A r \in C \ {seq} : Outdoes(table, seq, r, line)
  BY SearchFinds DEF Found
<1> HIDE DEF was, given
<1>7. Contenders(tree', table', line) = C
  BY <1>2, <1>3, <1>4 DEF Contenders, was
<1>8. ASSUME NEW r \in C \ {seq} PROVE Outdoes(table', seq, r, line)
  <2>1. r \in DOMAIN table \ {seq} /\ Len(table[r].tokens) = Len(line)
    BY DEF Contenders
  <2>2. table'[r] = table[r] /\ Outdoes(table, seq, r, line)
    BY <2>1, <1>3, <1>6
  <2> DEFINE sim == Similar(table[r].tokens, line)
             wild == Params(table[r].tokens)
  <2>3. sim \in Int /\ wild \in Int
    <3>1. table[r].tokens \in Seq(Token \union {Param}) /\ Len(line) \in Nat
      BY <1>1, <2>1, EntryIs, RouteIs
    <3> QED BY <3>1, <2>1, SharesAtMostAll, GivingWay
  <2>4. \/ Similar(was, line) > sim
        \/ Similar(was, line) = sim /\ (Params(was) > wild \/ (Params(was) = wild /\ seq < r))
    BY <2>2 DEF Outdoes, was
  <2> HIDE DEF sim, wild
  <2>5. \/ Similar(given, line) > sim
        \/ Similar(given, line) = sim /\ (Params(given) > wild \/ (Params(given) = wild /\ seq < r))
    BY <2>3, <2>4, <1>4
  <2> QED BY <2>2, <2>5, <1>3 DEF Outdoes, sim, wild
<1>9. Accepted(Similar(table'[seq].tokens, line), Len(line))
  BY <1>2, <1>3, <1>4
<1>10. Found(tree', table', line) = {seq}
  <2>1. seq \in Contenders(tree', table', line)
        /\ \A r \in Contenders(tree', table', line) \ {seq} : Outdoes(table', seq, r, line)
    BY <1>6, <1>7, <1>8
  <2> HIDE DEF C
  <2> QED BY <2>1, <1>5, <1>9, BestIsFound
<1> QED BY <1>3, <1>10, RefoundNext

\* Where some template has all of a line's words, search finds one.
LEMMA FullIsFound ==
  ASSUME NEW nodes, NEW entries, TypedTable(entries), NEW line \in Lines,
         NEW s \in Contenders(nodes, entries, line), Similar(entries[s].tokens, line) = Len(line)
  PROVE  Found(nodes, entries, line) # {}
<1> DEFINE Sim(c)  == Similar(entries[c].tokens, line)
           Wild(c) == Params(entries[c].tokens)
           C == Contenders(nodes, entries, line)
           F == {c \in C : Sim(c) = Len(line)}
<1>1. Len(line) \in Nat
  BY RouteIs
<1>2. \A c \in C : c \in Nat /\ Sim(c) \in 0 .. Len(line) /\ (Sim(c) = Len(line) => Wild(c) = 0)
  <2> SUFFICES ASSUME NEW c \in C
               PROVE  c \in Nat /\ Sim(c) \in 0 .. Len(line) /\ (Sim(c) = Len(line) => Wild(c) = 0)
    OBVIOUS
  <2>1. c \in DOMAIN entries /\ Len(entries[c].tokens) = Len(line) /\ c \in Nat
    BY DEF Contenders, TypedTable
  <2>2. entries[c].tokens \in Seq(Token \union {Param})
    BY <2>1, EntryIs
  <2> QED BY <2>1, <2>2, SharesAtMostAll
<1>3. PICK m \in F : \A r \in F : m <= r
  <2>1. F \subseteq Nat /\ F # {}
    BY <1>2
  <2> HIDE DEF F
  <2> QED BY <2>1, LeastNumber
<1>4. ASSUME NEW r \in C \ {m} PROVE Outdoes(entries, m, r, line)
  <2>1. m \in Nat /\ r \in Nat /\ Sim(m) = Len(line) /\ Wild(m) = 0 /\ Sim(r) \in 0 .. Len(line)
        /\ (Sim(r) = Len(line) => Wild(r) = 0 /\ m <= r)
    BY <1>2, <1>3
  <2> HIDE DEF Sim, Wild
  <2>2. \/ Sim(m) > Sim(r)
        \/ Sim(m) = Sim(r) /\ (Wild(m) > Wild(r) \/ (Wild(m) = Wild(r) /\ m < r))
    BY <2>1, <1>1
  <2> QED BY <2>2 DEF Outdoes, Sim, Wild
<1>5. Accepted(Sim(m), Len(line))
  BY <1>1, <1>3, AllIsAccepted
<1>6. m \in Found(nodes, entries, line)
  BY <1>3, <1>4, <1>5 DEF Found
<1> QED BY <1>6

LEMMA OpenRefinds ==
  ASSUME Param \notin Token, IndexInv, NEW line \in Lines, Search(line) = {}, Open(line), IndexInv'
  PROVE  RefoundAtOnce'
<1> DEFINE path == InsertPath(line)
           C == Contenders(tree', table', line)
<1>1. Holds(Now) /\ Clocked /\ TypedTable(table) /\ TreeHolds(tree, table)
  BY NowIs DEF IndexInv
<1>2. TypedTable(table') /\ TreeHolds(tree', table')
  <2>1. Holds(Now)'
    BY DEF IndexInv
  <2>2. Now' = [tree |-> tree', table |-> table', stamps |-> stamps', counts |-> counts']
    BY DEF Now
  <2> QED BY <2>1, <2>2 DEF Holds
<1>3. /\ nextSeq \in DOMAIN table' /\ nextSeq \notin DOMAIN table
      /\ table'[nextSeq].tokens = line /\ table'[nextSeq].path = path
      /\ \A s \in DOMAIN table' \ {nextSeq} : s \in DOMAIN table /\ table'[s] = table[s]
      /\ last'.line = line /\ last'.seq = nextSeq
      /\ DOMAIN tree' \subseteq DOMAIN tree \union Prefixes(path)
  <2> DEFINE entry == [tokens |-> line, size |-> 1, tick |-> tick + 1, path |-> path]
  <2>1. /\ nextSeq \in DOMAIN table' /\ nextSeq \notin DOMAIN table /\ table'[nextSeq] = entry
        /\ \A s \in DOMAIN table' \ {nextSeq} : s \in DOMAIN table /\ table'[s] = table[s]
        /\ last'.line = line /\ last'.seq = nextSeq
        /\ DOMAIN tree' \subseteq DOMAIN tree \union Prefixes(path)
    BY OpenLeaves
  <2>2. entry.tokens = line /\ entry.path = path
    OBVIOUS
  <2> HIDE DEF entry, path
  <2> QED BY <2>1, <2>2
<1> HIDE DEF path
<1>4. path \in Seq(Key) /\ path \in Prefixes(path) /\ Prefixes(path) \subseteq DOMAIN tree'
      /\ \A n \in DOMAIN tree' : tree'[n] = {s \in DOMAIN table' : table'[s].path = n}
  <2>1. Prefixes(path) \subseteq NodesOf(table')
    BY <1>2, <1>3, NodesAre
  <2>2. path \in Routes(line)
    BY InsertArrives DEF path
  <2>3. path \in Seq(Key)
    BY <2>2, RouteIs
  <2> QED BY <2>1, <2>3, <1>2, PrefixesAre DEF TreeHolds
<1>5. Leads(DOMAIN tree', line, path)
  BY <1>3, <1>4, InsertLeads DEF path
<1>6. \A p : Leads(DOMAIN tree', line, p) => p = path
  BY <1>5, OneWay
<1>7. C = {s \in DOMAIN table' : Len(table'[s].tokens) = Len(line) /\ table'[s].path = path}
  <2>1. path \in DOMAIN tree'
    BY <1>4
  <2>2. tree'[path] = {s \in DOMAIN table' : table'[s].path = path}
    BY <1>4, <2>1
  <2>3. \A s : (\E p : Leads(DOMAIN tree', line, p) /\ s \in tree'[p]) <=> s \in tree'[path]
    BY <1>5, <1>6
  <2> QED BY <2>2, <2>3 DEF Contenders
<1>8. nextSeq \in C
  BY <1>3, <1>7
<1>9. Similar(line, line) = Len(line) /\ Params(line) = 0 /\ Len(line) \in Nat
  BY SharesItself, RouteIs
<1>10. ASSUME NEW r \in C \ {nextSeq} PROVE Outdoes(table', nextSeq, r, line)
  <2>1. /\ r \in DOMAIN table /\ table'[r] = table[r]
        /\ Len(table[r].tokens) = Len(line) /\ table[r].path = path
    BY <1>3, <1>7
  <2>2. table[r].tokens \in Seq(Token \union {Param})
    BY <2>1, <1>1, EntryIs
  <2>3. Similar(table[r].tokens, line) \in 0 .. Len(line)
    BY <2>1, <2>2, SharesAtMostAll
  <2>4. ASSUME Similar(table[r].tokens, line) = Len(line) PROVE FALSE
    <3>1. DOMAIN tree = NodesOf(table)
          /\ \A n \in DOMAIN tree : tree[n] = {s \in DOMAIN table : table[s].path = n}
      BY <1>1 DEF TreeHolds
    <3>2. Prefixes(path) \subseteq DOMAIN tree
      BY <3>1, <2>1, <1>1, NodesAre
    <3>3. Leads(DOMAIN tree, line, path)
      BY <3>2, InsertLeads DEF path
    <3>4. r \in tree[path]
      BY <3>1, <3>2, <1>4, <2>1
    <3>5. r \in Contenders(tree, table, line)
      BY <3>3, <3>4, <2>1 DEF Contenders
    <3>6. Found(tree, table, line) # {}
      BY <3>5, <2>4, <1>1, FullIsFound
    <3> QED BY <3>6, SearchFinds
  <2>5. Similar(line, line) > Similar(table[r].tokens, line)
    BY <1>9, <2>3, <2>4
  <2> QED BY <2>1, <2>5, <1>3 DEF Outdoes
<1>11. Accepted(Similar(table'[nextSeq].tokens, line), Len(line))
  BY <1>3, <1>9, AllIsAccepted
<1>12. Found(tree', table', line) = {nextSeq}
  <2> HIDE DEF C
  <2>1. nextSeq \in Contenders(tree', table', line)
        /\ \A r \in Contenders(tree', table', line) \ {nextSeq} : Outdoes(table', nextSeq, r, line)
    BY <1>8, <1>10 DEF C
  <2> QED BY <2>1, <1>2, <1>11, BestIsFound
<1> QED BY <1>3, <1>12, RefoundNext

\* While no line holds the parameter's text, the line just assigned would be
\* assigned to the same cluster again: search follows insert down the tree, a line
\* that opened a cluster did so because no template there has all its words, and
\* one that joined left the template no further from it, and no less wild.
THEOREM RefindHolds ==
  ASSUME Param \notin Token
  PROVE  Spec => []RefoundAtOnce
<1>1. Init => RefoundAtOnce
  BY DEF Init, RefoundAtOnce
<1>2. IndexInv /\ IndexInv' /\ RefoundAtOnce /\ [Next]_vars => RefoundAtOnce'
  <2> SUFFICES ASSUME IndexInv, IndexInv', RefoundAtOnce, [Next]_vars PROVE RefoundAtOnce'
    OBVIOUS
  <2>1. ASSUME NEW line \in Lines, Train(line) PROVE RefoundAtOnce'
    <3>1. ASSUME NEW seq \in Search(line), Join(line, seq) PROVE RefoundAtOnce'
      BY <3>1, JoinRefinds
    <3>2. CASE Search(line) = {} /\ Open(line)
      BY <3>2, OpenRefinds
    <3> QED BY <2>1, <3>1, <3>2 DEF Train
  <2>2. ASSUME UNCHANGED vars PROVE RefoundAtOnce'
    BY <2>2 DEF vars, RefoundAtOnce, Search, Candidates, SearchPaths, SearchKey, Beats
  <2> QED BY <2>1, <2>2 DEF Next, Quiet
<1> QED BY InductiveInvariant, <1>1, <1>2, PTL DEF Spec
=============================================================================
