-------------------------- MODULE WindowTableProofs --------------------------
(***************************************************************************)
(* The windows say of the lines they took what the raise rule believes:    *)
(* for any number of templates, hosts, buckets and lines, whatever the     *)
(* widths, both totals are sliding counts, the hosts are counted once, and *)
(* the table forgets only what is idle or stalest.                         *)
(***************************************************************************)
EXTENDS WindowTable, WellFoundedInduction, FiniteSetTheorems, TLAPS

-----------------------------------------------------------------------------
(* Numbers.                                                                *)

\* A set of numbers has a least member.
LEMMA LeastNumber ==
  ASSUME NEW S, S \subseteq Nat, S # {}
  PROVE  \E x \in S : \A y \in S : x <= y
<1> DEFINE R == OpToRel(<, Nat)
<1>1. IsWellFoundedOn(R, Nat)
  BY NatLessThanWellFounded
<1>2. PICK x \in S : \A y \in S : ~(<<y, x>> \in R)
  <2> HIDE DEF R
  <2> QED BY <1>1, WFMin
<1>3. \A y \in S : ~(y < x)
  BY <1>2 DEF OpToRel
<1> QED BY <1>3

\* Two buckets of one slot, less than a turn of the ring apart, are the same.
LEMMA SameSlot ==
  ASSUME NEW b \in Nat \ {0}, NEW e \in Int, NEW q \in Int,
         e % b = q % b, q <= e, e - q < b
  PROVE  e = q
<1>1. e = b * (e \div b) + (e % b) /\ q = b * (q \div b) + (q % b) /\ e \div b \in Int /\ q \div b \in Int
  OBVIOUS
<1> DEFINE j == (e \div b) - (q \div b)
<1>2. j \in Int
  BY <1>1
<1>3. e - q = b * j
  <2>1. b * j = b * (e \div b) - b * (q \div b)
    BY <1>1
  <2> QED BY <1>1, <2>1
<1> HIDE DEF j
<1>4. ~(j >= 1)
  <2>1. SUFFICES ASSUME j >= 1 PROVE FALSE
    OBVIOUS
  <2>2. b * j >= b
    BY <1>2, <2>1
  <2> QED BY <1>2, <1>3, <2>2
<1>5. ~(j <= -1)
  <2>1. SUFFICES ASSUME j <= -1 PROVE FALSE
    OBVIOUS
  <2>2. b * j <= -b
    BY <1>2, <2>1
  <2> QED BY <1>2, <1>3, <2>2
<1> QED BY <1>2, <1>3, <1>4, <1>5

\* Younger than all but one bucket, so in one that is not stale.
LEMMA YoungIsLive ==
  ASSUME NEW b \in Nat \ {0}, NEW w \in Nat \ {0}, NEW at \in Nat, NEW h \in Nat,
         at - h <= (b - 1) * w
  PROVE  (at \div w) - (h \div w) < b
<1>1. at = w * (at \div w) + (at % w) /\ at % w \in 0 .. w - 1 /\ at \div w \in Int
  OBVIOUS
<1>2. h = w * (h \div w) + (h % w) /\ h % w \in 0 .. w - 1 /\ h \div w \in Int
  OBVIOUS
<1> DEFINE j == (at \div w) - (h \div w)
<1>3. j \in Int
  BY <1>1, <1>2
<1>4. w * j = at - h - (at % w) + (h % w)
  <2> DEFINE p == w * (at \div w)
             q == w * (h \div w)
  <2>1. w * j = p - q /\ p \in Int /\ q \in Int
    BY <1>1, <1>2
  <2>2. p = at - (at % w) /\ q = h - (h % w)
    BY <1>1, <1>2
  <2>3. at % w \in Int /\ h % w \in Int
    BY <1>1, <1>2
  <2> HIDE DEF p, q, j
  <2> QED BY <2>1, <2>2, <2>3
<1>0. j < b <=> (at \div w) - (h \div w) < b
  OBVIOUS
<1> HIDE DEF j
<1>5. w * j < b * w
  <2>1. (b - 1) * w = b * w - w
    OBVIOUS
  <2> QED BY <1>1, <1>2, <1>4, <2>1
<1>6. ~(j >= b)
  <2>1. SUFFICES ASSUME j >= b PROVE FALSE
    OBVIOUS
  <2>2. w * j >= w * b
    BY <1>3, <2>1
  <2> QED BY <1>3, <1>5, <2>2
<1> QED BY <1>0, <1>3, <1>6

\* In a bucket that is not stale, so younger than all of them.
LEMMA LiveIsYoung ==
  ASSUME NEW b \in Nat \ {0}, NEW w \in Nat \ {0}, NEW at \in Nat, NEW h \in Nat,
         (at \div w) - (h \div w) < b
  PROVE  at - h <= b * w - 1
<1>1. at = w * (at \div w) + (at % w) /\ at % w \in 0 .. w - 1 /\ at \div w \in Int
  OBVIOUS
<1>2. h = w * (h \div w) + (h % w) /\ h % w \in 0 .. w - 1 /\ h \div w \in Int
  OBVIOUS
<1> DEFINE j == (at \div w) - (h \div w)
<1>3. j \in Int
  BY <1>1, <1>2
<1>4. w * j = at - h - (at % w) + (h % w)
  <2> DEFINE p == w * (at \div w)
             q == w * (h \div w)
  <2>1. w * j = p - q /\ p \in Int /\ q \in Int
    BY <1>1, <1>2
  <2>2. p = at - (at % w) /\ q = h - (h % w)
    BY <1>1, <1>2
  <2>3. at % w \in Int /\ h % w \in Int
    BY <1>1, <1>2
  <2> HIDE DEF p, q, j
  <2> QED BY <2>1, <2>2, <2>3
<1>0. j < b <=> (at \div w) - (h \div w) < b
  OBVIOUS
<1> HIDE DEF j
<1>5. w * j <= w * (b - 1)
  <2>1. j <= b - 1
    BY <1>0, <1>3
  <2> QED BY <1>3, <2>1
<1> QED BY <1>1, <1>2, <1>3, <1>4, <1>5

LEMMA LaterBucket ==
  ASSUME NEW w \in Nat \ {0}, NEW at \in Nat, NEW h \in Nat, h <= at
  PROVE  h \div w \in Nat /\ at \div w \in Nat /\ h \div w <= at \div w
<1>1. at = w * (at \div w) + (at % w) /\ at % w \in 0 .. w - 1 /\ at \div w \in Int
  OBVIOUS
<1>2. h = w * (h \div w) + (h % w) /\ h % w \in 0 .. w - 1 /\ h \div w \in Int
  OBVIOUS
<1> DEFINE j == (at \div w) - (h \div w)
<1>3. j \in Int
  BY <1>1, <1>2
<1>4. w * j = at - h - (at % w) + (h % w)
  <2> DEFINE p == w * (at \div w)
             q == w * (h \div w)
  <2>1. w * j = p - q /\ p \in Int /\ q \in Int
    BY <1>1, <1>2
  <2>2. p = at - (at % w) /\ q = h - (h % w)
    BY <1>1, <1>2
  <2>3. at % w \in Int /\ h % w \in Int
    BY <1>1, <1>2
  <2> HIDE DEF p, q, j
  <2> QED BY <2>1, <2>2, <2>3
<1>0. j >= 0 => h \div w <= at \div w
  BY <1>1, <1>2
<1> HIDE DEF j
<1>5. ~(j <= -1)
  <2>1. SUFFICES ASSUME j <= -1 PROVE FALSE
    OBVIOUS
  <2>2. w * j <= -w
    BY <1>3, <2>1
  <2> QED BY <1>1, <1>2, <1>3, <1>4, <2>2
<1>6. h \div w \in Nat /\ at \div w \in Nat
  OBVIOUS
<1> QED BY <1>0, <1>3, <1>5, <1>6

-----------------------------------------------------------------------------
(* One ring, and the lines it has taken.                                   *)

\* The bucket of a line, and the slot of a bucket.
Bucket(line, w) == line[1] \div w

\* The lines of bucket e.
Marked(lines, w, e) == {n \in DOMAIN lines : Bucket(lines[n], w) = e}

\* Each slot counts the lines of the bucket it names, a slot names the latest
\* bucket of its own, and no line is later than the window's last.
RingTrue(ring, lines, b, w, at) ==
  /\ \A s \in 0 .. b - 1 : ring[s].count = Cardinality(Marked(lines, w, ring[s].epoch))
  /\ \A s \in 0 .. b - 1 : \/ ring[s].epoch = -b
                           \/ /\ ring[s].epoch \in 0 .. at \div w
                              /\ ring[s].epoch % b = s
  /\ \A n \in DOMAIN lines :
       Bucket(lines[n], w) <= ring[Bucket(lines[n], w) % b].epoch

Taken == Seq(Nat \X Host)

LEMMA Slots ==
  ASSUME NEW b \in Nat \ {0}, NEW ring \in RingType(b)
  PROVE  Cardinality(DOMAIN ring) = b /\ DOMAIN ring = 0 .. b - 1
<1>1. 0 \in Int /\ b - 1 \in Int
  OBVIOUS
<1>2. Cardinality(0 .. b - 1) = IF 0 > b - 1 THEN 0 ELSE b - 1 - 0 + 1
  BY <1>1, FS_Interval
<1> QED BY <1>2 DEF RingType

LEMMA Buckets ==
  ASSUME NEW lines \in Taken, NEW w \in Nat \ {0}, NEW n \in DOMAIN lines
  PROVE  lines[n][1] \in Nat /\ Bucket(lines[n], w) \in Nat
<1>1. lines[n] \in Nat \X Host
  BY DEF Taken
<1> QED BY <1>1 DEF Bucket

LEMMA FiniteLines ==
  ASSUME NEW lines \in Taken, NEW T, T \subseteq DOMAIN lines
  PROVE  IsFiniteSet(T) /\ Cardinality(T) \in Nat
<1>1. DOMAIN lines = 1 .. Len(lines) /\ Len(lines) \in Int /\ 1 \in Int
  BY DEF Taken
<1>2. IsFiniteSet(DOMAIN lines)
  BY <1>1, FS_Interval
<1> QED BY <1>2, FS_Subset, FS_CardinalityType

LEMMA NewRingTrue ==
  ASSUME NEW b \in Nat \ {0}, NEW w \in Nat \ {0}, NEW at \in Nat
  PROVE  NewRing(b) \in RingType(b) /\ RingTrue(NewRing(b), <<>>, b, w, at)
<1>1. NewRing(b) \in RingType(b)
  BY DEF NewRing, RingType
<1>2. ASSUME NEW s \in 0 .. b - 1
      PROVE  NewRing(b)[s].count = 0 /\ NewRing(b)[s].epoch = -b
  BY DEF NewRing
<1>3. \A e : Marked(<<>>, w, e) = {}
  BY DEF Marked
<1>4. Cardinality({}) = 0
  BY FS_EmptySet
<1>5. \A s \in 0 .. b - 1 :
        NewRing(b)[s].count = Cardinality(Marked(<<>>, w, NewRing(b)[s].epoch))
  BY <1>2, <1>3, <1>4
<1> QED BY <1>1, <1>2, <1>5 DEF RingTrue

\* Ring::add keeps it true: a slot that holds an older bucket starts over, and
\* no line of the new bucket was there before.
LEMMA AddToTrue ==
  ASSUME NEW b \in Nat \ {0}, NEW w \in Nat \ {0}, NEW ring \in RingType(b),
         NEW lines \in Taken, NEW last \in Nat, NEW at \in Nat, last <= at, NEW host \in Host,
         RingTrue(ring, lines, b, w, last)
  PROVE  /\ AddTo(ring, at \div w) \in RingType(b)
         /\ RingTrue(AddTo(ring, at \div w), Append(lines, <<at, host>>), b, w, at)
<1>1. PICK c \in Nat : c = at \div w /\ last \div w \in Nat /\ last \div w <= c
  BY LaterBucket
<1>2. PICK slot \in 0 .. b - 1 : slot = c % b
  OBVIOUS
<1>3. PICK k \in Nat : k = IF ring[slot].epoch = c THEN ring[slot].count + 1 ELSE 1
  <2>1. ring[slot].count + 1 \in Nat /\ 1 \in Nat
    BY <1>2 DEF RingType
  <2>2. (IF ring[slot].epoch = c THEN ring[slot].count + 1 ELSE 1) \in Nat
    BY <2>1
  <2> QED BY <2>2
<1>4. PICK next : next = AddTo(ring, c)
  OBVIOUS
<1>5. next = [ring EXCEPT ![slot] = [epoch |-> c, count |-> k]]
  BY <1>2, <1>3, <1>4, Slots DEF AddTo
<1>6. next \in RingType(b)
  BY <1>5 DEF RingType
<1>7. \A s \in 0 .. b - 1 : next[s] = IF s = slot THEN [epoch |-> c, count |-> k] ELSE ring[s]
  BY <1>5 DEF RingType
<1>8. PICK more : more = Append(lines, <<at, host>>)
  OBVIOUS
<1>9. /\ DOMAIN more = DOMAIN lines \union {Len(lines) + 1}
      /\ Len(lines) + 1 \notin DOMAIN lines
      /\ \A n \in DOMAIN lines : more[n] = lines[n]
      /\ Bucket(more[Len(lines) + 1], w) = c
  BY <1>1, <1>8 DEF Taken, Bucket
<1>10. \A e : Marked(more, w, e) =
                Marked(lines, w, e) \union (IF e = c THEN {Len(lines) + 1} ELSE {})
  BY <1>9 DEF Marked
<1>11. \A s \in 0 .. b - 1 : ring[s].epoch \in Int /\ ring[s].count \in Nat
  BY DEF RingType
<1>12. \A n \in DOMAIN lines : Bucket(lines[n], w) \in Nat
  BY Buckets
<1>13. \A s \in 0 .. b - 1 : ring[s].epoch <= c
  BY <1>1, <1>11 DEF RingTrue
<1>14. ASSUME NEW s \in 0 .. b - 1
       PROVE  next[s].count = Cardinality(Marked(more, w, next[s].epoch))
  <2>1. CASE s # slot
    <3>1. ring[s].epoch # c
      BY <1>1, <1>2, <2>1 DEF RingTrue
    <3> QED BY <1>7, <1>10, <2>1, <3>1 DEF RingTrue
  <2>2. CASE s = slot
    <3>1. next[s].epoch = c /\ next[s].count = k
      BY <1>7, <2>2
    <3>2. Marked(more, w, c) = Marked(lines, w, c) \union {Len(lines) + 1}
      BY <1>10
    <3>3. Len(lines) + 1 \notin Marked(lines, w, c)
      BY <1>9 DEF Marked
    <3>4. IsFiniteSet(Marked(lines, w, c))
      <4>1. Marked(lines, w, c) \subseteq DOMAIN lines
        BY DEF Marked
      <4> QED BY <4>1, FiniteLines
    <3>5. Cardinality(Marked(more, w, c)) = Cardinality(Marked(lines, w, c)) + 1
      BY <3>2, <3>3, <3>4, FS_AddElement
    <3>6. k = Cardinality(Marked(lines, w, c)) + 1
      <4>1. CASE ring[slot].epoch = c
        BY <1>3, <4>1 DEF RingTrue
      <4>2. CASE ring[slot].epoch # c
        <5>1. ASSUME NEW n \in DOMAIN lines, Bucket(lines[n], w) = c PROVE FALSE
          <6>1. c <= ring[slot].epoch
            BY <1>2, <5>1 DEF RingTrue
          <6> QED BY <1>11, <1>13, <4>2, <6>1
        <5>2. Marked(lines, w, c) = {}
          BY <5>1 DEF Marked
        <5> QED BY <1>3, <4>2, <5>2, FS_EmptySet
      <4> QED BY <4>1, <4>2
    <3> QED BY <3>1, <3>5, <3>6
  <2> QED BY <2>1, <2>2
<1>15. ASSUME NEW s \in 0 .. b - 1
       PROVE  next[s].epoch = -b \/ (next[s].epoch \in 0 .. c /\ next[s].epoch % b = s)
  <2>1. CASE s = slot
    BY <1>2, <1>7, <2>1
  <2>2. CASE s # slot
    BY <1>1, <1>7, <2>2 DEF RingTrue
  <2> QED BY <2>1, <2>2
<1>16. ASSUME NEW n \in DOMAIN more
       PROVE  Bucket(more[n], w) <= next[Bucket(more[n], w) % b].epoch
  <2>1. CASE n = Len(lines) + 1
    BY <1>2, <1>7, <1>9, <2>1
  <2>2. CASE n \in DOMAIN lines
    <3>1. PICK q \in Nat : q = Bucket(lines[n], w) /\ q % b \in 0 .. b - 1
      BY <1>12, <2>2
    <3>2. q <= ring[q % b].epoch /\ ring[q % b].epoch <= c /\ ring[q % b].epoch \in Int
      BY <1>11, <1>13, <2>2, <3>1 DEF RingTrue
    <3>3. q <= next[q % b].epoch
      BY <1>7, <3>1, <3>2
    <3> QED BY <1>9, <2>2, <3>1, <3>3
  <2> QED BY <1>9, <2>1, <2>2
<1> QED BY <1>1, <1>4, <1>6, <1>8, <1>14, <1>15, <1>16 DEF RingTrue

\* The lines of the buckets that are not stale at bucket c.
LiveLines(lines, b, w, c) == {n \in DOMAIN lines : c - Bucket(lines[n], w) < b}

\* Ring::total counts them: no slot is read stale, none was zeroed early.
LEMMA TotalTrue ==
  ASSUME NEW b \in Nat \ {0}, NEW w \in Nat \ {0}, NEW ring \in RingType(b),
         NEW lines \in Taken, NEW at \in Nat, RingTrue(ring, lines, b, w, at)
  PROVE  Total(ring, at \div w) = Cardinality(LiveLines(lines, b, w, at \div w))
<1>1. PICK c \in Nat : c = at \div w
  BY LaterBucket
<1> DEFINE Q(n) == Bucket(lines[n], w)
           live(s) == c - ring[s].epoch < b
           Marks(s) == {s} \X (1 .. ring[s].count)
           Below(x) == UNION {Marks(s) : s \in {r \in 0 .. b - 1 : r < x /\ live(r)}}
           Lines(x) == {n \in DOMAIN lines : Q(n) % b < x /\ c - Q(n) < b}
           Same(x) == /\ IsFiniteSet(Below(x))
                      /\ Cardinality(Below(x)) = Cardinality(Lines(x))
<1>2. \A s \in 0 .. b - 1 : ring[s].epoch \in Int /\ ring[s].count \in Nat
  BY DEF RingType
<1>3. \A n \in DOMAIN lines : Q(n) \in Nat /\ Q(n) % b \in 0 .. b - 1
  BY Buckets
<1>4. Total(ring, c) = Cardinality(Below(b))
  <2>1. {s \in DOMAIN ring : c - ring[s].epoch < Cardinality(DOMAIN ring)} =
          {r \in 0 .. b - 1 : r < b /\ live(r)}
    BY <1>2, Slots
  <2> QED BY <2>1, Slots DEF Total
<1>5. Lines(b) = LiveLines(lines, b, w, c)
  BY <1>3 DEF LiveLines
<1>6. Same(0)
  <2>1. Below(0) = {}
    OBVIOUS
  <2>2. Lines(0) = {}
    BY <1>3
  <2> QED BY <2>1, <2>2, FS_EmptySet
\* One slot more: its marks, if it is live, are the lines of its bucket.
<1>7. ASSUME NEW x \in 0 .. b - 1, Same(x) PROVE Same(x + 1)
  <2>1. Lines(x + 1) = Lines(x) \union {n \in DOMAIN lines : Q(n) % b = x /\ c - Q(n) < b}
    BY <1>3
  <2>2. CASE ~live(x)
    <3>1. Below(x + 1) = Below(x)
      <4>1. {r \in 0 .. b - 1 : r < x + 1 /\ live(r)} = {r \in 0 .. b - 1 : r < x /\ live(r)}
        BY <2>2
      <4> QED BY <4>1
    <3>2. \A n \in DOMAIN lines : ~(Q(n) % b = x /\ c - Q(n) < b)
      <4>1. ASSUME NEW n \in DOMAIN lines, Q(n) % b = x, c - Q(n) < b PROVE FALSE
        <5>1. Q(n) <= ring[x].epoch
          BY <4>1 DEF RingTrue
        <5> QED BY <1>1, <1>2, <1>3, <2>2, <4>1, <5>1
      <4> QED BY <4>1
    <3>3. Lines(x + 1) = Lines(x)
      BY <2>1, <3>2
    <3> QED BY <1>7, <3>1, <3>3
  <2>3. CASE live(x)
    <3>1. Below(x + 1) = Below(x) \union Marks(x)
      <4>1. {r \in 0 .. b - 1 : r < x + 1 /\ live(r)} = {r \in 0 .. b - 1 : r < x /\ live(r)} \union {x}
        BY <2>3
      <4> QED BY <4>1
    <3>2. ring[x].epoch \in 0 .. c /\ ring[x].epoch % b = x
      BY <1>1, <1>2, <2>3 DEF RingTrue
    <3>3. {n \in DOMAIN lines : Q(n) % b = x /\ c - Q(n) < b} = Marked(lines, w, ring[x].epoch)
      <4>1. ASSUME NEW n \in DOMAIN lines, Q(n) % b = x, c - Q(n) < b
            PROVE  Q(n) = ring[x].epoch
        <5>1. Q(n) <= ring[x].epoch
          BY <4>1 DEF RingTrue
        <5>2. ring[x].epoch - Q(n) < b
          BY <1>1, <1>3, <3>2, <4>1
        <5> QED BY <1>2, <1>3, <3>2, <4>1, <5>1, <5>2, SameSlot
      <4>2. ASSUME NEW n \in DOMAIN lines, Q(n) = ring[x].epoch
            PROVE  Q(n) % b = x /\ c - Q(n) < b
        BY <2>3, <3>2, <4>2
      <4> QED BY <4>1, <4>2 DEF Marked
    <3>4. Lines(x) \intersect Marked(lines, w, ring[x].epoch) = {}
      BY <1>3, <3>3
    <3>5. /\ IsFiniteSet(Lines(x)) /\ IsFiniteSet(Marked(lines, w, ring[x].epoch))
          /\ Cardinality(Lines(x)) \in Nat
          /\ Cardinality(Marked(lines, w, ring[x].epoch)) \in Nat
      <4>1. Lines(x) \subseteq DOMAIN lines /\ Marked(lines, w, ring[x].epoch) \subseteq DOMAIN lines
        BY DEF Marked
      <4> QED BY <4>1, FiniteLines
    <3>6. Cardinality(Lines(x + 1)) = Cardinality(Lines(x)) + ring[x].count
      <4>1. PICK L, M : L = Lines(x) /\ M = Marked(lines, w, ring[x].epoch)
        OBVIOUS
      <4>2. /\ IsFiniteSet(L) /\ IsFiniteSet(M)
            /\ Cardinality(L) \in Nat /\ Cardinality(M) \in Nat
            /\ L \intersect M = {}
        BY <3>4, <3>5, <4>1
      <4>3. Cardinality(L \union M) = Cardinality(L) + Cardinality(M)
        <5>1. Cardinality(L \union M) = Cardinality(L) + Cardinality(M) - Cardinality(L \intersect M)
          BY <4>2, FS_Union
        <5>2. Cardinality(L \intersect M) = 0
          BY <4>2, FS_EmptySet
        <5> QED BY <4>2, <5>1, <5>2
      <4>4. ring[x].count = Cardinality(M)
        BY <4>1 DEF RingTrue
      <4>5. Lines(x + 1) = L \union M
        BY <2>1, <3>3, <4>1
      <4> HIDE DEF Lines
      <4> QED BY <4>1, <4>3, <4>4, <4>5
    <3>7. IsFiniteSet(Marks(x)) /\ Cardinality(Marks(x)) = ring[x].count
      <4>1. 1 \in Int /\ ring[x].count \in Int /\ ring[x].count \in Nat
        BY <1>2
      <4>2. /\ IsFiniteSet(1 .. ring[x].count)
            /\ Cardinality(1 .. ring[x].count) =
                 IF 1 > ring[x].count THEN 0 ELSE ring[x].count - 1 + 1
        BY <4>1, FS_Interval
      <4>3. Cardinality(1 .. ring[x].count) = ring[x].count
        BY <4>1, <4>2
      <4>4. IsFiniteSet({x}) /\ Cardinality({x}) = 1
        BY FS_Singleton
      <4>5. /\ IsFiniteSet(Marks(x))
            /\ Cardinality(Marks(x)) = Cardinality({x}) * Cardinality(1 .. ring[x].count)
        BY <4>2, <4>4, FS_Product
      <4> QED BY <4>1, <4>3, <4>4, <4>5
    <3>8. Below(x) \intersect Marks(x) = {}
      <4>1. ASSUME NEW p \in Below(x), p \in Marks(x) PROVE FALSE
        <5>1. PICK r \in 0 .. b - 1 : r < x /\ p \in Marks(r)
          OBVIOUS
        <5>2. p[1] = r /\ p[1] = x
          BY <4>1, <5>1
        <5> QED BY <5>1, <5>2
      <4> QED BY <4>1
    <3>9. /\ IsFiniteSet(Below(x + 1))
          /\ Cardinality(Below(x + 1)) = Cardinality(Below(x)) + ring[x].count
      <4> HIDE DEF Below, Marks
      <4>1. /\ IsFiniteSet(Below(x) \union Marks(x))
            /\ Cardinality(Below(x) \union Marks(x)) =
                 Cardinality(Below(x)) + Cardinality(Marks(x)) - Cardinality(Below(x) \intersect Marks(x))
        BY <1>7, <3>7, FS_Union
      <4>2. Cardinality({}) = 0
        BY FS_EmptySet
      <4>3. Cardinality(Below(x)) \in Nat /\ ring[x].count \in Nat
        BY <1>2, <1>7, FS_CardinalityType
      <4>4. Cardinality(Below(x) \intersect Marks(x)) = 0
        BY <3>8, <4>2
      <4>5. Cardinality(Below(x) \union Marks(x)) = Cardinality(Below(x)) + ring[x].count
        BY <3>7, <4>1, <4>3, <4>4
      <4> QED BY <3>1, <4>1, <4>5
    <3> HIDE DEF Below, Lines
    <3> QED BY <1>7, <3>6, <3>9
  <2> QED BY <2>2, <2>3
<1>8. Same(b)
  <2> HIDE DEF Same
  <2> DEFINE Wrong == {x \in 0 .. b : ~Same(x)}
  <2>1. SUFFICES ASSUME Wrong # {} PROVE FALSE
    OBVIOUS
  <2>2. PICK x \in Wrong : \A y \in Wrong : x <= y
    <3>1. Wrong \subseteq Nat
      OBVIOUS
    <3> HIDE DEF Wrong
    <3> QED BY <2>1, <3>1, LeastNumber
  <2>3. x \in 1 .. b
    BY <1>6
  <2>4. x - 1 \in 0 .. b - 1 /\ Same(x - 1) /\ (x - 1) + 1 = x
    BY <2>2, <2>3
  <2>5. Same((x - 1) + 1)
    BY <1>7, <2>4
  <2> QED BY <2>4, <2>5
<1> QED BY <1>1, <1>4, <1>5, <1>8

\* Time passes under a ring and changes nothing in it.
LEMMA StillTrue ==
  ASSUME NEW b \in Nat \ {0}, NEW w \in Nat \ {0}, NEW ring \in RingType(b), NEW lines,
         NEW last \in Nat, NEW at \in Nat, last <= at, RingTrue(ring, lines, b, w, last)
  PROVE  RingTrue(ring, lines, b, w, at)
<1>1. last \div w \in Nat /\ at \div w \in Nat /\ last \div w <= at \div w
  BY LaterBucket
<1>2. \A s \in 0 .. b - 1 : ring[s].epoch \in Int
  BY DEF RingType
<1>3. \A s \in 0 .. b - 1 : ring[s].epoch = -b \/ (ring[s].epoch \in 0 .. at \div w /\ ring[s].epoch % b = s)
  BY <1>1, <1>2 DEF RingTrue
<1> QED BY <1>3 DEF RingTrue

\* A bucketed total slides up to one bucket.
LEMMA TotalSlides ==
  ASSUME NEW b \in Nat \ {0}, NEW w \in Nat \ {0}, NEW ring \in RingType(b), NEW t \in Template,
         history[t] \in Taken, now \in Nat, RingTrue(ring, history[t], b, w, now)
  PROVE  /\ SlidesOver(t, Total(ring, now \div w), b, w)
         /\ Total(ring, now \div w) <= LinesWithin(t, b * w - 1)
         /\ Total(ring, now \div w) \in Nat
<1> DEFINE live == LiveLines(history[t], b, w, now \div w)
           young == {n \in DOMAIN history[t] : now - history[t][n][1] <= (b - 1) * w}
           old == {n \in DOMAIN history[t] : now - history[t][n][1] <= b * w - 1}
<1>1. \A n \in DOMAIN history[t] : history[t][n][1] \in Nat
  <2>1. 1 \in Nat \ {0}
    OBVIOUS
  <2> QED BY <2>1, Buckets
<1>2. young \subseteq live
  BY <1>1, YoungIsLive DEF LiveLines, Bucket
<1>3. live \subseteq old
  BY <1>1, LiveIsYoung DEF LiveLines, Bucket
<1>4. IsFiniteSet(live) /\ IsFiniteSet(old)
  <2>1. live \subseteq DOMAIN history[t] /\ old \subseteq DOMAIN history[t]
    BY DEF LiveLines
  <2> QED BY <2>1, FiniteLines
<1>5. Cardinality(young) <= Cardinality(live) /\ Cardinality(live) <= Cardinality(old)
      /\ Cardinality(young) \in Nat /\ Cardinality(live) \in Nat
  <2> HIDE DEF young, live, old
  <2>1. IsFiniteSet(young) /\ Cardinality(young) <= Cardinality(live)
    BY <1>2, <1>4, FS_Subset
  <2>2. Cardinality(live) <= Cardinality(old)
    BY <1>3, <1>4, FS_Subset
  <2> QED BY <1>4, <2>1, <2>2, FS_CardinalityType
<1>6. Total(ring, now \div w) = Cardinality(live)
  BY TotalTrue
<1>7. LinesWithin(t, (b - 1) * w) = Cardinality(young) /\ LinesWithin(t, b * w - 1) = Cardinality(old)
  BY DEF LinesWithin
<1> HIDE DEF young, live, old
<1> QED BY <1>5, <1>6, <1>7 DEF SlidesOver

-----------------------------------------------------------------------------
(* One window, and the lines it has taken.                                 *)

LEMMA Widths ==
  /\ ShortBuckets \in Nat \ {0} /\ ShortWidth \in Nat \ {0}
  /\ LongBuckets \in Nat \ {0} /\ LongWidth \in Nat \ {0} /\ MaxWindows \in Nat \ {0}
  /\ ShortWindow \in Nat /\ LongWindow \in Nat /\ ShortWindow <= LongWindow
  /\ MaxNow \in Nat /\ \A gap \in Gaps : gap \in Nat
<1>1. /\ ShortBuckets \in Nat \ {0} /\ ShortWidth \in Nat \ {0}
      /\ LongBuckets \in Nat \ {0} /\ LongWidth \in Nat \ {0} /\ MaxWindows \in Nat \ {0}
      /\ ShortWindow <= LongWindow
      /\ MaxNow \in Nat /\ \A gap \in Gaps : gap \in Nat
  BY WindowAssumption
<1>2. ShortWindow \in Nat /\ LongWindow \in Nat
  BY <1>1 DEF ShortWindow, LongWindow
<1> QED BY <1>1, <1>2

\* The host last seen at wi.hosts[h] spoke then, and whoever spoke within the
\* trailing hour is not forgotten.
HostsTrue(wi, lines) ==
  /\ \A h \in Host : wi.hosts[h] # Null => \E n \in DOMAIN lines : lines[n] = <<wi.hosts[h], h>>
  /\ \A n \in DOMAIN lines :
       \/ wi.last - lines[n][1] > LongWindow
       \/ wi.hosts[lines[n][2]] # Null /\ wi.hosts[lines[n][2]] >= lines[n][1]

\* A window tells of its lines.
Follows(wi, lines) ==
  /\ wi.first <= wi.last
  /\ RingTrue(wi.short, lines, ShortBuckets, ShortWidth, wi.last)
  /\ RingTrue(wi.long, lines, LongBuckets, LongWidth, wi.last)
  /\ \A n \in DOMAIN lines : wi.first <= lines[n][1] /\ lines[n][1] <= wi.last
  /\ lines # <<>> => lines[1][1] = wi.first /\ \E n \in DOMAIN lines : lines[n][1] = wi.last
  /\ HostsTrue(wi, lines)

LEMMA NewWindowFollows ==
  ASSUME NEW at \in Nat
  PROVE  /\ NewWindow(at) \in Window
         /\ NewWindow(at).last = at /\ NewWindow(at).first = at
         /\ Follows(NewWindow(at), <<>>)
<1>1. /\ NewRing(ShortBuckets) \in RingType(ShortBuckets)
      /\ RingTrue(NewRing(ShortBuckets), <<>>, ShortBuckets, ShortWidth, at)
  BY Widths, NewRingTrue
<1>2. /\ NewRing(LongBuckets) \in RingType(LongBuckets)
      /\ RingTrue(NewRing(LongBuckets), <<>>, LongBuckets, LongWidth, at)
  BY Widths, NewRingTrue
<1>3. /\ NewWindow(at).short = NewRing(ShortBuckets) /\ NewWindow(at).long = NewRing(LongBuckets)
      /\ NewWindow(at).first = at /\ NewWindow(at).last = at
      /\ NewWindow(at).hosts = [h \in Host |-> Null]
  BY DEF NewWindow
<1>4. NewWindow(at) \in Window
  <2>1. [h \in Host |-> Null] \in [Host -> Nat \union {Null}]
    OBVIOUS
  <2> QED BY <1>1, <1>2, <2>1 DEF NewWindow, Window
<1> QED BY <1>1, <1>2, <1>3, <1>4 DEF Follows, HostsTrue

LEMMA CountedParts ==
  ASSUME NEW wi \in Window, NEW host \in Host, NEW at \in Nat
  PROVE  /\ Counted(wi, host, at).short = AddTo(wi.short, at \div ShortWidth)
         /\ Counted(wi, host, at).long = AddTo(wi.long, at \div LongWidth)
         /\ Counted(wi, host, at).first = wi.first
         /\ Counted(wi, host, at).last = at
         /\ Counted(wi, host, at).hosts =
              [h \in Host |-> IF h = host THEN at
                              ELSE IF wi.hosts[h] # Null /\ at - wi.hosts[h] <= LongWindow
                                   THEN wi.hosts[h] ELSE Null]
         /\ Counted(wi, host, at) =
              [short |-> Counted(wi, host, at).short, long |-> Counted(wi, host, at).long,
               hosts |-> Counted(wi, host, at).hosts, first |-> Counted(wi, host, at).first,
               last |-> Counted(wi, host, at).last]
  BY DEF Counted, Window

LEMMA CountedFollows ==
  ASSUME NEW wi \in Window, NEW lines \in Taken, NEW host \in Host, NEW at \in Nat,
         wi.last <= at, Follows(wi, lines), lines = <<>> => wi.first = at
  PROVE  /\ Counted(wi, host, at) \in Window
         /\ Counted(wi, host, at).last = at
         /\ Follows(Counted(wi, host, at), Append(lines, <<at, host>>))
<1>1. PICK w : w = Counted(wi, host, at)
  OBVIOUS
<1>2. PICK more : more = Append(lines, <<at, host>>)
  OBVIOUS
<1>3. /\ wi.short \in RingType(ShortBuckets) /\ wi.long \in RingType(LongBuckets)
      /\ wi.hosts \in [Host -> Nat \union {Null}] /\ wi.first \in Nat /\ wi.last \in Nat
  BY DEF Window
<1>4. /\ AddTo(wi.short, at \div ShortWidth) \in RingType(ShortBuckets)
      /\ RingTrue(AddTo(wi.short, at \div ShortWidth), more, ShortBuckets, ShortWidth, at)
  BY <1>2, <1>3, Widths, AddToTrue DEF Follows
<1>5. /\ AddTo(wi.long, at \div LongWidth) \in RingType(LongBuckets)
      /\ RingTrue(AddTo(wi.long, at \div LongWidth), more, LongBuckets, LongWidth, at)
  BY <1>2, <1>3, Widths, AddToTrue DEF Follows
<1>6. /\ w.short = AddTo(wi.short, at \div ShortWidth) /\ w.long = AddTo(wi.long, at \div LongWidth)
      /\ w.first = wi.first /\ w.last = at
      /\ w.hosts = [h \in Host |-> IF h = host THEN at
                                  ELSE IF wi.hosts[h] # Null /\ at - wi.hosts[h] <= LongWindow
                                       THEN wi.hosts[h] ELSE Null]
      /\ w = [short |-> w.short, long |-> w.long, hosts |-> w.hosts, first |-> w.first, last |-> w.last]
  BY <1>1, CountedParts
<1>7. w \in Window
  <2>1. w.hosts \in [Host -> Nat \union {Null}]
    BY <1>3, <1>6
  <2> QED BY <1>3, <1>4, <1>5, <1>6, <2>1 DEF Window
<1>8. /\ DOMAIN more = DOMAIN lines \union {Len(lines) + 1}
      /\ \A n \in DOMAIN lines : more[n] = lines[n] /\ lines[n] \in Nat \X Host
      /\ more[Len(lines) + 1] = <<at, host>>
      /\ 1 \in DOMAIN lines \/ (lines = <<>> /\ Len(lines) + 1 = 1)
  BY <1>2 DEF Taken
<1>9. \A n \in DOMAIN more : w.first <= more[n][1] /\ more[n][1] <= w.last
  <2>1. wi.first <= at
    BY <1>3 DEF Follows
  <2> QED BY <1>3, <1>6, <1>8, <2>1 DEF Follows
<1>10. more[1][1] = w.first /\ \E n \in DOMAIN more : more[n][1] = w.last
  BY <1>6, <1>8 DEF Follows
<1>11. HostsTrue(w, more)
  <2>1. ASSUME NEW h \in Host, w.hosts[h] # Null
        PROVE  \E n \in DOMAIN more : more[n] = <<w.hosts[h], h>>
    <3>1. CASE h = host
      BY <1>6, <1>8, <3>1
    <3>2. CASE h # host
      <4>1. wi.hosts[h] # Null /\ w.hosts[h] = wi.hosts[h]
        BY <1>6, <2>1, <3>2
      <4>2. PICK n \in DOMAIN lines : lines[n] = <<wi.hosts[h], h>>
        BY <4>1 DEF Follows, HostsTrue
      <4> QED BY <1>8, <4>1, <4>2
    <3> QED BY <3>1, <3>2
  <2>2. ASSUME NEW n \in DOMAIN more
        PROVE  \/ w.last - more[n][1] > LongWindow
               \/ w.hosts[more[n][2]] # Null /\ w.hosts[more[n][2]] >= more[n][1]
    <3>1. CASE n = Len(lines) + 1
      BY <1>6, <1>8, <3>1, NullIsNoWindow
    <3>2. CASE n \in DOMAIN lines
      <4>1. PICK x \in Nat, h \in Host : lines[n] = <<x, h>> /\ more[n] = <<x, h>>
        BY <1>8, <3>2
      <4>2. wi.last - x > LongWindow \/ (wi.hosts[h] # Null /\ wi.hosts[h] >= x)
        BY <3>2, <4>1 DEF Follows, HostsTrue
      <4>3. x <= at
        BY <1>3, <3>2, <4>1 DEF Follows
      <4>4. CASE h = host
        BY <1>6, <4>1, <4>3, <4>4, NullIsNoWindow
      <4>5. CASE h # host
        <5>1. wi.hosts[h] \in Nat \/ wi.hosts[h] = Null
          BY <1>3
        <5>2. w.hosts[h] = IF wi.hosts[h] # Null /\ at - wi.hosts[h] <= LongWindow
                           THEN wi.hosts[h] ELSE Null
          BY <1>6, <4>5
        <5>3. at - x > LongWindow \/ (w.hosts[h] # Null /\ w.hosts[h] >= x)
          <6>1. CASE wi.last - x > LongWindow
            BY <1>3, <6>1, Widths
          <6>2. CASE wi.hosts[h] # Null /\ wi.hosts[h] >= x
            BY <5>1, <5>2, <6>2, Widths
          <6> QED BY <4>2, <6>1, <6>2
        <5> QED BY <1>6, <4>1, <5>3
      <4> QED BY <4>4, <4>5
    <3> QED BY <1>8, <3>1, <3>2
  <2> QED BY <2>1, <2>2 DEF HostsTrue
<1> QED BY <1>1, <1>2, <1>3, <1>4, <1>5, <1>6, <1>7, <1>9, <1>10, <1>11 DEF Follows

-----------------------------------------------------------------------------
(* The table.                                                              *)

WindowsTrue ==
  /\ windows \in [Template -> Window \union {Null}]
  /\ history \in [Template -> Taken]
  /\ \A t \in Tracked :
       Follows(windows[t], history[t]) /\ history[t] # <<>> /\ windows[t].last <= now

\* What `record` returned last is read off the window it left.
StatsTrue ==
  stats # Null => \E t \in Tracked : windows[t].last = now /\ stats = StatsFor(t, windows[t], now)

TableBounded == IsFiniteSet(Tracked) /\ TableKeepsBound

\* The inductive invariant.
IndInv ==
  /\ now \in 0 .. MaxNow /\ lastSweep \in 0 .. now
  /\ WindowsTrue
  /\ StatsTrue
  /\ TableBounded

\* A table with some windows gone.
Rest(rest) == /\ rest \in [Template -> Window \union {Null}]
              /\ \A t \in Template : rest[t] \in {windows[t], Null}

LEMMA RecordStep ==
  ASSUME now \in Nat, WindowsTrue, NEW t \in Template, NEW host \in Host, NEW rest, Rest(rest),
         Record(t, host, rest)
  PROVE  /\ WindowsTrue' /\ StatsTrue'
         /\ Tracked' = {x \in Template : rest[x] # Null} \union {t}
         /\ \A x \in Template \ {t} : windows'[x] = rest[x]
<1>1. PICK old \in Window : old = IF rest[t] = Null THEN NewWindow(now) ELSE rest[t]
  <2>1. rest[t] = Null \/ rest[t] \in Window
    BY DEF Rest
  <2>2. (IF rest[t] = Null THEN NewWindow(now) ELSE rest[t]) \in Window
    BY <2>1, NewWindowFollows
  <2> QED BY <2>2
<1>2. PICK lines \in Taken : lines = IF rest[t] = Null THEN <<>> ELSE history[t]
  <2>1. (IF rest[t] = Null THEN <<>> ELSE history[t]) \in Taken
    BY DEF WindowsTrue, Taken
  <2> QED BY <2>1
<1>3. Follows(old, lines) /\ old.last <= now /\ (lines = <<>> => old.first = now)
  <2>1. CASE rest[t] = Null
    BY <1>1, <1>2, <2>1, NewWindowFollows
  <2>2. CASE rest[t] # Null
    <3>1. rest[t] = windows[t] /\ t \in Tracked
      BY <2>2 DEF Rest, Tracked
    <3> QED BY <1>1, <1>2, <2>2, <3>1 DEF WindowsTrue
  <2> QED BY <2>1, <2>2
<1>4. PICK w \in Window : /\ w = Counted(old, host, now)
                         /\ w.last = now
                         /\ Follows(w, Append(lines, <<now, host>>))
  BY <1>3, CountedFollows
<1>5. /\ windows' = [rest EXCEPT ![t] = w]
      /\ stats' = StatsFor(t, w, now)
      /\ history' = [x \in Template |->
                       IF x = t THEN Append(lines, <<now, host>>)
                       ELSE IF rest[x] = Null THEN <<>> ELSE history[x]]
      /\ now' = now
  BY <1>1, <1>2, <1>4 DEF Record
<1>6. w # Null
  BY NullIsNoWindow
<1>7. \A x \in Template : windows'[x] = IF x = t THEN w ELSE rest[x]
  BY <1>5 DEF Rest
<1>8. Tracked' = {x \in Template : rest[x] # Null} \union {t}
  BY <1>6, <1>7 DEF Tracked
<1>9. windows' \in [Template -> Window \union {Null}]
  BY <1>5 DEF Rest
<1>10. Append(lines, <<now, host>>) \in Taken /\ Append(lines, <<now, host>>) # <<>>
  BY DEF Taken
<1>11. history' \in [Template -> Taken]
  <2>1. <<>> \in Taken
    BY DEF Taken
  <2>2. \A x \in Template : history'[x] \in Taken
    BY <1>5, <1>10, <2>1 DEF WindowsTrue
  <2> QED BY <1>5, <2>2
<1>12. ASSUME NEW x \in Tracked'
       PROVE  Follows(windows'[x], history'[x]) /\ history'[x] # <<>> /\ windows'[x].last <= now'
  <2>1. x \in Template
    BY DEF Tracked
  <2>2. CASE x = t
    BY <1>4, <1>5, <1>7, <1>10, <2>1, <2>2
  <2>3. CASE x # t
    <3>1. rest[x] # Null
      BY <1>8, <2>3
    <3>2. rest[x] = windows[x] /\ x \in Tracked
      BY <2>1, <3>1 DEF Rest, Tracked
    <3>3. windows'[x] = windows[x] /\ history'[x] = history[x]
      BY <1>5, <1>7, <2>1, <2>3, <3>1, <3>2
    <3> QED BY <1>5, <3>2, <3>3 DEF WindowsTrue
  <2> QED BY <2>2, <2>3
<1>13. WindowsTrue'
  BY <1>9, <1>11, <1>12 DEF WindowsTrue
<1>14. StatsTrue'
  <2>1. t \in Tracked' /\ windows'[t] = w
    BY <1>7, <1>8
  <2> QED BY <1>4, <1>5, <2>1 DEF StatsTrue
<1> QED BY <1>7, <1>8, <1>13, <1>14

LEMMA WithoutIsRest ==
  ASSUME WindowsTrue, NEW gone
  PROVE  /\ Rest(windows) /\ Rest(Without(gone))
         /\ {x \in Template : windows[x] # Null} = Tracked
         /\ {x \in Template : Without(gone)[x] # Null} = Tracked \ gone
  BY DEF WindowsTrue, Rest, Without, Tracked

\* How a line is recorded: into a table with some windows gone.
LEMMA RecordLineStep ==
  ASSUME IndInv, NEW t \in Template, NEW host \in Host, RecordLine(t, host)
  PROVE  IndInv'
<1> now \in Nat /\ WindowsTrue /\ IsFiniteSet(Tracked) /\ Cardinality(Tracked) <= MaxWindows
  BY DEF IndInv, TableBounded, TableKeepsBound
<1>0. Cardinality(Tracked) \in Nat /\ MaxWindows \in Nat \ {0}
  BY FS_CardinalityType, Widths
<1>1. ASSUME NEW kept \in SUBSET Tracked, Tracked' = kept \union {t},
             t \in kept \/ Cardinality(kept) < MaxWindows
      PROVE  TableBounded'
  <2>1. IsFiniteSet(kept) /\ Cardinality(kept) <= Cardinality(Tracked) /\ Cardinality(kept) \in Nat
    BY FS_Subset, FS_CardinalityType
  <2>2. CASE t \in kept
    BY <1>0, <1>1, <2>1, <2>2 DEF TableBounded, TableKeepsBound
  <2>3. CASE t \notin kept
    <3>1. IsFiniteSet(kept \union {t}) /\ Cardinality(kept \union {t}) = Cardinality(kept) + 1
      BY <2>1, <2>3, FS_AddElement
    <3> QED BY <1>0, <1>1, <2>1, <2>3, <3>1 DEF TableBounded, TableKeepsBound
  <2> QED BY <2>2, <2>3
<1>2. CASE RecordTracked(t, host)
  <2>1. Record(t, host, windows) /\ UNCHANGED lastSweep /\ t \in Tracked
    BY <1>2 DEF RecordTracked
  <2>2. WindowsTrue' /\ StatsTrue' /\ Tracked' = Tracked \union {t}
    BY <2>1, RecordStep, WithoutIsRest
  <2>3. TableBounded'
    BY <1>1, <2>1, <2>2
  <2> QED BY <2>1, <2>2, <2>3 DEF IndInv, Record
<1>3. CASE RecordNew(t, host)
  <2>1. /\ Record(t, host, windows) /\ UNCHANGED lastSweep /\ t \notin Tracked
        /\ Cardinality(Tracked) < MaxWindows
    BY <1>3 DEF RecordNew
  <2>2. WindowsTrue' /\ StatsTrue' /\ Tracked' = Tracked \union {t}
    BY <2>1, RecordStep, WithoutIsRest
  <2>3. TableBounded'
    BY <1>1, <2>1, <2>2
  <2> QED BY <2>1, <2>2, <2>3 DEF IndInv, Record
<1>4. CASE RecordSweeping(t, host)
  <2>1. /\ Record(t, host, Without(Idle)) /\ lastSweep' = now
        /\ Cardinality(Tracked) < MaxWindows
    BY <1>4 DEF RecordSweeping
  <2>2. WindowsTrue' /\ StatsTrue' /\ Tracked' = (Tracked \ Idle) \union {t}
    BY <2>1, RecordStep, WithoutIsRest
  <2>3. IsFiniteSet(Tracked \ Idle) /\ Cardinality(Tracked \ Idle) <= Cardinality(Tracked)
        /\ Cardinality(Tracked \ Idle) \in Nat
    <3>1. Tracked \ Idle \subseteq Tracked
      OBVIOUS
    <3> QED BY <3>1, FS_Subset, FS_CardinalityType
  <2>4. TableBounded'
    BY <1>0, <1>1, <2>1, <2>2, <2>3
  <2> QED BY <2>1, <2>2, <2>4 DEF IndInv, Record
<1>5. CASE RecordEvicting(t, host)
  <2>1. PICK gone \in SUBSET Tracked :
               /\ Cardinality(gone) = Cardinality(Tracked) - MaxWindows + 1
               /\ Record(t, host, Without(gone))
    BY <1>5 DEF RecordEvicting
  <2>2. UNCHANGED lastSweep
    BY <1>5 DEF RecordEvicting
  <2>3. WindowsTrue' /\ StatsTrue' /\ Tracked' = (Tracked \ gone) \union {t}
    BY <2>1, RecordStep, WithoutIsRest
  <2>4. Cardinality(Tracked \ gone) < MaxWindows
    <3>1. Cardinality(Tracked \ gone) = Cardinality(Tracked) - Cardinality(Tracked \intersect gone)
      BY FS_Difference
    <3>2. Tracked \intersect gone = gone
      OBVIOUS
    <3>3. Cardinality(Tracked \ gone) = Cardinality(Tracked) - Cardinality(gone)
      BY <3>1, <3>2
    <3> QED BY <1>0, <2>1, <3>3
  <2>5. TableBounded'
    BY <1>1, <2>3, <2>4
  <2> QED BY <2>1, <2>2, <2>3, <2>5 DEF IndInv, Record
<1> QED BY <1>2, <1>3, <1>4, <1>5 DEF RecordLine

LEMMA InitIndInv == Init => IndInv
<1> SUFFICES ASSUME Init PROVE IndInv
  OBVIOUS
<1>1. Tracked = {}
  BY DEF Init, Tracked
<1>2. windows \in [Template -> Window \union {Null}] /\ history \in [Template -> Taken]
  <2>1. <<>> \in Taken
    BY DEF Taken
  <2> QED BY <2>1 DEF Init
<1>3. IsFiniteSet(Tracked) /\ Cardinality(Tracked) = 0
  BY <1>1, FS_EmptySet
<1>4. 0 <= MaxWindows /\ 0 \in 0 .. MaxNow
  BY Widths
<1> QED BY <1>1, <1>2, <1>3, <1>4
        DEF Init, IndInv, WindowsTrue, StatsTrue, TableBounded, TableKeepsBound

LEMMA NextIndInv == IndInv /\ [Next]_vars => IndInv'
<1> SUFFICES ASSUME IndInv, [Next]_vars PROVE IndInv'
  OBVIOUS
<1>1. ASSUME NEW t \in Template, NEW host \in Host, RecordLine(t, host) PROVE IndInv'
  BY <1>1, RecordLineStep
<1>2. ASSUME NEW gap \in Gaps, Advance(gap) PROVE IndInv'
  <2>1. now' = Lesser(now + gap, MaxNow) /\ stats' = Null /\ UNCHANGED <<windows, lastSweep, history>>
    BY <1>2 DEF Advance
  <2>2. now' \in 0 .. MaxNow /\ now <= now' /\ lastSweep' \in 0 .. now'
    BY <2>1, Widths DEF Lesser, IndInv
  <2>3. Tracked' = Tracked
    BY <2>1 DEF Tracked
  <2>4. TableBounded'
    BY <2>3 DEF IndInv, TableBounded, TableKeepsBound
  <2>5. WindowsTrue'
    <3>1. ASSUME NEW t \in Tracked PROVE windows[t].last <= now'
      <4>1. windows[t] \in Window /\ windows[t].last <= now
        BY DEF IndInv, WindowsTrue, Tracked
      <4>2. windows[t].last \in Nat
        BY <4>1 DEF Window
      <4> QED BY <2>2, <4>1, <4>2, Widths DEF IndInv
    <3> QED BY <2>1, <2>3, <3>1 DEF IndInv, WindowsTrue
  <2> QED BY <2>1, <2>2, <2>4, <2>5 DEF IndInv, StatsTrue
<1>3. CASE UNCHANGED vars
  BY <1>3 DEF vars, IndInv, WindowsTrue, StatsTrue, TableBounded, TableKeepsBound, Tracked
<1> QED BY <1>1, <1>2, <1>3 DEF Next

THEOREM InductiveInvariant == Spec => []IndInv
  BY InitIndInv, NextIndInv, PTL DEF Spec

-----------------------------------------------------------------------------
(* What the windows owe.                                                   *)

\* Every variable stays in its type, and no window is younger than its lines.
THEOREM TypeCorrectness == Spec => []TypeOK
<1>1. IndInv => TypeOK
  <2> SUFFICES ASSUME IndInv PROVE TypeOK
    OBVIOUS
  <2>1. \A t \in Tracked : windows[t] \in Window
    BY DEF IndInv, WindowsTrue, Tracked
  <2>2. now \in Nat
    BY Widths DEF IndInv
  <2> QED BY <2>1, <2>2 DEF IndInv, WindowsTrue, Follows, TypeOK
<1> QED BY <1>1, InductiveInvariant, PTL

\* What a line is judged by is what its window took: the totals, hosts and
\* span of the last `record`.
LEMMA StatsSlide ==
  ASSUME IndInv, stats # Null
  PROVE  TotalsSlide(stats) /\ HostsAreDistinct(stats) /\ SpanCoversLines(stats)
<1>1. PICK t \in Tracked : windows[t].last = now /\ stats = StatsFor(t, windows[t], now)
  BY DEF IndInv, StatsTrue
<1>2. PICK w \in Window : w = windows[t] /\ Follows(w, history[t]) /\ w.last = now
  BY <1>1 DEF IndInv, WindowsTrue, Tracked
<1>3. t \in Template /\ history[t] \in Taken /\ history[t] # <<>> /\ now \in Nat
  BY Widths DEF IndInv, WindowsTrue, Tracked
<1>4. /\ w.short \in RingType(ShortBuckets) /\ w.long \in RingType(LongBuckets)
      /\ w.hosts \in [Host -> Nat \union {Null}] /\ w.first \in Nat
  BY DEF Window
<1>5. /\ stats.template = t
      /\ stats.short = Total(w.short, now \div ShortWidth)
      /\ stats.long = Total(w.long, now \div LongWidth)
      /\ stats.hosts = Cardinality({h \in Host : w.hosts[h] # Null /\ now - w.hosts[h] < ShortWindow})
      /\ stats.span = Lesser(now - w.first, LongWindow)
  BY <1>1, <1>2 DEF StatsFor
<1>6. SlidesOver(t, stats.short, ShortBuckets, ShortWidth)
  BY <1>2, <1>3, <1>4, <1>5, Widths, TotalSlides DEF Follows
<1>7. /\ SlidesOver(t, stats.long, LongBuckets, LongWidth)
      /\ stats.long <= LinesWithin(t, LongBuckets * LongWidth - 1)
  BY <1>2, <1>3, <1>4, <1>5, Widths, TotalSlides DEF Follows
<1>8. \A n \in DOMAIN history[t] : /\ history[t][n] \in Nat \X Host
                                  /\ history[t][n][1] \in Nat
                                  /\ history[t][n][2] \in Host
                                  /\ history[t][n][1] <= now
                                  /\ w.first <= history[t][n][1]
  BY <1>2, <1>3 DEF Follows, Taken
<1>9. HostsAreDistinct(stats)
  <2> DEFINE recent == {m \in DOMAIN history[t] : now - history[t][m][1] < ShortWindow}
             seen == {h \in Host : w.hosts[h] # Null /\ now - w.hosts[h] < ShortWindow}
  <2>1. ASSUME NEW h \in seen PROVE \E n \in recent : history[t][n][2] = h
    <3>1. PICK n \in DOMAIN history[t] : history[t][n] = <<w.hosts[h], h>>
      BY <1>2 DEF Follows, HostsTrue
    <3> QED BY <3>1
  <2>2. ASSUME NEW n \in recent PROVE history[t][n][2] \in seen
    <3>1. PICK x \in Nat, h \in Host : x = history[t][n][1] /\ h = history[t][n][2]
      BY <1>8
    <3>2. now - x < ShortWindow
      BY <3>1
    <3>3. w.hosts[h] # Null /\ w.hosts[h] >= x
      <4>1. now - x > LongWindow \/ (w.hosts[h] # Null /\ w.hosts[h] >= x)
        BY <1>2, <3>1 DEF Follows, HostsTrue
      <4> QED BY <1>3, <3>2, <4>1, Widths
    <3>4. w.hosts[h] \in Nat
      BY <1>4, <3>3
    <3>5. now - w.hosts[h] < ShortWindow
      BY <1>3, <3>2, <3>3, <3>4, Widths
    <3> QED BY <3>1, <3>3, <3>5
  <2>3. seen = {history[t][n][2] : n \in recent}
    BY <2>1, <2>2
  <2> QED BY <1>5, <2>3 DEF HostsAreDistinct
<1>10. SpanStartsAtLine(stats)
  <2>1. history[t][1][1] = w.first
    BY <1>2, <1>3 DEF Follows
  <2> QED BY <1>3, <1>4, <1>5, <2>1, Widths DEF SpanStartsAtLine, Lesser
<1>11. stats.long <= LinesWithin(t, stats.span)
  <2>1. CASE stats.span = LongWindow
    <3> DEFINE young == {n \in DOMAIN history[t] : now - history[t][n][1] <= LongBuckets * LongWidth - 1}
               old == {n \in DOMAIN history[t] : now - history[t][n][1] <= stats.span}
    <3>1. young \subseteq old
      BY <1>3, <1>8, <2>1, Widths DEF LongWindow
    <3>2. IsFiniteSet(old) /\ IsFiniteSet(young) /\ Cardinality(old) \in Nat /\ Cardinality(young) \in Nat
      BY <1>3, FiniteLines
    <3>3. Cardinality(young) <= Cardinality(old)
      BY <3>1, <3>2, FS_Subset
    <3>4. Total(w.long, now \div LongWidth) \in Nat
      <4>1. IsFiniteSet(LiveLines(history[t], LongBuckets, LongWidth, now \div LongWidth))
            /\ Cardinality(LiveLines(history[t], LongBuckets, LongWidth, now \div LongWidth)) \in Nat
        BY <1>3, FiniteLines DEF LiveLines
      <4> QED BY <1>2, <1>3, <1>4, <4>1, Widths, TotalTrue DEF Follows
    <3>5. stats.long <= Cardinality(young)
      BY <1>7 DEF LinesWithin
    <3> HIDE DEF young, old
    <3>6. stats.long <= Cardinality(old)
      BY <1>5, <3>2, <3>3, <3>4, <3>5
    <3> QED BY <3>6 DEF old, LinesWithin
  <2>2. CASE stats.span = now - w.first
    <3>1. {n \in DOMAIN history[t] : now - history[t][n][1] <= stats.span} = DOMAIN history[t]
      BY <1>3, <1>4, <1>8, <2>2
    <3>2. LiveLines(history[t], LongBuckets, LongWidth, now \div LongWidth) \subseteq DOMAIN history[t]
      BY DEF LiveLines
    <3>3. IsFiniteSet(DOMAIN history[t])
      BY <1>3, FiniteLines
    <3>4. Total(w.long, now \div LongWidth) =
            Cardinality(LiveLines(history[t], LongBuckets, LongWidth, now \div LongWidth))
      BY <1>2, <1>3, <1>4, Widths, TotalTrue DEF Follows
    <3> QED BY <1>5, <3>1, <3>2, <3>3, <3>4, FS_Subset DEF LinesWithin
  <2> QED BY <1>5, <2>1, <2>2 DEF Lesser
<1> QED BY <1>5, <1>6, <1>7, <1>9, <1>10, <1>11 DEF TotalsSlide, SpanCoversLines

\* The windows tell the raise rule the truth (Ring::add, Ring::total, record,
\* stats_for, evict_idle), for every number and width of buckets: the totals
\* slide up to one bucket, a host is counted once, the span covers the lines the
\* rate divides by, and the table keeps its bound.
THEOREM WindowsHold == Spec => []WindowsSlide
<1>1. IndInv => (stats # Null => TotalsSlide(stats) /\ HostsAreDistinct(stats) /\ SpanCoversLines(stats))
  BY StatsSlide
<1>2. IndInv => TableKeepsBound
  BY DEF IndInv, TableBounded
<1>3. TypeOK /\ IndInv => WindowsSlide
  BY <1>1, <1>2 DEF WindowsSlide
<1> QED BY <1>3, TypeCorrectness, InductiveInvariant, PTL

LEMMA Scaled ==
  ASSUME NEW x \in Nat, NEW y \in Nat, NEW z \in Nat, x <= y
  PROVE  x * z <= y * z /\ z * x <= z * y
  OBVIOUS

LEMMA RatesCompare ==
  ASSUME NEW few \in Nat, NEW many \in Nat, few <= many,
         NEW short \in Nat, NEW more \in Nat, short <= more, NEW span \in Nat, NEW width \in Nat,
         short * span >= RateMultiple * many * width
  PROVE  more * span >= RateMultiple * few * width
<1>1. RateMultiple \in Nat /\ RateMultiple * few \in Nat /\ RateMultiple * many \in Nat
  BY WindowAssumption
<1>2. RateMultiple * few <= RateMultiple * many
  BY <1>1, Scaled
<1>3. (RateMultiple * few) * width <= (RateMultiple * many) * width
  BY <1>1, <1>2, Scaled
<1>4. short * span <= more * span
  BY Scaled
<1>5. /\ short * span \in Nat /\ more * span \in Nat
      /\ (RateMultiple * few) * width \in Nat /\ (RateMultiple * many) * width \in Nat
  BY <1>1
<1> QED BY <1>3, <1>4, <1>5

\* The raise rule answers for the lines themselves (window_triggered), up to
\* one bucket, whatever the widths, the threshold and the multiple.
THEOREM TriggersHold == Spec => []TriggersAreBursts
<1>1. IndInv => TriggersAreBursts
  <2> SUFFICES ASSUME IndInv, stats # Null PROVE TriggersAreBursts
    BY DEF TriggersAreBursts
  <2>1. PICK t \in Tracked : windows[t].last = now /\ stats = StatsFor(t, windows[t], now)
    BY DEF IndInv, StatsTrue
  <2>2. PICK w \in Window : w = windows[t] /\ Follows(w, history[t]) /\ w.last = now
    BY <2>1 DEF IndInv, WindowsTrue, Tracked
  <2>3. t \in Template /\ history[t] \in Taken /\ history[t] # <<>> /\ now \in Nat
    BY Widths DEF IndInv, WindowsTrue, Tracked
  <2>4. /\ w.short \in RingType(ShortBuckets) /\ w.long \in RingType(LongBuckets)
        /\ w.first \in Nat /\ w.first <= now
    BY <2>2 DEF Window, Follows
  <2>5. /\ stats.template = t
        /\ stats.short = Total(w.short, now \div ShortWidth)
        /\ stats.long = Total(w.long, now \div LongWidth)
        /\ stats.span = Lesser(now - w.first, LongWindow)
    BY <2>1, <2>2 DEF StatsFor
  <2>6. PICK span \in Nat : span = stats.span /\ span = Filled(t)
    <3>1. history[t][1][1] = w.first
      BY <2>2, <2>3 DEF Follows
    <3> QED BY <2>3, <2>4, <2>5, <3>1, Widths DEF Filled, Lesser
  <2>7. \A age \in Int : LinesWithin(t, age) \in Nat
    BY <2>3, FiniteLines DEF LinesWithin
  <2>8. PICK a \in Nat, b \in Nat, short \in Nat :
          /\ a = LinesWithin(t, (ShortBuckets - 1) * ShortWidth)
          /\ b = LinesWithin(t, ShortWindow - 1)
          /\ short = stats.short /\ a <= short /\ short <= b
    <3>1. SlidesOver(t, stats.short, ShortBuckets, ShortWidth) /\ stats.short \in Nat
      BY <2>2, <2>3, <2>4, <2>5, Widths, TotalSlides DEF Follows
    <3>2. (ShortBuckets - 1) * ShortWidth \in Int /\ ShortWindow - 1 \in Int
      BY Widths
    <3> QED BY <2>7, <3>1, <3>2 DEF SlidesOver, ShortWindow
  <2>9. PICK c \in Nat, d \in Nat, long \in Nat :
          /\ c = LinesWithin(t, (LongBuckets - 1) * LongWidth)
          /\ d = LinesWithin(t, LongWindow - 1)
          /\ long = stats.long /\ c <= long /\ long <= d
    <3>1. SlidesOver(t, stats.long, LongBuckets, LongWidth) /\ stats.long \in Nat
      BY <2>2, <2>3, <2>4, <2>5, Widths, TotalSlides DEF Follows
    <3>2. (LongBuckets - 1) * LongWidth \in Int /\ LongWindow - 1 \in Int
      BY Widths
    <3> QED BY <2>7, <3>1, <3>2 DEF SlidesOver, LongWindow
  <2>10. c # 0
    <3> DEFINE within == {n \in DOMAIN history[t] : now - history[t][n][1] <= (LongBuckets - 1) * LongWidth}
    <3>1. PICK n \in DOMAIN history[t] : history[t][n][1] = now
      BY <2>2, <2>3 DEF Follows
    <3>2. (LongBuckets - 1) * LongWidth \in Nat
      BY Widths
    <3>3. n \in within
      BY <2>3, <3>1, <3>2
    <3>4. IsFiniteSet(within)
      BY <2>3, FiniteLines
    <3> HIDE DEF within
    <3>5. Cardinality(within) # 0
      BY <3>3, <3>4, FS_EmptySet
    <3> QED BY <2>9, <3>5 DEF within, LinesWithin
  <2>11. CountThreshold \in Nat /\ ShortWindow \in Nat
    BY WindowAssumption, Widths
  <2>12. ASSUME Triggered(stats) PROVE IsBurst(t, b, c)
    <3>1. CASE short >= CountThreshold
      BY <2>8, <2>11, <3>1 DEF IsBurst
    <3>2. CASE span >= ShortWindow /\ short * span >= RateMultiple * long * ShortWindow
      <4>1. b * span >= RateMultiple * c * ShortWindow
        <5>1. c <= long /\ short <= b
          BY <2>8, <2>9
        <5> QED BY <2>11, <3>2, <5>1, RatesCompare, Zenon
      <4> QED BY <2>6, <3>2, <4>1 DEF IsBurst
    <3> QED BY <2>6, <2>8, <2>9, <2>12, <3>1, <3>2 DEF Triggered
  <2>13. ASSUME IsBurst(t, a, d) PROVE Triggered(stats)
    <3>1. CASE a >= CountThreshold
      BY <2>8, <2>11, <3>1 DEF Triggered
    <3>2. CASE span >= ShortWindow /\ a * span >= RateMultiple * d * ShortWindow
      <4>1. short * span >= RateMultiple * long * ShortWindow
        <5>1. long <= d /\ a <= short
          BY <2>8, <2>9
        <5> QED BY <2>11, <3>2, <5>1, RatesCompare, Zenon
      <4>2. long # 0
        BY <2>9, <2>10
      <4> QED BY <2>6, <2>8, <2>9, <3>2, <4>1, <4>2 DEF Triggered
    <3> QED BY <2>6, <2>13, <3>1, <3>2 DEF IsBurst
  <2> QED BY <2>5, <2>8, <2>9, <2>12, <2>13 DEF TriggersAreBursts
<1> QED BY <1>1, InductiveInvariant, PTL

\* A window that goes was idle for the long window, or, in a full table, the
\* stalest; and it made room for a template that had none (evict_idle).
THEOREM EvictionHolds == Spec => OnlyIdleOrStalestGo
<1>1. IndInv /\ [Next]_vars =>
        [\A t \in Tracked : windows'[t] = Null =>
           /\ \/ now - windows[t].last > LongWindow
              \/ /\ Cardinality(Tracked) = MaxWindows
                 /\ \A x \in Tracked : windows[t].last <= windows[x].last
           /\ \E x \in Template \ Tracked : windows'[x] # Null]_vars
  <2> SUFFICES ASSUME IndInv, Next, NEW t \in Tracked, windows'[t] = Null
               PROVE  /\ \/ now - windows[t].last > LongWindow
                         \/ /\ Cardinality(Tracked) = MaxWindows
                            /\ \A x \in Tracked : windows[t].last <= windows[x].last
                      /\ \E x \in Template \ Tracked : windows'[x] # Null
    OBVIOUS
  <2> /\ now \in Nat /\ WindowsTrue /\ IsFiniteSet(Tracked) /\ Cardinality(Tracked) <= MaxWindows
      /\ Cardinality(Tracked) \in Nat /\ MaxWindows \in Nat
    BY Widths, FS_CardinalityType DEF IndInv, TableBounded, TableKeepsBound
  <2>0. t \in Template /\ windows[t] # Null /\ windows[t] \in Window
    BY DEF Tracked, WindowsTrue
  <2>1. PICK new \in Template, host \in Host : RecordLine(new, host)
    BY <2>0 DEF Next, Advance
  <2>2. ASSUME NEW rest, Rest(rest), Record(new, host, rest)
        PROVE  rest[t] = Null /\ windows'[new] # Null
    <3>1. new \in Tracked' /\ \A x \in Template \ {new} : windows'[x] = rest[x]
      BY <2>2, RecordStep
    <3> QED BY <2>0, <3>1 DEF Tracked
  <2>3. CASE RecordTracked(new, host) \/ RecordNew(new, host)
    <3>1. Record(new, host, windows)
      BY <2>3 DEF RecordTracked, RecordNew
    <3> QED BY <2>0, <2>2, <3>1, WithoutIsRest
  <2>4. CASE RecordSweeping(new, host)
    <3>1. Record(new, host, Without(Idle)) /\ new \notin Tracked
      BY <2>4 DEF RecordSweeping
    <3>2. Without(Idle)[t] = Null /\ windows'[new] # Null
      BY <2>2, <3>1, WithoutIsRest
    <3>3. t \in Idle
      BY <2>0, <3>2 DEF Without
    <3> QED BY <3>1, <3>2, <3>3 DEF Idle
  <2>5. CASE RecordEvicting(new, host)
    <3>1. PICK gone \in SUBSET Tracked :
                 /\ Cardinality(gone) = Cardinality(Tracked) - MaxWindows + 1
                 /\ \A x \in gone, y \in Tracked \ gone : windows[x].last <= windows[y].last
                 /\ Record(new, host, Without(gone))
      BY <2>5 DEF RecordEvicting
    <3>2. new \notin Tracked /\ Cardinality(Tracked) = MaxWindows
      BY <2>5 DEF RecordEvicting
    <3>3. Without(gone)[t] = Null /\ windows'[new] # Null
      BY <2>2, <3>1, WithoutIsRest
    <3>4. t \in gone
      BY <2>0, <3>3 DEF Without
    <3>5. gone = {t}
      <4>1. IsFiniteSet(gone) /\ Cardinality(gone) = 1
        BY <3>1, <3>2, FS_Subset
      <4>2. \E x : gone = {x}
        BY <4>1, FS_Singleton
      <4> QED BY <3>4, <4>2
    <3>6. \A x \in Tracked : windows[t].last <= windows[x].last
      <4>1. windows[t].last \in Nat
        BY <2>0 DEF Window
      <4> QED BY <3>1, <3>4, <3>5, <4>1
    <3> QED BY <3>2, <3>3, <3>6
  <2> QED BY <2>1, <2>3, <2>4, <2>5 DEF RecordLine
<1> QED BY <1>1, InductiveInvariant, PTL DEF Spec, OnlyIdleOrStalestGo
=============================================================================
