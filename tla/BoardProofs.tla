----------------------------- MODULE BoardProofs -----------------------------
(***************************************************************************)
(* The page's list is made good by what is on the way, for every capacity  *)
(* of the broadcast and the wire and any number of fetches at once.        *)
(***************************************************************************)
EXTENDS Board, SequenceTheorems, TLAPS

Word == Change \union {Resync}

LEMMA Words ==
  /\ Resync \notin Change
  /\ Absent \notin Change
  /\ \A c \in Change : c.id \in Id /\ c.shows \in Version \union {Absent}
<1>1. Resync \notin Change /\ Absent \notin Change
  BY BoardAssumption
<1>2. \A c \in Change : c.id \in Id /\ c.shows \in Version \union {Absent}
  BY DEF Change, Upsert, Cleared
<1> QED BY <1>1, <1>2

-----------------------------------------------------------------------------
(* Answers that may be too old.                                            *)

\* Answers grow doubtful in place.
LEMMA DoubtfulAnswers ==
  ASSUME NEW seq \in Seq(Answer), NEW n \in Nat, NEW why \in Doubt
  PROVE  /\ Doubtful(seq, n, why) \in Seq(Answer)
         /\ Len(Doubtful(seq, n, why)) = Len(seq)
         /\ \A i \in 1 .. Len(seq) :
              /\ i > n => Doubtful(seq, n, why)[i] = seq[i]
              /\ i <= n /\ why # "no" => Doubtful(seq, n, why)[i].doubt # "no"
<1> DEFINE d == Doubtful(seq, n, why)
           Now(i) == IF i <= n /\ seq[i].doubt = "no" THEN [seq[i] EXCEPT !.doubt = why] ELSE seq[i]
<1>1. d = [i \in 1 .. Len(seq) |-> Now(i)]
  BY DEF Doubtful
<1>2. ASSUME NEW i \in 1 .. Len(seq)
      PROVE  /\ Now(i) \in Answer
             /\ i > n => Now(i) = seq[i]
             /\ i <= n /\ why # "no" => Now(i).doubt # "no"
  <2>1. seq[i] \in Answer
    OBVIOUS
  <2> QED BY <2>1 DEF Answer
<1> HIDE DEF Now
<1>3. d \in [1 .. Len(seq) -> Answer]
  BY <1>1, <1>2
<1>4. d \in Seq(Answer) /\ Len(d) = Len(seq)
  BY <1>3, IsASeq, Len(seq) \in Nat, LenProperties
<1> QED BY <1>1, <1>2, <1>4

\* One answer leaves its place.
LEMMA RemovedAnswer ==
  ASSUME NEW T, NEW seq \in Seq(T), NEW i \in 1 .. Len(seq)
  PROVE  /\ RemoveAt(seq, i) \in Seq(T)
         /\ Len(RemoveAt(seq, i)) = Len(seq) - 1
         /\ i < Len(seq) => RemoveAt(seq, i)[Len(seq) - 1] = seq[Len(seq)]
         /\ i = Len(seq) => \A j \in 1 .. Len(seq) - 1 : RemoveAt(seq, i)[j] = seq[j]
<1> DEFINE front == SubSeq(seq, 1, i - 1)
           back == SubSeq(seq, i + 1, Len(seq))
<1>1. /\ front \in Seq(T) /\ Len(front) = i - 1
      /\ \A j \in 1 .. i - 1 : front[j] = seq[j]
  OBVIOUS
<1>2. /\ back \in Seq(T) /\ Len(back) = Len(seq) - i
      /\ \A j \in 1 .. Len(seq) - i : back[j] = seq[i + j]
  OBVIOUS
<1>3. RemoveAt(seq, i) = front \o back
  BY DEF RemoveAt
<1> HIDE DEF front, back
<1>4. /\ front \o back \in Seq(T) /\ Len(front \o back) = Len(seq) - 1
      /\ \A j \in 1 .. i - 1 : (front \o back)[j] = front[j]
      /\ \A j \in i .. Len(seq) - 1 : (front \o back)[j] = back[j - (i - 1)]
  <2>1. /\ front \o back \in Seq(T) /\ Len(front \o back) = Len(front) + Len(back)
        /\ \A j \in 1 .. Len(front) + Len(back) :
             (front \o back)[j] = IF j <= Len(front) THEN front[j] ELSE back[j - Len(front)]
    BY <1>1, <1>2, ConcatProperties
  <2>2. Len(front) = i - 1 /\ Len(back) = Len(seq) - i /\ Len(seq) \in Nat
    BY <1>1, <1>2
  <2> QED BY <2>1, <2>2
<1>5. i < Len(seq) => /\ (front \o back)[Len(seq) - 1] = back[Len(seq) - i]
                      /\ back[Len(seq) - i] = seq[Len(seq)]
  BY <1>1, <1>2, <1>4
<1>6. i = Len(seq) => \A j \in 1 .. Len(seq) - 1 : (front \o back)[j] = seq[j]
  BY <1>1, <1>4
<1> QED BY <1>3, <1>4, <1>5, <1>6

-----------------------------------------------------------------------------
(* What is on the way, as a value: the wire w, the feed f, the change u.   *)

Way(w, f, u) == w \o f \o IF u = Absent THEN <<>> ELSE <<u>>

\* The places behind which a fetch is still to come.
Gaps(w, behind) ==
  {n \in Nat : (behind /\ n <= Len(w)) \/ \E m \in DOMAIN w : m >= n /\ w[m] = Resync}

\* Word n says nothing about alarm i.
Omits(s, n, i) == s[n] = Resync \/ s[n].id # i

\* The last word about an alarm is the listing's, unless a fetch comes after it.
Sound(s, gaps, listing) ==
  \A n \in DOMAIN s :
    \/ s[n] = Resync \/ n \in gaps
    \/ \E m \in DOMAIN s : m > n /\ ~Omits(s, m, s[n].id)
    \/ s[n].shows = listing[s[n].id]

\* A page that shows this list has all the words it needs.
Good(s, shown, listing) ==
  \A i \in Id : (\A n \in DOMAIN s : Omits(s, n, i)) => shown[i] = listing[i]

\* Word by word: first the wire, then the feed, then what is not yet sent.
LEMMA WayWords ==
  ASSUME NEW w \in Seq(Word), NEW f \in Seq(Change), NEW u \in Change \union {Absent}
  PROVE  /\ Way(w, f, u) \in Seq(Word)
         /\ Len(Way(w, f, u)) = Len(w) + Len(f) + IF u = Absent THEN 0 ELSE 1
         /\ \A n \in 1 .. Len(w) : Way(w, f, u)[n] = w[n]
         /\ \A n \in 1 .. Len(f) : Way(w, f, u)[Len(w) + n] = f[n]
         /\ u # Absent => Way(w, f, u)[Len(w) + Len(f) + 1] = u
<1> DEFINE last == IF u = Absent THEN <<>> ELSE <<u>>
           both == w \o f
<1>1. f \in Seq(Word)
  BY DEF Word
<1>2. /\ last \in Seq(Word)
      /\ Len(last) = IF u = Absent THEN 0 ELSE 1
      /\ u # Absent => last[1] = u
  <2>1. CASE u = Absent
    BY <2>1
  <2>2. CASE u # Absent
    <3>1. u \in Word /\ last = <<u>>
      BY <2>2 DEF Word
    <3>2. <<u>> \in Seq(Word) /\ Len(<<u>>) = 1 /\ <<u>>[1] = u
      BY <3>1
    <3> QED BY <2>2, <3>1, <3>2
  <2> QED BY <2>1, <2>2
<1>3. /\ both \in Seq(Word) /\ Len(both) = Len(w) + Len(f)
      /\ \A n \in 1 .. Len(w) + Len(f) :
           both[n] = IF n <= Len(w) THEN w[n] ELSE f[n - Len(w)]
  BY <1>1, ConcatProperties
<1> HIDE DEF last, both
<1>4. /\ both \o last \in Seq(Word) /\ Len(both \o last) = Len(both) + Len(last)
      /\ \A n \in 1 .. Len(both) + Len(last) :
           (both \o last)[n] = IF n <= Len(both) THEN both[n] ELSE last[n - Len(both)]
  <2>1. both \in Seq(Word) /\ last \in Seq(Word)
    BY <1>2, <1>3
  <2> QED BY <2>1, ConcatProperties
<1>5. Len(w) \in Nat /\ Len(f) \in Nat /\ Len(last) \in Nat
  BY <1>1, <1>2
<1>6. \A n \in 1 .. Len(w) : (both \o last)[n] = w[n]
  BY <1>3, <1>4, <1>5
<1>7. \A n \in 1 .. Len(f) : (both \o last)[Len(w) + n] = f[n]
  <2> TAKE n \in 1 .. Len(f)
  <2>1. (both \o last)[Len(w) + n] = both[Len(w) + n]
    BY <1>3, <1>4, <1>5
  <2>2. /\ Len(w) + n \in 1 .. Len(w) + Len(f) /\ ~(Len(w) + n <= Len(w))
        /\ Len(w) + n - Len(w) = n
    BY <1>5
  <2>3. both[Len(w) + n] = f[Len(w) + n - Len(w)]
    BY <1>3, <2>2
  <2> QED BY <2>1, <2>2, <2>3
<1>8. u # Absent => (both \o last)[Len(w) + Len(f) + 1] = u
  <2> HAVE u # Absent
  <2>1. (both \o last)[Len(w) + Len(f) + 1] = last[Len(w) + Len(f) + 1 - (Len(w) + Len(f))]
    BY <1>2, <1>3, <1>4, <1>5
  <2> QED BY <2>1, <1>2, <1>5
<1>9. Way(w, f, u) = both \o last
  BY DEF Way, both, last
<1> QED BY <1>2, <1>3, <1>4, <1>6, <1>7, <1>8, <1>9

\* The words of s2 behind place b are those of s at a distance d, and every
\* word before it has its fetch: what held of s holds of s2.
LEMMA Shift ==
  ASSUME NEW s \in Seq(Word), NEW s2 \in Seq(Word), NEW gaps, NEW gaps2, NEW listing,
         NEW d \in Int, NEW b \in Nat,
         Len(s2) + d = Len(s), b + d >= 0,
         \A n \in 1 .. Len(s2) : n > b => s2[n] = s[n + d],
         \A n \in 1 .. Len(s2) : n <= b => s2[n] = Resync \/ n \in gaps2,
         \A n \in 1 .. Len(s2) : n > b /\ n + d \in gaps => n \in gaps2,
         Sound(s, gaps, listing)
  PROVE  Sound(s2, gaps2, listing)
<1>0. DOMAIN s = 1 .. Len(s) /\ DOMAIN s2 = 1 .. Len(s2) /\ Len(s) \in Nat /\ Len(s2) \in Nat
  OBVIOUS
<1> SUFFICES ASSUME NEW n \in 1 .. Len(s2), s2[n] # Resync, n \notin gaps2,
                    \A m \in 1 .. Len(s2) : m > n => Omits(s2, m, s2[n].id)
             PROVE  s2[n].shows = listing[s2[n].id]
  BY <1>0 DEF Sound
<1>1. n > b /\ n + d \in 1 .. Len(s) /\ s2[n] = s[n + d] /\ n + d \notin gaps
  BY <1>0
<1>2. ASSUME NEW m \in 1 .. Len(s), m > n + d
      PROVE  Omits(s, m, s[n + d].id)
  <2>1. m - d \in 1 .. Len(s2) /\ m - d > n /\ s2[m - d] = s[m - d + d] /\ m - d + d = m
    BY <1>1, <1>2
  <2> QED BY <2>1, <1>1 DEF Omits
<1>3. s[n + d].shows = listing[s[n + d].id]
  <2>1. s[n + d] # Resync
    BY <1>1
  <2>2. \A m \in DOMAIN s : m > n + d => Omits(s, m, s[n + d].id)
    BY <1>0, <1>2
  <2>3. n + d \in DOMAIN s /\ n + d \notin gaps
    BY <1>0, <1>1
  <2> HIDE DEF Omits
  <2> QED BY <2>1, <2>2, <2>3 DEF Sound
<1> QED BY <1>1, <1>3

LEMMA SoundMeans ==
  ASSUME NEW s \in Seq(Word), NEW gaps, NEW listing
  PROVE  LET Told(i) == {n \in DOMAIN s : s[n] # Resync /\ s[n].id = i} IN
         Sound(s, gaps, listing) <=>
           \A i \in Id : \A n \in Told(i) :
             (\A m \in Told(i) : m <= n) => n \in gaps \/ s[n].shows = listing[i]
<1> DEFINE Told(i) == {n \in DOMAIN s : s[n] # Resync /\ s[n].id = i}
<1>1. DOMAIN s = 1 .. Len(s) /\ Len(s) \in Nat
  OBVIOUS
<1>2. \A n \in DOMAIN s : s[n] # Resync => s[n].id \in Id
  BY Words DEF Word
<1>3. ASSUME Sound(s, gaps, listing), NEW i \in Id, NEW n \in Told(i), \A m \in Told(i) : m <= n
      PROVE  n \in gaps \/ s[n].shows = listing[i]
  <2>1. n \in DOMAIN s /\ s[n] # Resync /\ s[n].id = i
    OBVIOUS
  <2>2. \A m \in DOMAIN s : m > n => Omits(s, m, s[n].id)
    BY <1>1, <1>3, <2>1 DEF Omits
  <2> QED BY <1>3, <2>1, <2>2 DEF Sound
<1>4. ASSUME \A i \in Id : \A n \in Told(i) :
               (\A m \in Told(i) : m <= n) => n \in gaps \/ s[n].shows = listing[i],
             NEW n \in DOMAIN s, s[n] # Resync,
             \A m \in DOMAIN s : m > n => Omits(s, m, s[n].id)
      PROVE  n \in gaps \/ s[n].shows = listing[s[n].id]
  <2>1. n \in Told(s[n].id)
    BY <1>4
  <2>2. \A m \in Told(s[n].id) : m <= n
    BY <1>1, <1>4 DEF Omits
  <2> QED BY <1>2, <1>4, <2>1, <2>2
<1>5. (\A i \in Id : \A n \in Told(i) :
               (\A m \in Told(i) : m <= n) => n \in gaps \/ s[n].shows = listing[i])
      => Sound(s, gaps, listing)
  BY <1>4 DEF Sound
<1> QED BY <1>3, <1>5

LEMMA GoodMeans ==
  ASSUME NEW s, NEW shown, NEW listing
  PROVE  Good(s, shown, listing) <=>
           \A i \in Id : {n \in DOMAIN s : s[n] # Resync /\ s[n].id = i} = {}
                          => shown[i] = listing[i]
<1>1. \A i \in Id : (\A n \in DOMAIN s : Omits(s, n, i))
                    <=> {n \in DOMAIN s : s[n] # Resync /\ s[n].id = i} = {}
  BY DEF Omits
<1> QED BY <1>1 DEF Good

\* The invariant's parts, said of what is on the way now.
Meaning ==
  LET way == Way(wire, feed, unpublished) IN
  /\ way \in Seq(Word)
  /\ WordsAreTrue <=> Sound(way, Gaps(wire, lagged), snapshot)
  /\ MadeGood(alarms) <=> Good(way, alarms, snapshot)
  /\ MadeGood(Last(answers).listing) <=> Good(way, Last(answers).listing, snapshot)

LEMMA Now == TypeOK => Meaning
<1> DEFINE way == Way(wire, feed, unpublished)
<1> HAVE TypeOK
<1>1. way \in Seq(Word) /\ OnTheWay = way
  BY WayWords DEF TypeOK, Word, OnTheWay, Way
<1>2. \A n \in DOMAIN way : n \in Gaps(wire, lagged) <=> Gap(n)
  <2>1. DOMAIN way \subseteq Nat
    BY <1>1
  <2> QED BY <2>1 DEF Gaps, Gap
<1>3. \A i : About(i) = {n \in DOMAIN way : way[n] # Resync /\ way[n].id = i}
  BY <1>1 DEF About
<1> HIDE DEF way
<1>4. WordsAreTrue <=> Sound(way, Gaps(wire, lagged), snapshot)
  <2>1. Sound(way, Gaps(wire, lagged), snapshot) <=>
          \A i \in Id : \A n \in About(i) :
            (\A m \in About(i) : m <= n)
              => n \in Gaps(wire, lagged) \/ way[n].shows = snapshot[i]
    BY <1>1, <1>3, SoundMeans
  <2>2. \A i \in Id : \A n \in About(i) : n \in DOMAIN way
    BY <1>3
  <2> QED BY <1>1, <1>2, <2>1, <2>2 DEF WordsAreTrue
<1>5. ASSUME NEW shown PROVE MadeGood(shown) <=> Good(way, shown, snapshot)
  BY <1>3, GoodMeans DEF MadeGood
<1> QED BY <1>1, <1>4, <1>5 DEF Meaning, way

LEMMA Then == TypeOK' => Meaning'
BY Now, PTL

-----------------------------------------------------------------------------
(* Every variable keeps its type.                                          *)

LEMMA ApplyListing ==
  ASSUME NEW listing \in Listing, NEW c \in Change
  PROVE  /\ Apply(listing, c) \in Listing
         /\ Apply(listing, c)[c.id] = c.shows
         /\ \A i \in Id : i # c.id => Apply(listing, c)[i] = listing[i]
BY Words DEF Apply, Listing

LEMMA TypeKept == TypeOK /\ [Next]_vars => TypeOK'
<1> SUFFICES ASSUME TypeOK, [Next]_vars PROVE TypeOK'
  OBVIOUS
<1> USE DEF TypeOK
<1>0. Capacity \in Nat /\ Wire \in Nat /\ MaxFetches \in Nat /\ Len(feed) \in Nat /\ Len(wire) \in Nat
  BY BoardAssumption
<1>1. CASE Writes
  <2>1. PICK c \in Change : snapshot' = Apply(snapshot, c) /\ unpublished' = c
    BY <1>1 DEF Writes
  <2> QED BY <1>1, <2>1, ApplyListing DEF Writes, stream, fetches, page
<1>2. CASE Publishes
  <2>1. unpublished \in Change
    BY <1>2 DEF Publishes
  <2>2. feed' \in Seq(Change) /\ Len(feed') <= Capacity /\ lagged' \in BOOLEAN
    <3>1. CASE status = "connecting"
      BY <1>2, <3>1 DEF Publishes
    <3>2. CASE status # "connecting" /\ Len(feed) = Capacity
      <4>1. feed # <<>> /\ Capacity \in Nat
        BY <3>2, BoardAssumption
      <4>2. Tail(feed) \in Seq(Change) /\ Len(Tail(feed)) = Len(feed) - 1
        BY <4>1
      <4>3. Append(Tail(feed), unpublished) \in Seq(Change)
            /\ Len(Append(Tail(feed), unpublished)) = Len(Tail(feed)) + 1
        BY <2>1, <4>2
      <4>4. feed' = Append(Tail(feed), unpublished) /\ lagged' = TRUE
        BY <1>2, <3>2 DEF Publishes
      <4>5. Len(Append(Tail(feed), unpublished)) <= Capacity
        BY <1>0, <4>2, <4>3
      <4> QED BY <4>3, <4>4, <4>5
    <3>3. CASE status # "connecting" /\ Len(feed) # Capacity
      <4>1. feed' = Append(feed, unpublished) /\ UNCHANGED lagged
        BY <1>2, <3>3 DEF Publishes
      <4>2. Append(feed, unpublished) \in Seq(Change) /\ Len(Append(feed, unpublished)) = Len(feed) + 1
        BY <2>1
      <4>3. Len(feed) + 1 <= Capacity
        BY <1>0, <3>3
      <4> QED BY <4>1, <4>2, <4>3
    <3> QED BY <3>1, <3>2, <3>3
  <2> QED BY <1>2, <2>2 DEF Publishes, fetches, page
<1>3. CASE Restarts
  <2>1. PICK kept \in SUBSET Id :
          snapshot' = [i \in Id |-> IF i \in kept THEN snapshot[i] ELSE Absent]
    BY <1>3 DEF Restarts
  <2>2. snapshot' \in Listing
    BY <2>1 DEF Listing
  <2>3. /\ doubt' \in Doubt /\ asked' = 0
        /\ answers' \in Seq(Answer) /\ Len(answers') = Len(answers)
    <3>1. CASE asked = 0
      BY <1>3, <3>1 DEF Restarts
    <3>2. CASE asked # 0
      <4>1. /\ doubt' = "failed" /\ asked' = 0
            /\ answers' = Doubtful(answers, Len(answers), "failed")
        BY <1>3, <3>2 DEF Restarts
      <4>2. "failed" \in Doubt /\ Len(answers) \in Nat
        BY DEF Doubt
      <4> QED BY <4>1, <4>2, DoubtfulAnswers
    <3> QED BY <3>1, <3>2
  <2>4. /\ feed' = <<>> /\ wire' = <<>> /\ lagged' = FALSE /\ status' = "connecting"
        /\ unpublished' = Absent /\ UNCHANGED <<alarms, quiet>>
    BY <1>3 DEF Restarts, Disconnected
  <2>5. <<>> \in Seq(Change) /\ <<>> \in Seq(Change \union {Resync}) /\ Len(<<>>) = 0
    OBVIOUS
  <2>6. feed' \in Seq(Change) /\ wire' \in Seq(Change \union {Resync})
        /\ Len(feed') <= Capacity /\ Len(wire') <= Wire
    BY <1>0, <2>4, <2>5
  <2>7. asked' \in Nat /\ asked' + Len(answers') <= MaxFetches
    BY <1>0, <2>3
  <2> QED BY <2>2, <2>3, <2>4, <2>6, <2>7
<1>4. CASE GoesQuiet
  BY <1>4 DEF GoesQuiet, server, stream, fetches, page
<1>5. CASE Subscribes
  BY <1>5 DEF Subscribes, server, fetches, page
<1>6. CASE Streams
  <2>1. CASE lagged
    <3>1. /\ Append(wire, Resync) \in Seq(Change \union {Resync})
          /\ Len(Append(wire, Resync)) = Len(wire) + 1
      OBVIOUS
    <3>2. wire' = Append(wire, Resync) /\ lagged' = FALSE /\ Len(wire) < Wire
          /\ UNCHANGED <<feed, status, snapshot, unpublished, asked, answers, alarms, doubt, quiet>>
      BY <1>6, <2>1 DEF Streams, server, fetches, page
    <3>3. Len(wire) + 1 <= Wire
      BY <1>0, <3>2
    <3>4. wire' \in Seq(Change \union {Resync}) /\ Len(wire') <= Wire
      BY <3>1, <3>2, <3>3
    <3> QED BY <3>2, <3>4
  <2>2. CASE ~lagged
    <3>1. feed # <<>>
      BY <1>6, <2>2 DEF Streams
    <3>2. Head(feed) \in Change /\ Tail(feed) \in Seq(Change) /\ Len(Tail(feed)) = Len(feed) - 1
      BY <3>1
    <3>3. /\ Append(wire, Head(feed)) \in Seq(Change \union {Resync})
          /\ Len(Append(wire, Head(feed))) = Len(wire) + 1
      BY <3>2
    <3>4. wire' = Append(wire, Head(feed)) /\ feed' = Tail(feed) /\ Len(wire) < Wire
          /\ UNCHANGED <<lagged, status, snapshot, unpublished, asked, answers, alarms, doubt, quiet>>
      BY <1>6, <2>2 DEF Streams, server, fetches, page
    <3>5. Len(wire) + 1 <= Wire /\ Len(feed) - 1 <= Capacity
      BY <1>0, <3>4
    <3>6. wire' \in Seq(Change \union {Resync}) /\ Len(wire') <= Wire
      BY <3>3, <3>4, <3>5
    <3>7. feed' \in Seq(Change) /\ Len(feed') <= Capacity
      BY <3>2, <3>4, <3>5
    <3> QED BY <3>4, <3>6, <3>7
  <2> QED BY <2>1, <2>2
<1>7. CASE Breaks
  <2>1. /\ feed' = <<>> /\ wire' = <<>> /\ lagged' = FALSE /\ status' = "connecting"
        /\ UNCHANGED <<snapshot, unpublished, asked, answers, alarms, doubt, quiet>>
    BY <1>7 DEF Breaks, Disconnected, server, fetches, page
  <2>2. <<>> \in Seq(Change) /\ <<>> \in Seq(Change \union {Resync}) /\ Len(<<>>) = 0
    OBVIOUS
  <2>3. feed' \in Seq(Change) /\ wire' \in Seq(Change \union {Resync})
        /\ Len(feed') <= Capacity /\ Len(wire') <= Wire
    BY <1>0, <2>1, <2>2
  <2> QED BY <2>1, <2>3
<1>8. CASE Opens
  <2>1. /\ asked' = asked + 1 /\ asked + Len(answers) < MaxFetches /\ status' = "live"
        /\ UNCHANGED <<snapshot, unpublished, feed, lagged, wire, answers, alarms, doubt, quiet>>
    BY <1>8 DEF Opens, Fetch, server, page
  <2>2. asked' \in Nat /\ asked' + Len(answers) <= MaxFetches
    BY <1>0, <2>1
  <2> QED BY <2>1, <2>2
<1>9. CASE Dispatches
  <2>1. wire # <<>>
    BY <1>9 DEF Dispatches
  <2>2. /\ Head(wire) \in Change \union {Resync}
        /\ Tail(wire) \in Seq(Change \union {Resync}) /\ Len(Tail(wire)) = Len(wire) - 1
    BY <2>1
  <2>3. CASE Head(wire) = Resync
    BY <1>9, <2>2, <2>3, BoardAssumption DEF Dispatches, Fetch, server
  <2>4. CASE Head(wire) # Resync
    <3>1. /\ alarms' = Apply(alarms, Head(wire)) /\ UNCHANGED asked
          /\ answers' = Doubtful(answers, Len(answers), "overtaken")
      BY <1>9, <2>4 DEF Dispatches
    <3>2. alarms' \in Listing
      BY <2>2, <2>4, <3>1, ApplyListing
    <3>3. "overtaken" \in Doubt /\ Len(answers) \in Nat
      BY DEF Doubt
    <3>4. answers' \in Seq(Answer) /\ Len(answers') = Len(answers)
      BY <3>1, <3>3, DoubtfulAnswers
    <3> QED BY <1>9, <2>2, <3>1, <3>2, <3>4, BoardAssumption DEF Dispatches, server
  <2> QED BY <2>3, <2>4
<1>10. CASE Answers
  <2>1. [listing |-> snapshot, doubt |-> "no"] \in Answer
    BY DEF Answer, Doubt
  <2>2. /\ Append(answers, [listing |-> snapshot, doubt |-> "no"]) \in Seq(Answer)
        /\ Len(Append(answers, [listing |-> snapshot, doubt |-> "no"])) = Len(answers) + 1
    BY <2>1
  <2>3. answers' = Append(answers, [listing |-> snapshot, doubt |-> "no"]) /\ asked' = asked - 1 /\ asked > 0
    BY <1>10 DEF Answers
  <2> QED BY <1>10, <2>2, <2>3, BoardAssumption DEF Answers, server, stream, page
<1>11. CASE Replaces
  <2>1. PICK i \in DOMAIN answers :
          /\ alarms' = answers[i].listing
          /\ doubt' = answers[i].doubt
          /\ answers' = RemoveAt(Doubtful(answers, i, "overtaken"), i)
    BY <1>11 DEF Replaces
  <2>2. answers[i] \in Answer /\ i \in 1 .. Len(answers) /\ i \in Nat /\ "overtaken" \in Doubt
    BY DEF Doubt
  <2>3. /\ Doubtful(answers, i, "overtaken") \in Seq(Answer)
        /\ Len(Doubtful(answers, i, "overtaken")) = Len(answers)
    BY <2>2, DoubtfulAnswers
  <2>4. answers' \in Seq(Answer) /\ Len(answers') = Len(answers) - 1
    BY <2>1, <2>2, <2>3, RemovedAnswer
  <2>5. alarms' \in Listing /\ doubt' \in Doubt
    BY <2>1, <2>2 DEF Answer
  <2> QED BY <1>11, <2>4, <2>5, BoardAssumption DEF Replaces, server, stream
<1>12. CASE FetchFails
  <2>1. /\ asked' = asked - 1 /\ asked > 0 /\ doubt' = "failed"
        /\ answers' = Doubtful(answers, Len(answers), "failed")
    BY <1>12 DEF FetchFails
  <2>2. "failed" \in Doubt /\ Len(answers) \in Nat
    BY DEF Doubt
  <2>3. answers' \in Seq(Answer) /\ Len(answers') = Len(answers)
    BY <2>1, <2>2, DoubtfulAnswers
  <2> QED BY <1>12, <2>1, <2>2, <2>3, BoardAssumption DEF FetchFails, server, stream
<1>13. CASE Rests \/ UNCHANGED vars
  BY <1>13 DEF Rests, vars, server, stream, fetches, page
<1> QED
  BY <1>1, <1>2, <1>3, <1>4, <1>5, <1>6, <1>7, <1>8, <1>9, <1>10, <1>11, <1>12, <1>13
  DEF Next

-----------------------------------------------------------------------------
(* The last word about each alarm stays true.                              *)

LEMMA WayAt ==
  ASSUME NEW w \in Seq(Word), NEW f \in Seq(Change), NEW u \in Change \union {Absent}
  PROVE  \A n \in 1 .. Len(Way(w, f, u)) :
           Way(w, f, u)[n] = IF n <= Len(w) THEN w[n]
                             ELSE IF n <= Len(w) + Len(f) THEN f[n - Len(w)] ELSE u
<1> TAKE n \in 1 .. Len(Way(w, f, u))
<1>1. Len(w) \in Nat /\ Len(f) \in Nat
  OBVIOUS
<1>2. CASE n <= Len(w)
  BY <1>1, <1>2, WayWords
<1>3. CASE n > Len(w) /\ n <= Len(w) + Len(f)
  <2>1. n - Len(w) \in 1 .. Len(f) /\ Len(w) + (n - Len(w)) = n
    BY <1>1, <1>3
  <2> QED BY <1>1, <1>3, <2>1, WayWords
<1>4. CASE n > Len(w) + Len(f)
  <2>1. u # Absent /\ n = Len(w) + Len(f) + 1
    BY <1>1, <1>4, WayWords
  <2> QED BY <1>1, <1>4, <2>1, WayWords
<1> QED BY <1>1, <1>2, <1>3, <1>4

\* A change is written: it is the last word about its alarm.
LEMMA SoundWritten ==
  ASSUME NEW s \in Seq(Word), NEW c \in Change, NEW gaps, NEW listing \in Listing,
         Sound(s, gaps, listing)
  PROVE  Sound(Append(s, c), gaps, Apply(listing, c))
<1> DEFINE s2 == Append(s, c)
<1>1. /\ DOMAIN s2 = 1 .. Len(s) + 1 /\ DOMAIN s = 1 .. Len(s) /\ Len(s) \in Nat
      /\ s2[Len(s) + 1] = c /\ \A n \in 1 .. Len(s) : s2[n] = s[n]
  <2>1. c \in Word
    BY DEF Word
  <2> QED BY <2>1, AppendProperties
<1> HIDE DEF s2
<1>2. ASSUME NEW n \in DOMAIN s2, s2[n] # Resync, n \notin gaps,
             \A m \in DOMAIN s2 : m > n => Omits(s2, m, s2[n].id)
      PROVE  s2[n].shows = Apply(listing, c)[s2[n].id]
  <2>1. CASE n = Len(s) + 1
    BY <1>1, <2>1, ApplyListing
  <2>2. CASE n \in 1 .. Len(s)
    <3>1. s2[n] = s[n] /\ s[n] \in Change
      BY <1>1, <1>2, <2>2 DEF Word
    <3>2. c.id # s[n].id
      <4>1. Omits(s2, Len(s) + 1, s2[n].id)
        BY <1>1, <1>2, <2>2
      <4> QED BY <1>1, <3>1, <4>1, Words DEF Omits
    <3>3. \A m \in DOMAIN s : m > n => Omits(s, m, s[n].id)
      BY <1>1, <1>2, <3>1 DEF Omits
    <3>4. s[n].shows = listing[s[n].id]
      BY <1>1, <1>2, <2>2, <3>1, <3>3 DEF Sound
    <3> QED BY <3>1, <3>2, <3>4, Words, ApplyListing
  <2> QED BY <1>1, <2>1, <2>2
<1>3. Sound(s2, gaps, Apply(listing, c))
  BY <1>2 DEF Sound
<1> QED BY <1>3 DEF s2

\* The same words in the same places, behind the same fetches.
LEMMA SoundSame ==
  ASSUME NEW s \in Seq(Word), NEW s2 \in Seq(Word), NEW gaps, NEW gaps2, NEW listing,
         Len(s2) = Len(s), \A n \in 1 .. Len(s) : s2[n] = s[n],
         \A n \in 1 .. Len(s) : n \in gaps => n \in gaps2,
         Sound(s, gaps, listing)
  PROVE  Sound(s2, gaps2, listing) /\ s2 = s
<1>1. s2 = s
  BY SeqEqual
<1>2. DOMAIN s = 1 .. Len(s)
  OBVIOUS
<1> QED BY <1>1, <1>2 DEF Sound

\* The broadcast takes the change.
LEMMA WayPublished ==
  ASSUME NEW w \in Seq(Word), NEW f \in Seq(Change), NEW u \in Change
  PROVE  Way(w, Append(f, u), Absent) = Way(w, f, u)
<1> DEFINE s == Way(w, f, u)
           g == Append(f, u)
           s2 == Way(w, g, Absent)
<1>1. /\ g \in Seq(Change) /\ Len(g) = Len(f) + 1
      /\ g[Len(f) + 1] = u /\ \A n \in 1 .. Len(f) : g[n] = f[n]
  BY AppendProperties
<1>2. Len(w) \in Nat /\ Len(f) \in Nat /\ u # Absent
  BY Words
<1> HIDE DEF g
<1>3. /\ s \in Seq(Word) /\ Len(s) = Len(w) + Len(f) + 1
      /\ \A n \in 1 .. Len(s) :
           s[n] = IF n <= Len(w) THEN w[n] ELSE IF n <= Len(w) + Len(f) THEN f[n - Len(w)] ELSE u
  BY <1>2, WayWords, WayAt
<1>4. /\ s2 \in Seq(Word) /\ Len(s2) = Len(w) + Len(f) + 1
      /\ \A n \in 1 .. Len(s2) :
           s2[n] = IF n <= Len(w) THEN w[n] ELSE IF n <= Len(w) + Len(g) THEN g[n - Len(w)] ELSE Absent
  <2>1. g \in Seq(Change) /\ Absent \in Change \union {Absent}
    BY <1>1
  <2>2. s2 \in Seq(Word) /\ Len(s2) = Len(w) + Len(g) + 0
    BY <2>1, WayWords
  <2>3. \A n \in 1 .. Len(s2) :
           s2[n] = IF n <= Len(w) THEN w[n] ELSE IF n <= Len(w) + Len(g) THEN g[n - Len(w)] ELSE Absent
    BY <2>1, WayAt
  <2> QED BY <1>1, <1>2, <2>2, <2>3
<1> HIDE DEF s, s2
<1>5. ASSUME NEW n \in 1 .. Len(s) PROVE s[n] = s2[n]
  <2>1. CASE n <= Len(w)
    <3>1. n \in 1 .. Len(s2)
      BY <1>3, <1>4
    <3>2. s[n] = w[n]
      BY <1>3, <2>1
    <3>3. s2[n] = w[n]
      BY <1>4, <2>1, <3>1
    <3> QED BY <3>2, <3>3
  <2>2. CASE n > Len(w) /\ n <= Len(w) + Len(f)
    <3>1. n - Len(w) \in 1 .. Len(f) /\ n \in 1 .. Len(s2) /\ n <= Len(w) + Len(g)
      BY <1>1, <1>2, <1>4, <2>2
    <3>2. s2[n] = g[n - Len(w)]
      BY <1>2, <1>4, <2>2, <3>1
    <3>3. s[n] = f[n - Len(w)]
      BY <1>2, <1>3, <2>2
    <3> QED BY <1>1, <3>1, <3>2, <3>3
  <2>3. CASE n = Len(w) + Len(f) + 1
    <3>1. n - Len(w) = Len(f) + 1 /\ n \in 1 .. Len(s2) /\ n <= Len(w) + Len(g)
      BY <1>1, <1>2, <1>4, <2>3
    <3>2. s2[n] = g[n - Len(w)]
      BY <1>2, <1>4, <2>3, <3>1
    <3>3. s[n] = u
      BY <1>2, <1>3, <2>3
    <3> QED BY <1>1, <3>1, <3>2, <3>3
  <2>4. n \in Nat /\ n <= Len(w) + Len(f) + 1
    BY <1>3
  <2> QED BY <1>2, <2>1, <2>2, <2>3, <2>4
<1>6. s = s2
  BY <1>3, <1>4, <1>5, SeqEqual
<1> QED BY <1>6 DEF s, s2, g

\* The stream sends the oldest of the feed.
LEMMA WayStreamed ==
  ASSUME NEW w \in Seq(Word), NEW f \in Seq(Change), f # <<>>, NEW u \in Change \union {Absent}
  PROVE  Way(Append(w, Head(f)), Tail(f), u) = Way(w, f, u)
<1> DEFINE s == Way(w, f, u)
           v == Append(w, Head(f))
           g == Tail(f)
           s2 == Way(v, g, u)
<1>1. /\ g \in Seq(Change) /\ Len(g) = Len(f) - 1
      /\ \A n \in 1 .. Len(f) - 1 : g[n] = f[n + 1]
  OBVIOUS
<1>2. /\ v \in Seq(Word) /\ Len(v) = Len(w) + 1
      /\ v[Len(w) + 1] = f[1] /\ \A n \in 1 .. Len(w) : v[n] = w[n]
  <2>1. Head(f) \in Word /\ Head(f) = f[1]
    BY DEF Word
  <2> QED BY <2>1, AppendProperties
<1>3. Len(w) \in Nat /\ Len(f) \in Nat \ {0}
  OBVIOUS
<1> HIDE DEF g, v
<1>4. /\ s \in Seq(Word) /\ Len(s) = Len(w) + Len(f) + IF u = Absent THEN 0 ELSE 1
      /\ \A n \in 1 .. Len(s) :
           s[n] = IF n <= Len(w) THEN w[n] ELSE IF n <= Len(w) + Len(f) THEN f[n - Len(w)] ELSE u
  BY <1>3, WayWords, WayAt
<1>5. /\ s2 \in Seq(Word) /\ Len(s2) = Len(v) + Len(g) + IF u = Absent THEN 0 ELSE 1
      /\ \A n \in 1 .. Len(s2) :
           s2[n] = IF n <= Len(v) THEN v[n] ELSE IF n <= Len(v) + Len(g) THEN g[n - Len(v)] ELSE u
  <2>1. v \in Seq(Word) /\ g \in Seq(Change)
    BY <1>1, <1>2
  <2>2. s2 \in Seq(Word) /\ Len(s2) = Len(v) + Len(g) + IF u = Absent THEN 0 ELSE 1
    BY <2>1, WayWords
  <2>3. \A n \in 1 .. Len(s2) :
           s2[n] = IF n <= Len(v) THEN v[n] ELSE IF n <= Len(v) + Len(g) THEN g[n - Len(v)] ELSE u
    BY <2>1, WayAt
  <2> QED BY <2>2, <2>3
<1>6. Len(s2) = Len(s)
  BY <1>1, <1>2, <1>3, <1>4, <1>5
<1> HIDE DEF s, s2
<1>7. ASSUME NEW n \in 1 .. Len(s) PROVE s[n] = s2[n]
  <2>1. CASE n <= Len(w)
    <3>1. s[n] = w[n]
      BY <1>4, <2>1
    <3>2. n \in 1 .. Len(s2) /\ n <= Len(v) /\ n \in 1 .. Len(w)
      BY <1>2, <1>3, <1>6, <2>1
    <3>3. s2[n] = v[n]
      BY <1>5, <3>2
    <3> QED BY <1>2, <3>1, <3>2, <3>3
  <2>2. CASE n = Len(w) + 1
    <3>1. n - Len(w) = 1
      BY <1>3, <2>2
    <3>2. s[n] = f[1]
      BY <1>3, <1>4, <2>2, <3>1
    <3>3. s2[n] = v[n]
      BY <1>2, <1>3, <1>5, <1>6, <2>2
    <3> QED BY <1>2, <2>2, <3>2, <3>3
  <2>3. CASE n > Len(w) + 1 /\ n <= Len(w) + Len(f)
    <3>1. n - Len(v) \in 1 .. Len(f) - 1 /\ n - Len(v) + 1 = n - Len(w)
      BY <1>2, <1>3, <2>3
    <3>2. s2[n] = g[n - Len(v)]
      BY <1>1, <1>2, <1>3, <1>5, <1>6, <2>3
    <3>3. s[n] = f[n - Len(w)]
      BY <1>3, <1>4, <2>3
    <3> QED BY <1>1, <3>1, <3>2, <3>3
  <2>4. CASE n > Len(w) + Len(f)
    <3>1. n \in 1 .. Len(s2) /\ ~(n <= Len(v)) /\ ~(n <= Len(v) + Len(g))
      BY <1>1, <1>2, <1>3, <1>6, <2>4
    <3>2. s2[n] = u
      BY <1>5, <3>1
    <3>3. s[n] = u
      BY <1>3, <1>4, <2>4
    <3> QED BY <3>2, <3>3
  <2> QED BY <1>3, <2>1, <2>2, <2>3, <2>4
<1>8. s = s2
  BY <1>4, <1>5, <1>6, <1>7, SeqEqual
<1> QED BY <1>8 DEF s, s2, g, v

\* The page reads the next event.
LEMMA WayDispatched ==
  ASSUME NEW w \in Seq(Word), w # <<>>, NEW f \in Seq(Change), NEW u \in Change \union {Absent}
  PROVE  /\ Len(Way(Tail(w), f, u)) + 1 = Len(Way(w, f, u))
         /\ \A n \in 1 .. Len(Way(Tail(w), f, u)) : Way(Tail(w), f, u)[n] = Way(w, f, u)[n + 1]
         /\ Way(w, f, u)[1] = Head(w) /\ 1 \in 1 .. Len(Way(w, f, u))
<1> DEFINE s == Way(w, f, u)
           v == Tail(w)
           s2 == Way(v, f, u)
<1>1. /\ v \in Seq(Word) /\ Len(v) = Len(w) - 1
      /\ \A n \in 1 .. Len(w) - 1 : v[n] = w[n + 1]
      /\ Head(w) = w[1]
  OBVIOUS
<1>2. Len(w) \in Nat \ {0} /\ Len(f) \in Nat
  OBVIOUS
<1> HIDE DEF v
<1>3. /\ s \in Seq(Word) /\ Len(s) = Len(w) + Len(f) + IF u = Absent THEN 0 ELSE 1
      /\ \A n \in 1 .. Len(s) :
           s[n] = IF n <= Len(w) THEN w[n] ELSE IF n <= Len(w) + Len(f) THEN f[n - Len(w)] ELSE u
  BY <1>2, WayWords, WayAt
<1>4. /\ s2 \in Seq(Word) /\ Len(s2) = Len(v) + Len(f) + IF u = Absent THEN 0 ELSE 1
      /\ \A n \in 1 .. Len(s2) :
           s2[n] = IF n <= Len(v) THEN v[n] ELSE IF n <= Len(v) + Len(f) THEN f[n - Len(v)] ELSE u
  BY <1>1, WayWords, WayAt
<1>5. Len(s2) + 1 = Len(s) /\ 1 \in 1 .. Len(s)
  BY <1>1, <1>2, <1>3, <1>4
<1> HIDE DEF s, s2
<1>6. ASSUME NEW n \in 1 .. Len(s2) PROVE s2[n] = s[n + 1]
  <2>1. n + 1 \in 1 .. Len(s)
    BY <1>2, <1>3, <1>4, <1>5
  <2>2. CASE n <= Len(v)
    BY <1>1, <1>2, <1>3, <1>4, <2>1, <2>2
  <2>3. CASE n > Len(v)
    <3>1. n - Len(v) = n + 1 - Len(w) /\ ~(n <= Len(v)) /\ ~(n + 1 <= Len(w))
          /\ (n <= Len(v) + Len(f) <=> n + 1 <= Len(w) + Len(f))
      BY <1>1, <1>2, <2>3
    <3>2. s2[n] = IF n <= Len(v) + Len(f) THEN f[n - Len(v)] ELSE u
      BY <1>4, <3>1
    <3>3. s[n + 1] = IF n + 1 <= Len(w) + Len(f) THEN f[n + 1 - Len(w)] ELSE u
      BY <1>3, <2>1, <3>1
    <3> QED BY <3>1, <3>2, <3>3
  <2> QED BY <1>1, <1>2, <2>2, <2>3
<1>7. s[1] = Head(w)
  BY <1>1, <1>2, <1>3, <1>5
<1> QED BY <1>5, <1>6, <1>7 DEF s, s2, v

\* The oldest of the feed is lost.
LEMMA WayLagged ==
  ASSUME NEW w \in Seq(Word), NEW f \in Seq(Change), f # <<>>, NEW u \in Change \union {Absent}
  PROVE  /\ Len(Way(w, Tail(f), u)) + 1 = Len(Way(w, f, u))
         /\ \A n \in 1 .. Len(Way(w, Tail(f), u)) :
              n > Len(w) => Way(w, Tail(f), u)[n] = Way(w, f, u)[n + 1]
<1> DEFINE s == Way(w, f, u)
           g == Tail(f)
           s2 == Way(w, g, u)
<1>1. /\ g \in Seq(Change) /\ Len(g) = Len(f) - 1
      /\ \A n \in 1 .. Len(f) - 1 : g[n] = f[n + 1]
  OBVIOUS
<1>2. Len(w) \in Nat /\ Len(f) \in Nat \ {0}
  OBVIOUS
<1> HIDE DEF g
<1>3. /\ Len(s) = Len(w) + Len(f) + IF u = Absent THEN 0 ELSE 1
      /\ \A n \in 1 .. Len(s) :
           s[n] = IF n <= Len(w) THEN w[n] ELSE IF n <= Len(w) + Len(f) THEN f[n - Len(w)] ELSE u
  BY <1>2, WayWords, WayAt
<1>4. /\ Len(s2) = Len(w) + Len(g) + IF u = Absent THEN 0 ELSE 1
      /\ \A n \in 1 .. Len(s2) :
           s2[n] = IF n <= Len(w) THEN w[n] ELSE IF n <= Len(w) + Len(g) THEN g[n - Len(w)] ELSE u
  BY <1>1, WayWords, WayAt
<1>5. Len(s2) + 1 = Len(s)
  BY <1>1, <1>2, <1>3, <1>4
<1> HIDE DEF s, s2
<1>6. ASSUME NEW n \in 1 .. Len(s2), n > Len(w) PROVE s2[n] = s[n + 1]
  <2>1. n + 1 \in 1 .. Len(s) /\ ~(n <= Len(w)) /\ ~(n + 1 <= Len(w)) /\ Len(s2) \in Nat
    BY <1>1, <1>2, <1>4, <1>5, <1>6
  <2>2. s2[n] = IF n <= Len(w) + Len(g) THEN g[n - Len(w)] ELSE u
    BY <1>4, <2>1
  <2>3. s[n + 1] = IF n + 1 <= Len(w) + Len(f) THEN f[n + 1 - Len(w)] ELSE u
    BY <1>3, <2>1
  <2>4. CASE n <= Len(w) + Len(g)
    <3>1. n - Len(w) \in 1 .. Len(f) - 1 /\ n + 1 <= Len(w) + Len(f)
          /\ n - Len(w) + 1 = n + 1 - Len(w)
      BY <1>1, <1>2, <1>6, <2>4
    <3> QED BY <1>1, <2>2, <2>3, <2>4, <3>1
  <2>5. CASE ~(n <= Len(w) + Len(g))
    <3>1. ~(n + 1 <= Len(w) + Len(f))
      BY <1>1, <1>2, <2>5
    <3> QED BY <2>2, <2>3, <2>5, <3>1
  <2> QED BY <2>4, <2>5
<1> QED BY <1>5, <1>6 DEF s, s2, g

\* The lag is told.
LEMMA WayResynced ==
  ASSUME NEW w \in Seq(Word), NEW f \in Seq(Change), NEW u \in Change \union {Absent}
  PROVE  /\ Append(w, Resync) \in Seq(Word) /\ Len(Append(w, Resync)) = Len(w) + 1
         /\ Append(w, Resync)[Len(w) + 1] = Resync
         /\ Len(Way(Append(w, Resync), f, u)) = Len(Way(w, f, u)) + 1
         /\ \A n \in 1 .. Len(Way(Append(w, Resync), f, u)) :
              n > Len(w) + 1 => Way(Append(w, Resync), f, u)[n] = Way(w, f, u)[n - 1]
<1> DEFINE s == Way(w, f, u)
           v == Append(w, Resync)
           s2 == Way(v, f, u)
<1>1. v \in Seq(Word) /\ Len(v) = Len(w) + 1 /\ v[Len(w) + 1] = Resync
  BY DEF Word
<1>2. Len(w) \in Nat /\ Len(f) \in Nat
  OBVIOUS
<1> HIDE DEF v
<1>3. /\ Len(s) = Len(w) + Len(f) + IF u = Absent THEN 0 ELSE 1
      /\ \A n \in 1 .. Len(s) :
           s[n] = IF n <= Len(w) THEN w[n] ELSE IF n <= Len(w) + Len(f) THEN f[n - Len(w)] ELSE u
  BY <1>2, WayWords, WayAt
<1>4. /\ Len(s2) = Len(v) + Len(f) + IF u = Absent THEN 0 ELSE 1
      /\ \A n \in 1 .. Len(s2) :
           s2[n] = IF n <= Len(v) THEN v[n] ELSE IF n <= Len(v) + Len(f) THEN f[n - Len(v)] ELSE u
  BY <1>1, WayWords, WayAt
<1>5. Len(s2) = Len(s) + 1
  BY <1>1, <1>2, <1>3, <1>4
<1> HIDE DEF s, s2
<1>6. ASSUME NEW n \in 1 .. Len(s2), n > Len(w) + 1 PROVE s2[n] = s[n - 1]
  <2>1. n - 1 \in 1 .. Len(s) /\ ~(n <= Len(v)) /\ ~(n - 1 <= Len(w)) /\ Len(s) \in Nat
        /\ (n <= Len(v) + Len(f) <=> n - 1 <= Len(w) + Len(f)) /\ n - 1 - Len(w) = n - Len(v)
    BY <1>1, <1>2, <1>3, <1>5, <1>6
  <2>2. s2[n] = IF n <= Len(v) + Len(f) THEN f[n - Len(v)] ELSE u
    BY <1>4, <2>1
  <2>3. s[n - 1] = IF n - 1 <= Len(w) + Len(f) THEN f[n - 1 - Len(w)] ELSE u
    BY <1>3, <2>1
  <2> QED BY <2>1, <2>2, <2>3
<1> QED BY <1>1, <1>5, <1>6 DEF s, s2, v

\* Only the change not yet sent outlives the stream.
LEMMA WayDropped ==
  ASSUME NEW w \in Seq(Word), NEW f \in Seq(Change), NEW u \in Change \union {Absent}
  PROVE  /\ Way(<<>>, <<>>, u) \in Seq(Word)
         /\ Len(Way(<<>>, <<>>, u)) + (Len(w) + Len(f)) = Len(Way(w, f, u))
         /\ \A n \in 1 .. Len(Way(<<>>, <<>>, u)) :
              Way(<<>>, <<>>, u)[n] = Way(w, f, u)[n + (Len(w) + Len(f))]
<1>1. <<>> \in Seq(Word) /\ <<>> \in Seq(Change) /\ Len(<<>>) = 0
      /\ Len(w) \in Nat /\ Len(f) \in Nat
  OBVIOUS
<1>2. /\ Way(<<>>, <<>>, u) \in Seq(Word)
      /\ Len(Way(<<>>, <<>>, u)) = Len(<<>>) + Len(<<>>) + IF u = Absent THEN 0 ELSE 1
      /\ u # Absent => Way(<<>>, <<>>, u)[Len(<<>>) + Len(<<>>) + 1] = u
  BY <1>1, WayWords
<1>3. /\ Len(Way(<<>>, <<>>, u)) = IF u = Absent THEN 0 ELSE 1
      /\ u # Absent => Way(<<>>, <<>>, u)[1] = u
  BY <1>1, <1>2
<1>4. /\ Len(Way(w, f, u)) = Len(w) + Len(f) + IF u = Absent THEN 0 ELSE 1
      /\ u # Absent => Way(w, f, u)[Len(w) + Len(f) + 1] = u
  BY WayWords
<1>5. CASE u = Absent
  BY <1>1, <1>2, <1>3, <1>4, <1>5
<1>6. CASE u # Absent
  <2>1. \A n \in 1 .. 1 : n = 1
    OBVIOUS
  <2>2. 1 + (Len(w) + Len(f)) = Len(w) + Len(f) + 1
    BY <1>1
  <2> QED BY <1>2, <1>3, <1>4, <1>6, <2>1, <2>2
<1> QED BY <1>5, <1>6

\* A fetch to come comes behind the same words.
LEMMA GapsMove ==
  ASSUME NEW w \in Seq(Word), NEW behind \in BOOLEAN
  PROVE  /\ \A n \in Gaps(w, behind) : n \in Nat /\ n <= Len(w)
         /\ \A n \in 1 .. Len(w) : n \in Gaps(w, TRUE)
         /\ \A n \in 1 .. Len(w) + 1 : n \in Gaps(Append(w, Resync), FALSE)
         /\ \A x \in Word : Gaps(w, FALSE) \subseteq Gaps(Append(w, x), FALSE)
         /\ w # <<>> => \A n \in Nat \ {0} :
                           n + 1 \in Gaps(w, behind) => n \in Gaps(Tail(w), behind)
<1>1. DOMAIN w = 1 .. Len(w) /\ Len(w) \in Nat
  OBVIOUS
<1>2. \A n \in Gaps(w, behind) : n \in Nat /\ n <= Len(w)
  BY <1>1 DEF Gaps
<1>3. \A n \in 1 .. Len(w) : n \in Gaps(w, TRUE)
  BY <1>1 DEF Gaps
<1>4. \A x \in Word : /\ DOMAIN Append(w, x) = 1 .. Len(w) + 1
                      /\ Append(w, x)[Len(w) + 1] = x
                      /\ \A m \in 1 .. Len(w) : Append(w, x)[m] = w[m]
  BY <1>1, AppendProperties
<1>5. \A n \in 1 .. Len(w) + 1 : n \in Gaps(Append(w, Resync), FALSE)
  <2>1. Resync \in Word
    BY DEF Word
  <2> QED BY <1>1, <1>4, <2>1 DEF Gaps
<1>6. \A x \in Word : Gaps(w, FALSE) \subseteq Gaps(Append(w, x), FALSE)
  <2> SUFFICES ASSUME NEW x \in Word, NEW n \in Gaps(w, FALSE)
               PROVE  n \in Gaps(Append(w, x), FALSE)
    OBVIOUS
  <2>1. PICK m \in DOMAIN w : m >= n /\ w[m] = Resync
    BY DEF Gaps
  <2>2. m \in DOMAIN Append(w, x) /\ Append(w, x)[m] = Resync
    BY <1>1, <1>4, <2>1
  <2> QED BY <2>1, <2>2 DEF Gaps
<1>7. ASSUME w # <<>>, NEW n \in Nat \ {0}, n + 1 \in Gaps(w, behind)
      PROVE  n \in Gaps(Tail(w), behind)
  <2>1. /\ DOMAIN Tail(w) = 1 .. Len(w) - 1 /\ Len(Tail(w)) = Len(w) - 1
        /\ \A m \in 1 .. Len(w) - 1 : Tail(w)[m] = w[m + 1]
    BY <1>7
  <2>2. CASE behind /\ n + 1 <= Len(w)
    BY <1>1, <2>1, <2>2 DEF Gaps
  <2>3. CASE \E m \in DOMAIN w : m >= n + 1 /\ w[m] = Resync
    <3>1. PICK m \in DOMAIN w : m >= n + 1 /\ w[m] = Resync
      BY <2>3
    <3>2. m - 1 \in DOMAIN Tail(w) /\ m - 1 >= n /\ m - 1 + 1 = m
      BY <1>1, <2>1, <3>1
    <3>3. Tail(w)[m - 1] = Resync
      BY <2>1, <3>1, <3>2
    <3> QED BY <3>2, <3>3 DEF Gaps
  <2> QED BY <1>7, <2>2, <2>3 DEF Gaps
<1> QED BY <1>2, <1>3, <1>5, <1>6, <1>7

LEMMA UnconnectedKept == TypeOK /\ UnconnectedIsEmpty /\ [Next]_vars => UnconnectedIsEmpty'
BY DEF TypeOK, UnconnectedIsEmpty, Next, vars, server, stream, fetches, page,
       Writes, Publishes, Restarts, GoesQuiet, Subscribes, Streams, Breaks, Disconnected,
       Opens, Dispatches, Answers, Replaces, FetchFails, Rests

LEMMA WordsKept ==
  TypeOK /\ TypeOK' /\ UnconnectedIsEmpty /\ WordsAreTrue /\ [Next]_vars => WordsAreTrue'
<1> DEFINE way == Way(wire, feed, unpublished)
           way2 == Way(wire', feed', unpublished')
<1> SUFFICES ASSUME TypeOK, TypeOK', UnconnectedIsEmpty, WordsAreTrue, [Next]_vars
             PROVE  Sound(way2, Gaps(wire', lagged'), snapshot')
  BY Then DEF Meaning
<1>1. /\ way \in Seq(Word) /\ way2 \in Seq(Word)
      /\ Sound(way, Gaps(wire, lagged), snapshot)
  BY Now, Then DEF Meaning
<1>2. /\ wire \in Seq(Word) /\ feed \in Seq(Change) /\ unpublished \in Change \union {Absent}
      /\ lagged \in BOOLEAN /\ snapshot \in Listing
      /\ wire' \in Seq(Word) /\ feed' \in Seq(Change) /\ lagged' \in BOOLEAN
  BY DEF TypeOK, Word
<1>3. Len(wire) \in Nat /\ Len(feed) \in Nat /\ Len(way) \in Nat /\ Len(way2) \in Nat
  BY <1>1, <1>2
<1>4. /\ \A n \in 1 .. Len(way) : n \in Nat
      /\ \A n \in Gaps(wire, lagged) : n \in Nat /\ n <= Len(wire)
      /\ \A n \in 1 .. Len(wire) : n \in Gaps(wire, TRUE)
      /\ \A n \in 1 .. Len(wire) + 1 : n \in Gaps(Append(wire, Resync), FALSE)
  <2>1. wire \in Seq(Word) /\ lagged \in BOOLEAN
    BY <1>2
  <2>2. \A n \in Gaps(wire, lagged) : n \in Nat /\ n <= Len(wire)
    BY <2>1, GapsMove
  <2>3. \A n \in 1 .. Len(wire) : n \in Gaps(wire, TRUE)
    BY <2>1, GapsMove
  <2>4. \A n \in 1 .. Len(wire) + 1 : n \in Gaps(Append(wire, Resync), FALSE)
    BY <2>1, GapsMove
  <2>5. \A n \in 1 .. Len(way) : n \in Nat
    BY <1>3
  <2> HIDE DEF way
  <2> QED BY <2>2, <2>3, <2>4, <2>5
<1>5. ASSUME UNCHANGED <<snapshot, unpublished, feed, lagged, wire>>
      PROVE  Sound(way2, Gaps(wire', lagged'), snapshot')
  BY <1>1, <1>5
<1>6. CASE Writes
  <2>1. PICK c \in Change : snapshot' = Apply(snapshot, c) /\ unpublished' = c
    BY <1>6 DEF Writes
  <2>2. /\ unpublished = Absent /\ UNCHANGED <<feed, lagged, wire>> /\ c # Absent
    BY <1>6, Words DEF Writes, stream
  <2>3. way2 = Append(way, c)
    <3>1. wire \o feed \in Seq(Word)
      BY <1>2, ConcatProperties DEF Word
    <3>2. wire \o feed \o <<>> = wire \o feed
      BY <3>1, ConcatEmptySeq
    <3>3. c \in Word
      BY DEF Word
    <3>4. Append(wire \o feed, c) = wire \o feed \o <<c>>
      BY <3>1, <3>3, AppendIsConcat
    <3> QED BY <2>1, <2>2, <3>2, <3>4 DEF Way
  <2>4. Sound(Append(way, c), Gaps(wire, lagged), Apply(snapshot, c))
    BY <1>1, <1>2, SoundWritten
  <2> QED BY <2>1, <2>2, <2>3, <2>4
<1>7. CASE Publishes
  <2>1. unpublished \in Change /\ unpublished' = Absent /\ UNCHANGED <<snapshot, wire>>
    BY <1>2, <1>7 DEF Publishes
  <2>2. CASE status = "connecting"
    <3>1. wire' = <<>> /\ feed' = <<>>
      BY <1>7, <2>1, <2>2 DEF Publishes, UnconnectedIsEmpty
    <3>2. Len(way2) = 0
      <4>1. Absent \in Change \union {Absent} /\ Len(<<>>) = 0
        BY <1>2
      <4>2. Len(Way(wire', feed', Absent)) = Len(wire') + Len(feed') + 0
        BY <1>2, <4>1, WayWords
      <4> QED BY <2>1, <3>1, <4>1, <4>2
    <3>3. DOMAIN way2 = {}
      BY <1>1, <3>2
    <3> QED BY <3>3 DEF Sound
  <2>3. CASE status # "connecting" /\ Len(feed) = Capacity
    <3>1. feed # <<>>
      BY <2>3, BoardAssumption
    <3>2. feed' = Append(Tail(feed), unpublished) /\ lagged' = TRUE
      BY <1>7, <2>3 DEF Publishes
    <3>3. Tail(feed) \in Seq(Change)
      BY <1>2, <3>1
    <3>4. way2 = Way(wire, Tail(feed), unpublished)
      BY <1>2, <2>1, <3>2, <3>3, WayPublished
    <3>5. /\ Len(way2) + 1 = Len(way)
          /\ \A n \in 1 .. Len(way2) : n > Len(wire) => way2[n] = way[n + 1]
      BY <1>2, <3>1, <3>4, WayLagged
    <3>6. \A n \in 1 .. Len(way2) : n <= Len(wire) => n \in Gaps(wire', lagged')
      <4>1. \A n \in 1 .. Len(way2) : n <= Len(wire) => n \in 1 .. Len(wire)
        BY <1>3
      <4> HIDE DEF way2
      <4> QED BY <1>4, <2>1, <3>2, <4>1
    <3>7. \A n \in 1 .. Len(way2) : n > Len(wire) /\ n + 1 \in Gaps(wire, lagged)
                                  => n \in Gaps(wire', lagged')
      BY <1>3, <1>4
    <3> HIDE DEF way, way2
    <3>8. Len(wire) + 1 >= 0 /\ 1 \in Int
      BY <1>3
    <3>9. Sound(way2, Gaps(wire', lagged'), snapshot)
      BY <1>1, <1>3, <3>5, <3>6, <3>7, <3>8, Shift
    <3> QED BY <2>1, <3>9
  <2>4. CASE status # "connecting" /\ Len(feed) # Capacity
    <3>1. feed' = Append(feed, unpublished) /\ UNCHANGED lagged
      BY <1>7, <2>4 DEF Publishes
    <3>2. way2 = way
      BY <1>2, <2>1, <3>1, WayPublished
    <3> QED BY <1>1, <2>1, <3>1, <3>2
  <2> QED BY <2>2, <2>3, <2>4
<1>8. CASE Restarts
  <2>1. wire' = <<>> /\ feed' = <<>> /\ unpublished' = Absent
    BY <1>8 DEF Restarts, Disconnected
  <2>2. Len(way2) = 0
    <3>1. Absent \in Change \union {Absent} /\ Len(<<>>) = 0
      BY <1>2
    <3>2. Len(Way(wire', feed', Absent)) = Len(wire') + Len(feed') + 0
      BY <1>2, <3>1, WayWords
    <3> QED BY <2>1, <3>1, <3>2
  <2>3. DOMAIN way2 = {}
    BY <1>1, <2>2
  <2> QED BY <2>3 DEF Sound
<1>9. CASE Streams
  <2>1. UNCHANGED <<snapshot, unpublished>>
    BY <1>9 DEF Streams, server
  <2>2. CASE lagged
    <3>1. wire' = Append(wire, Resync) /\ lagged' = FALSE /\ UNCHANGED feed
      BY <1>9, <2>2 DEF Streams
    <3>2. /\ Len(way2) = Len(way) + 1
          /\ \A n \in 1 .. Len(way2) : n > Len(wire) + 1 => way2[n] = way[n - 1]
      BY <1>2, <2>1, <3>1, WayResynced
    <3>3. \A n \in 1 .. Len(way2) : n <= Len(wire) + 1 => n \in Gaps(wire', lagged')
      <4>1. \A n \in 1 .. Len(way2) : n <= Len(wire) + 1 => n \in 1 .. Len(wire) + 1
        BY <1>3
      <4> HIDE DEF way2
      <4> QED BY <1>4, <3>1, <4>1
    <3>4. \A n \in 1 .. Len(way2) : n > Len(wire) + 1 => ~(n - 1 \in Gaps(wire, lagged))
      BY <1>3, <1>4
    <3> HIDE DEF way, way2
    <3>5. /\ Len(way2) + (0 - 1) = Len(way) /\ Len(wire) + 1 + (0 - 1) >= 0
          /\ 0 - 1 \in Int /\ Len(wire) + 1 \in Nat
      BY <1>3, <3>2
    <3>6. \A n \in 1 .. Len(way2) : n + (0 - 1) = n - 1
      BY <1>3
    <3>7. \A n \in 1 .. Len(way2) : n > Len(wire) + 1 => way2[n] = way[n + (0 - 1)]
      BY <3>2, <3>6
    <3>8. \A n \in 1 .. Len(way2) : n > Len(wire) + 1 /\ n + (0 - 1) \in Gaps(wire, lagged)
                                  => n \in Gaps(wire', lagged')
      BY <3>4, <3>6
    <3>9. Sound(way2, Gaps(wire', lagged'), snapshot)
      BY <1>1, <3>3, <3>5, <3>7, <3>8, Shift
    <3> QED BY <2>1, <3>9
  <2>3. CASE ~lagged
    <3>1. feed # <<>> /\ wire' = Append(wire, Head(feed)) /\ feed' = Tail(feed) /\ UNCHANGED lagged
      BY <1>9, <2>3 DEF Streams
    <3>2. way2 = way
      BY <1>2, <2>1, <3>1, WayStreamed
    <3>3. Head(feed) \in Word /\ lagged = FALSE /\ lagged' = FALSE
      BY <1>2, <2>3, <3>1 DEF Word
    <3>4. Gaps(wire, lagged) \subseteq Gaps(wire', lagged')
      BY <1>2, <3>1, <3>3, GapsMove
    <3> HIDE DEF way, way2
    <3>5. Sound(way2, Gaps(wire', lagged'), snapshot)
      BY <1>1, <3>2, <3>4 DEF Sound
    <3> QED BY <2>1, <3>5
  <2> QED BY <2>2, <2>3
<1>10. CASE Breaks
  <2>1. wire' = <<>> /\ feed' = <<>> /\ UNCHANGED <<snapshot, unpublished>>
    BY <1>10 DEF Breaks, Disconnected, server
  <2>2. /\ Len(way2) + (Len(wire) + Len(feed)) = Len(way)
        /\ \A n \in 1 .. Len(way2) : way2[n] = way[n + (Len(wire) + Len(feed))]
    BY <1>2, <2>1, WayDropped
  <2>3. \A n \in 1 .. Len(way2) : n + (Len(wire) + Len(feed)) \notin Gaps(wire, lagged)
    <3>1. \A n \in 1 .. Len(way2) : ~(n + (Len(wire) + Len(feed)) <= Len(wire))
      BY <1>3
    <3> QED BY <1>4, <3>1
  <2>4. /\ Len(wire) + Len(feed) \in Int /\ 0 + (Len(wire) + Len(feed)) >= 0 /\ 0 \in Nat
        /\ \A n \in 1 .. Len(way2) : ~(n <= 0)
    BY <1>3
  <2> HIDE DEF way, way2
  <2>5. Sound(way2, Gaps(wire', lagged'), snapshot)
    BY <1>1, <2>2, <2>3, <2>4, Shift
  <2> QED BY <2>1, <2>5
<1>11. CASE Dispatches
  <2>1. /\ wire # <<>> /\ wire' = Tail(wire)
        /\ UNCHANGED <<snapshot, unpublished, feed, lagged>>
    BY <1>11 DEF Dispatches, server
  <2>2. /\ Len(way2) + 1 = Len(way)
        /\ \A n \in 1 .. Len(way2) : way2[n] = way[n + 1]
    BY <1>2, <2>1, WayDispatched
  <2>3. \A n \in 1 .. Len(way2) :
          n + 1 \in Gaps(wire, lagged) => n \in Gaps(wire', lagged')
    <3>1. \A n \in 1 .. Len(way2) : n \in Nat \ {0}
      BY <1>3
    <3> QED BY <1>2, <2>1, <3>1, GapsMove
  <2>4. 0 + 1 >= 0 /\ 1 \in Int /\ 0 \in Nat /\ \A n \in 1 .. Len(way2) : ~(n <= 0)
    BY <1>3
  <2> HIDE DEF way, way2
  <2>5. Sound(way2, Gaps(wire', lagged'), snapshot)
    BY <1>1, <2>2, <2>3, <2>4, Shift
  <2> QED BY <2>1, <2>5
<1>12. CASE \/ GoesQuiet \/ Subscribes \/ Opens \/ Answers \/ Replaces
            \/ FetchFails \/ Rests \/ UNCHANGED vars
  <2>1. UNCHANGED <<snapshot, unpublished, feed, lagged, wire>>
    BY <1>12 DEF GoesQuiet, Subscribes, Opens, Answers, Replaces, FetchFails, Rests,
                 vars, server, stream
  <2> QED BY <1>5, <2>1
<1> QED BY <1>6, <1>7, <1>8, <1>9, <1>10, <1>11, <1>12 DEF Next

-----------------------------------------------------------------------------
(* A list with nothing due is made good, and so is the latest answer.      *)

\* What is written is told.
LEMMA GoodWritten ==
  ASSUME NEW s \in Seq(Word), NEW c \in Change, NEW shown, NEW listing \in Listing,
         Good(s, shown, listing)
  PROVE  Good(Append(s, c), shown, Apply(listing, c))
<1> DEFINE s2 == Append(s, c)
<1>1. /\ DOMAIN s2 = 1 .. Len(s) + 1 /\ DOMAIN s = 1 .. Len(s) /\ Len(s) \in Nat
      /\ s2[Len(s) + 1] = c /\ \A n \in 1 .. Len(s) : s2[n] = s[n]
  <2>1. c \in Word
    BY DEF Word
  <2> QED BY <2>1, AppendProperties
<1> HIDE DEF s2
<1>2. ASSUME NEW i \in Id, \A n \in DOMAIN s2 : Omits(s2, n, i)
      PROVE  shown[i] = Apply(listing, c)[i]
  <2>1. c.id # i
    <3>1. Omits(s2, Len(s) + 1, i)
      BY <1>1, <1>2
    <3> QED BY <1>1, <3>1, Words DEF Omits
  <2>2. \A n \in DOMAIN s : Omits(s, n, i)
    BY <1>1, <1>2 DEF Omits
  <2> QED BY <2>1, <2>2, ApplyListing DEF Good
<1> QED BY <1>2 DEF Good, s2

\* What is read is shown, and it is the snapshot's if no other word comes.
LEMMA GoodRead ==
  ASSUME NEW s \in Seq(Word), NEW s2 \in Seq(Word), NEW shown \in Listing, NEW listing,
         NEW gaps, 1 \notin gaps, Sound(s, gaps, listing), Good(s, shown, listing),
         1 \in 1 .. Len(s), s[1] # Resync,
         Len(s2) + 1 = Len(s), \A n \in 1 .. Len(s2) : s2[n] = s[n + 1]
  PROVE  Good(s2, Apply(shown, s[1]), listing)
<1>1. /\ DOMAIN s2 = 1 .. Len(s2) /\ DOMAIN s = 1 .. Len(s) /\ Len(s) \in Nat /\ Len(s2) \in Nat
      /\ s[1] \in Change
  BY DEF Word
<1>2. ASSUME NEW i \in Id, \A n \in DOMAIN s2 : Omits(s2, n, i)
      PROVE  Apply(shown, s[1])[i] = listing[i]
  <2>1. \A m \in DOMAIN s : m > 1 => Omits(s, m, i)
    <3> SUFFICES ASSUME NEW m \in DOMAIN s, m > 1 PROVE Omits(s, m, i)
      OBVIOUS
    <3>1. m - 1 \in DOMAIN s2 /\ m - 1 + 1 = m
      BY <1>1
    <3>2. s2[m - 1] = s[m]
      BY <1>1, <3>1
    <3> QED BY <1>2, <3>1, <3>2 DEF Omits
  <2>2. CASE s[1].id = i
    <3>1. s[1].shows = listing[i]
      BY <1>1, <2>1, <2>2 DEF Sound
    <3> QED BY <1>1, <2>2, <3>1, ApplyListing
  <2>3. CASE s[1].id # i
    <3>1. \A n \in DOMAIN s : Omits(s, n, i)
      <4>1. \A n \in DOMAIN s : n = 1 \/ n > 1
        BY <1>1
      <4>2. Omits(s, 1, i)
        BY <2>3 DEF Omits
      <4> QED BY <2>1, <4>1, <4>2
    <3>2. shown[i] = listing[i]
      BY <3>1 DEF Good
    <3> QED BY <1>1, <2>3, <3>2, ApplyListing
  <2> QED BY <2>2, <2>3
<1> QED BY <1>2 DEF Good

\* No resync on the wire: none is due behind it.
LEMMA NoneDue ==
  ASSUME NEW w \in Seq(Word)
  PROVE  /\ Resync \notin Range(w) => Gaps(w, FALSE) = {}
         /\ \A x \in Word : Resync \notin Range(Append(w, x)) => Resync \notin Range(w) /\ x # Resync
         /\ w # <<>> /\ Resync \notin Range(Tail(w)) /\ Head(w) # Resync => Resync \notin Range(w)
<1>1. DOMAIN w = 1 .. Len(w) /\ Len(w) \in Nat
  OBVIOUS
<1>2. Resync \notin Range(w) => Gaps(w, FALSE) = {}
  BY DEF Range, Gaps
<1>3. \A x \in Word : Resync \notin Range(Append(w, x)) => Resync \notin Range(w) /\ x # Resync
  <2> SUFFICES ASSUME NEW x \in Word, Resync \notin Range(Append(w, x))
               PROVE  Resync \notin Range(w) /\ x # Resync
    OBVIOUS
  <2>1. /\ DOMAIN Append(w, x) = 1 .. Len(w) + 1 /\ Append(w, x)[Len(w) + 1] = x
        /\ \A m \in 1 .. Len(w) : Append(w, x)[m] = w[m]
    BY <1>1, AppendProperties
  <2>2. Len(w) + 1 \in DOMAIN Append(w, x) /\ \A m \in DOMAIN w : m \in DOMAIN Append(w, x)
    BY <1>1, <2>1
  <2> QED BY <1>1, <2>1, <2>2 DEF Range
<1>4. ASSUME w # <<>>, Resync \notin Range(Tail(w)), Head(w) # Resync
      PROVE  Resync \notin Range(w)
  <2>1. /\ DOMAIN Tail(w) = 1 .. Len(w) - 1 /\ Head(w) = w[1]
        /\ \A m \in 1 .. Len(w) - 1 : Tail(w)[m] = w[m + 1]
    BY <1>4
  <2>2. ASSUME NEW m \in DOMAIN w PROVE w[m] # Resync
    <3>1. CASE m = 1
      BY <1>4, <2>1, <3>1
    <3>2. CASE m # 1
      <4>1. m - 1 \in DOMAIN Tail(w) /\ m - 1 + 1 = m
        BY <1>1, <2>1, <3>2
      <4> QED BY <1>4, <2>1, <4>1 DEF Range
    <3> QED BY <3>1, <3>2
  <2> QED BY <2>2 DEF Range
<1> QED BY <1>2, <1>3, <1>4

\* The answer asked for last stays the last one, or what is left is overtaken.
LEMMA LastAfter ==
  ASSUME NEW seq \in Seq(Answer), NEW i \in 1 .. Len(seq),
         RemoveAt(Doubtful(seq, i, "overtaken"), i) # <<>>,
         Last(RemoveAt(Doubtful(seq, i, "overtaken"), i)).doubt = "no"
  PROVE  i < Len(seq) /\ Last(RemoveAt(Doubtful(seq, i, "overtaken"), i)) = Last(seq)
<1> DEFINE d == Doubtful(seq, i, "overtaken")
           r == RemoveAt(d, i)
<1>1. Len(seq) \in Nat /\ i \in Nat /\ "overtaken" \in Doubt /\ "overtaken" # "no"
  BY DEF Doubt
<1>2. /\ d \in Seq(Answer) /\ Len(d) = Len(seq)
      /\ \A j \in 1 .. Len(seq) : j > i => d[j] = seq[j]
      /\ \A j \in 1 .. Len(seq) : j <= i => d[j].doubt # "no"
  BY <1>1, DoubtfulAnswers
<1> HIDE DEF d
<1>3. /\ r \in Seq(Answer) /\ Len(r) = Len(seq) - 1
      /\ i < Len(seq) => r[Len(seq) - 1] = d[Len(seq)]
      /\ i = Len(seq) => \A j \in 1 .. Len(seq) - 1 : r[j] = d[j]
  <2>1. d \in Seq(Answer) /\ i \in 1 .. Len(d)
    BY <1>2
  <2>2. /\ r \in Seq(Answer) /\ Len(r) = Len(d) - 1
        /\ i < Len(d) => r[Len(d) - 1] = d[Len(d)]
        /\ i = Len(d) => \A j \in 1 .. Len(d) - 1 : r[j] = d[j]
    BY <2>1, RemovedAnswer
  <2> QED BY <1>2, <2>2
<1> HIDE DEF r
<1>4. r # <<>> /\ Last(r).doubt = "no" /\ Last(r) = r[Len(seq) - 1]
  BY <1>3 DEF Last, d, r
<1>5. Len(seq) - 1 \in 1 .. Len(seq)
  BY <1>1, <1>3, <1>4
<1>6. i < Len(seq)
  <2> SUFFICES ASSUME i = Len(seq) PROVE FALSE
    BY <1>1
  <2>1. Len(seq) - 1 \in 1 .. Len(seq) - 1 /\ Len(seq) - 1 <= i
    BY <1>1, <1>5
  <2>2. r[Len(seq) - 1] = d[Len(seq) - 1]
    BY <1>3, <2>1
  <2> QED BY <1>2, <1>4, <1>5, <2>1, <2>2
<1>7. Last(r) = seq[Len(seq)]
  <2>1. Last(r) = d[Len(seq)]
    BY <1>3, <1>4, <1>6
  <2>2. Len(seq) \in 1 .. Len(seq) /\ Len(seq) > i
    BY <1>1, <1>6
  <2>3. \A j \in 1 .. Len(seq) : j > i => d[j] = seq[j]
    BY <1>2
  <2>4. d[Len(seq)] = seq[Len(seq)]
    BY <2>2, <2>3
  <2> QED BY <2>1, <2>4
<1> QED BY <1>6, <1>7 DEF Last, r, d

LEMMA RightKept ==
  /\ TypeOK /\ TypeOK' /\ WordsAreTrue /\ ListIsRight /\ AnswerIsRight /\ [Next]_vars
  => ListIsRight' /\ AnswerIsRight'
<1> DEFINE way == Way(wire, feed, unpublished)
           way2 == Way(wire', feed', unpublished')
<1> SUFFICES ASSUME TypeOK, TypeOK', WordsAreTrue, ListIsRight, AnswerIsRight, [Next]_vars,
                    status' = "live", NoFetchDue'
             PROVE  /\ doubt' = "no" /\ answers' = <<>> => Good(way2, alarms', snapshot')
                    /\ answers' # <<>> /\ Last(answers').doubt = "no"
                         => Good(way2, Last(answers').listing, snapshot')
  BY Then DEF Meaning, ListIsRight, AnswerIsRight
<1>1. /\ way \in Seq(Word) /\ way2 \in Seq(Word)
      /\ Sound(way, Gaps(wire, lagged), snapshot)
  BY Now, Then DEF Meaning
<1>2. /\ status = "live" /\ NoFetchDue /\ doubt = "no" /\ answers = <<>> => Good(way, alarms, snapshot)
      /\ status = "live" /\ NoFetchDue /\ answers # <<>> /\ Last(answers).doubt = "no"
           => Good(way, Last(answers).listing, snapshot)
  BY Now DEF Meaning, ListIsRight, AnswerIsRight
<1>3. /\ wire \in Seq(Word) /\ feed \in Seq(Change) /\ unpublished \in Change \union {Absent}
      /\ lagged \in BOOLEAN /\ snapshot \in Listing /\ alarms \in Listing
      /\ answers \in Seq(Answer) /\ asked \in Nat
  BY DEF TypeOK, Word
<1>4. ~lagged' /\ Resync \notin Range(wire') /\ asked' = 0
  BY DEF NoFetchDue
<1> HIDE DEF way, way2
<1>5. ASSUME NoFetchDue, status = "live", way2 = way, UNCHANGED <<snapshot, alarms, doubt, answers>>
      PROVE  /\ doubt' = "no" /\ answers' = <<>> => Good(way2, alarms', snapshot')
             /\ answers' # <<>> /\ Last(answers').doubt = "no"
                  => Good(way2, Last(answers').listing, snapshot')
  BY <1>2, <1>5
<1>6. ASSUME UNCHANGED <<feed, wire, unpublished>> PROVE way2 = way
  BY <1>6 DEF way, way2
<1>7. CASE Writes
  <2>1. PICK c \in Change : snapshot' = Apply(snapshot, c) /\ unpublished' = c
    BY <1>7 DEF Writes
  <2>2. /\ unpublished = Absent
        /\ UNCHANGED <<feed, lagged, wire, status, asked, answers, alarms, doubt>>
    BY <1>7 DEF Writes, stream, fetches, page
  <2>3. way2 = Append(way, c)
    <3>1. wire \o feed \in Seq(Word)
      BY <1>3, ConcatProperties DEF Word
    <3>2. wire \o feed \o <<>> = wire \o feed
      BY <3>1, ConcatEmptySeq
    <3>3. c \in Word /\ c # Absent
      BY Words DEF Word
    <3>4. Append(wire \o feed, c) = wire \o feed \o <<c>>
      BY <3>1, <3>3, AppendIsConcat
    <3> QED BY <2>1, <2>2, <3>2, <3>3, <3>4 DEF Way, way, way2
  <2>4. NoFetchDue /\ status = "live"
    BY <1>4, <2>2 DEF NoFetchDue
  <2>5. ASSUME NEW shown, Good(way, shown, snapshot)
        PROVE  Good(way2, shown, snapshot')
    BY <1>1, <1>3, <2>1, <2>3, <2>5, GoodWritten
  <2> QED BY <1>2, <2>2, <2>4, <2>5
<1>8. CASE Publishes
  <2>1. /\ unpublished \in Change /\ unpublished' = Absent
        /\ UNCHANGED <<snapshot, wire, status, asked, answers, alarms, doubt>>
    BY <1>3, <1>8 DEF Publishes, fetches, page
  <2>2. feed' = Append(feed, unpublished) /\ UNCHANGED lagged
    BY <1>4, <1>8, <2>1 DEF Publishes
  <2>3. way2 = way
    BY <1>3, <2>1, <2>2, WayPublished DEF way, way2
  <2>4. NoFetchDue /\ status = "live"
    BY <1>4, <2>1, <2>2 DEF NoFetchDue
  <2> QED BY <1>5, <2>1, <2>3, <2>4
<1>9. CASE Streams
  <2>1. UNCHANGED <<snapshot, unpublished, status, asked, answers, alarms, doubt>>
    BY <1>9 DEF Streams, server, fetches, page
  <2>2. CASE lagged
    <3>1. wire' = Append(wire, Resync) /\ Resync \in Word
      BY <1>9, <2>2 DEF Streams, Word
    <3> QED BY <1>3, <1>4, <3>1, NoneDue
  <2>3. CASE ~lagged
    <3>1. feed # <<>> /\ wire' = Append(wire, Head(feed)) /\ feed' = Tail(feed) /\ UNCHANGED lagged
      BY <1>9, <2>3 DEF Streams
    <3>2. Head(feed) \in Word
      BY <1>3, <3>1 DEF Word
    <3>3. Resync \notin Range(wire)
      BY <1>3, <1>4, <3>1, <3>2, NoneDue
    <3>4. NoFetchDue /\ status = "live"
      BY <1>4, <2>1, <2>3, <3>3 DEF NoFetchDue
    <3>5. way2 = way
      BY <1>3, <2>1, <3>1, WayStreamed DEF way, way2
    <3> QED BY <1>5, <2>1, <3>4, <3>5
  <2> QED BY <2>2, <2>3
<1>10. CASE Dispatches
  <2>1. /\ wire # <<>> /\ wire' = Tail(wire) /\ status = "live"
        /\ UNCHANGED <<snapshot, unpublished, feed, lagged, doubt>>
    BY <1>10 DEF Dispatches, server
  <2>2. Head(wire) # Resync
    BY <1>3, <1>4, <1>10 DEF Dispatches, Fetch
  <2>3. /\ alarms' = Apply(alarms, Head(wire)) /\ UNCHANGED asked
        /\ answers' = Doubtful(answers, Len(answers), "overtaken")
    BY <1>10, <2>2 DEF Dispatches
  <2>4. NoFetchDue /\ Gaps(wire, lagged) = {}
    <3>1. Resync \notin Range(wire)
      BY <1>3, <1>4, <2>1, <2>2, NoneDue
    <3>2. lagged = FALSE
      BY <1>3, <1>4, <2>1
    <3> QED BY <1>3, <1>4, <2>3, <3>1, <3>2, NoneDue DEF NoFetchDue
  <2>5. /\ Len(way2) + 1 = Len(way) /\ \A n \in 1 .. Len(way2) : way2[n] = way[n + 1]
        /\ way[1] = Head(wire) /\ 1 \in 1 .. Len(way)
    BY <1>3, <2>1, WayDispatched DEF way, way2
  <2>6. /\ Len(answers') = Len(answers) /\ Len(answers) \in Nat
        /\ \A i \in 1 .. Len(answers) : answers'[i].doubt # "no"
    <3>1. "overtaken" \in Doubt /\ "overtaken" # "no" /\ Len(answers) \in Nat
      BY <1>3 DEF Doubt
    <3>2. /\ Len(Doubtful(answers, Len(answers), "overtaken")) = Len(answers)
          /\ \A i \in 1 .. Len(answers) :
               i <= Len(answers) => Doubtful(answers, Len(answers), "overtaken")[i].doubt # "no"
      BY <1>3, <3>1, DoubtfulAnswers
    <3>3. \A i \in 1 .. Len(answers) : i <= Len(answers)
      BY <3>1
    <3> QED BY <2>3, <3>1, <3>2, <3>3
  <2>7. answers' # <<>> => Last(answers').doubt # "no"
    <3> HAVE answers' # <<>>
    <3>1. Len(answers') \in 1 .. Len(answers)
      BY <2>6 DEF TypeOK
    <3> QED BY <2>6, <3>1 DEF Last
  <2>8. ASSUME doubt' = "no", answers' = <<>> PROVE Good(way2, alarms', snapshot')
    <3>1. answers = <<>>
      BY <1>3, <2>6, <2>8
    <3>2. Good(way, alarms, snapshot)
      BY <1>2, <2>1, <2>4, <2>8, <3>1
    <3>3. 1 \notin Gaps(wire, lagged) /\ way[1] # Resync
      BY <2>2, <2>4, <2>5
    <3>4. Good(way2, Apply(alarms, way[1]), snapshot)
      BY <1>1, <1>3, <2>5, <3>2, <3>3, GoodRead
    <3> QED BY <2>1, <2>3, <2>5, <3>4
  <2> QED BY <2>7, <2>8
<1>11. CASE Answers
  <2>1. answers' = Append(answers, [listing |-> snapshot, doubt |-> "no"]) /\ UNCHANGED snapshot
    BY <1>11 DEF Answers, server
  <2>2. /\ answers' # <<>> /\ Len(answers') = Len(answers) + 1
        /\ answers'[Len(answers) + 1] = [listing |-> snapshot, doubt |-> "no"]
    BY <1>3, <2>1
  <2>3. Last(answers').listing = snapshot
    BY <2>2 DEF Last
  <2> QED BY <2>1, <2>2, <2>3 DEF Good
<1>12. CASE Replaces
  <2>1. PICK i \in DOMAIN answers :
          /\ alarms' = answers[i].listing
          /\ doubt' = answers[i].doubt
          /\ answers' = RemoveAt(Doubtful(answers, i, "overtaken"), i)
    BY <1>12 DEF Replaces
  <2>2. UNCHANGED <<snapshot, unpublished, feed, lagged, wire, status, asked>>
    BY <1>12 DEF Replaces, server, stream
  <2>3. /\ NoFetchDue /\ status = "live" /\ way2 = way /\ answers # <<>>
        /\ i \in 1 .. Len(answers) /\ Len(answers) \in Nat
    BY <1>3, <1>4, <1>6, <2>2 DEF NoFetchDue
  <2>4. ASSUME doubt' = "no", answers' = <<>> PROVE Good(way2, alarms', snapshot')
    <3>1. "overtaken" \in Doubt /\ i \in Nat
      BY <2>3 DEF Doubt
    <3>2. /\ Doubtful(answers, i, "overtaken") \in Seq(Answer)
          /\ Len(Doubtful(answers, i, "overtaken")) = Len(answers)
      BY <1>3, <3>1, DoubtfulAnswers
    <3>3. Len(answers') = Len(answers) - 1
      BY <2>1, <2>3, <3>2, RemovedAnswer
    <3>4. Len(answers) = 1 /\ i = 1
      BY <2>3, <2>4, <3>3
    <3>5. Last(answers) = answers[i]
      BY <3>4 DEF Last
    <3> QED BY <1>2, <2>1, <2>2, <2>3, <2>4, <3>5
  <2>5. ASSUME answers' # <<>>, Last(answers').doubt = "no"
        PROVE  Good(way2, Last(answers').listing, snapshot')
    <3>1. Last(answers') = Last(answers)
      BY <1>3, <2>1, <2>3, <2>5, LastAfter
    <3> QED BY <1>2, <2>2, <2>3, <2>5, <3>1
  <2> QED BY <2>4, <2>5
<1>13. CASE FetchFails
  <2>1. doubt' = "failed" /\ answers' = Doubtful(answers, Len(answers), "failed")
    BY <1>13 DEF FetchFails
  <2>2. /\ Len(answers') = Len(answers) /\ Len(answers) \in Nat
        /\ \A i \in 1 .. Len(answers) : answers'[i].doubt # "no"
    <3>1. "failed" \in Doubt /\ "failed" # "no" /\ Len(answers) \in Nat
      BY <1>3 DEF Doubt
    <3>2. /\ Len(Doubtful(answers, Len(answers), "failed")) = Len(answers)
          /\ \A i \in 1 .. Len(answers) :
               i <= Len(answers) => Doubtful(answers, Len(answers), "failed")[i].doubt # "no"
      BY <1>3, <3>1, DoubtfulAnswers
    <3>3. \A i \in 1 .. Len(answers) : i <= Len(answers)
      BY <3>1
    <3> QED BY <2>1, <3>1, <3>2, <3>3
  <2>3. answers' # <<>> => Last(answers').doubt # "no"
    <3> HAVE answers' # <<>>
    <3>1. Len(answers') \in 1 .. Len(answers)
      BY <2>2 DEF TypeOK
    <3> QED BY <2>2, <3>1 DEF Last
  <2> QED BY <2>1, <2>3
<1>14. CASE Restarts \/ Breaks \/ Subscribes
  BY <1>14 DEF Restarts, Breaks, Subscribes, Disconnected
<1>15. CASE Opens
  BY <1>3, <1>4, <1>15 DEF Opens, Fetch
<1>16. CASE GoesQuiet \/ Rests \/ UNCHANGED vars
  <2>1. UNCHANGED <<snapshot, unpublished, feed, lagged, wire, status, asked, answers, alarms, doubt>>
    BY <1>16 DEF GoesQuiet, Rests, vars, server, stream, fetches, page
  <2>2. NoFetchDue /\ status = "live" /\ way2 = way
    BY <1>4, <1>6, <2>1 DEF NoFetchDue
  <2> QED BY <1>5, <2>1, <2>2
<1> QED
  BY <1>7, <1>8, <1>9, <1>10, <1>11, <1>12, <1>13, <1>14, <1>15, <1>16 DEF Next

-----------------------------------------------------------------------------
(* Whatever the list shows wrong is made good.                             *)

LEMMA FirstHolds == Init => IndInv
<1> SUFFICES ASSUME Init PROVE IndInv
  OBVIOUS
<1>1. TypeOK
  <2>1. alarms \in Listing
    BY DEF Init, Listing
  <2>2. <<>> \in Seq(Change) /\ <<>> \in Seq(Change \union {Resync}) /\ <<>> \in Seq(Answer) /\ Len(<<>>) = 0
    OBVIOUS
  <2>3. Capacity \in Nat /\ Wire \in Nat /\ MaxFetches \in Nat
    BY BoardAssumption
  <2>4. feed \in Seq(Change) /\ Len(feed) <= Capacity
    BY <2>2, <2>3 DEF Init
  <2>8. lagged \in BOOLEAN /\ quiet \in BOOLEAN
    BY DEF Init
  <2>5. wire \in Seq(Change \union {Resync}) /\ Len(wire) <= Wire
    BY <2>2, <2>3 DEF Init
  <2>6. asked \in Nat /\ answers \in Seq(Answer) /\ asked + Len(answers) <= MaxFetches
    BY <2>2, <2>3 DEF Init
  <2>7. /\ snapshot \in Listing /\ unpublished \in Change \union {Absent} /\ doubt \in Doubt
        /\ status \in {"connecting", "opening", "live"}
    BY DEF Init, Doubt
  <2> QED BY <2>1, <2>4, <2>5, <2>6, <2>7, <2>8 DEF TypeOK
<1>2. UnconnectedIsEmpty /\ ListIsRight /\ AnswerIsRight
  BY DEF Init, UnconnectedIsEmpty, ListIsRight, AnswerIsRight
<1>3. WordsAreTrue
  <2>1. OnTheWay = <<>>
    <3>1. <<>> \in Seq(Word)
      OBVIOUS
    <3>2. <<>> \o <<>> = <<>>
      BY <3>1, ConcatEmptySeq
    <3> QED BY <3>2 DEF Init, OnTheWay
  <2>2. DOMAIN OnTheWay = {}
    BY <2>1
  <2> QED BY <2>2 DEF WordsAreTrue, About
<1> QED BY <1>1, <1>2, <1>3 DEF IndInv

LEMMA StepKeeps == IndInv /\ [Next]_vars => IndInv'
BY TypeKept, UnconnectedKept, WordsKept, RightKept DEF IndInv

\* With no fetch due the last words are the snapshot's, and an alarm that no
\* word is about is right already.
LEMMA MadeGoodInTheEnd == IndInv => ListIsMadeGood
<1> SUFFICES ASSUME IndInv, status = "live", doubt = "no", NoFetchDue, answers = <<>>,
                    NEW i \in Id
             PROVE  LastWord(i, snapshot[i])
  BY DEF IndInv, ListIsMadeGood, NoFetchDue, TypeOK
<1>1. CASE About(i) = {}
  BY <1>1 DEF IndInv, ListIsRight, MadeGood, LastWord
<1>2. ASSUME NEW n \in About(i), \A m \in About(i) : m <= n
      PROVE  OnTheWay[n].shows = snapshot[i]
  <2>1. ~Gap(n)
    BY DEF NoFetchDue, Gap, Range
  <2> QED BY <1>2, <2>1 DEF IndInv, WordsAreTrue
<1> QED BY <1>1, <1>2 DEF LastWord

\* A live board whose list is not known to be doubtful is made good by what is
\* on the way, for every capacity of the broadcast, of the wire and of fetches:
\* lag, breaks, restarts and answers out of order included (sse_body_stream,
\* resync, upsert, remove).
THEOREM ListHolds == Spec => []ListIsMadeGood
<1>1. Init => IndInv
  BY FirstHolds
<1>2. IndInv /\ [Next]_vars => IndInv'
  BY StepKeeps
<1>3. IndInv => ListIsMadeGood
  BY MadeGoodInTheEnd
<1> QED BY <1>1, <1>2, <1>3, PTL DEF Spec
=============================================================================
