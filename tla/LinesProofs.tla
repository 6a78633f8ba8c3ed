----------------------------- MODULE LinesProofs -----------------------------
(***************************************************************************)
(* The bundle that is written parses and masks the corpus once and for     *)
(* all, whatever is proposed; a frame bears the day its device wrote, for  *)
(* any calendar, and is split where its header ends if it bears one; and   *)
(* every record of an export keeps its own context, for any request.       *)
(***************************************************************************)
EXTENDS Lines, WellFoundedInduction, SequenceTheorems, FiniteSetTheorems, TLAPS

-----------------------------------------------------------------------------
(* Sequences.                                                              *)

\* The front of a sequence, cut anywhere.
LEMMA Cut ==
  ASSUME NEW S, NEW s \in Seq(S), NEW k \in 0 .. Len(s)
  PROVE  /\ SubSeq(s, 1, k) \in Seq(S) /\ Len(SubSeq(s, 1, k)) = k
         /\ \A i \in 1 .. k : SubSeq(s, 1, k)[i] = s[i]
<1>1. Len(s) \in Nat /\ k \in Int /\ 1 \in Int /\ \A i \in 1 .. k : s[i] \in S
  BY ElementOfSeq, LenProperties
<1> QED BY <1>1, SubSeqProperties

\* A member of two sequences in a row is of the first or of the second.
LEMMA Both ==
  ASSUME NEW S, NEW s \in Seq(S), NEW t \in Seq(S)
  PROVE  /\ s \o t \in Seq(S) /\ Len(s \o t) = Len(s) + Len(t) /\ Len(s) \in Nat /\ Len(t) \in Nat
         /\ \A i \in 1 .. Len(s \o t) :
              \/ i <= Len(s) /\ i \in 1 .. Len(s) /\ (s \o t)[i] = s[i]
              \/ i > Len(s) /\ i - Len(s) \in 1 .. Len(t) /\ (s \o t)[i] = t[i - Len(s)]
<1>1. /\ s \o t \in Seq(S) /\ Len(s \o t) = Len(s) + Len(t)
      /\ \A i \in 1 .. Len(s) + Len(t) :
           (s \o t)[i] = IF i <= Len(s) THEN s[i] ELSE t[i - Len(s)]
  BY ConcatProperties
<1>2. Len(s) \in Nat /\ Len(t) \in Nat
  BY LenProperties
<1> DEFINE r == s \o t
<1> HIDE DEF r
<1>3. \A i \in 1 .. Len(s) + Len(t) :
        \/ i <= Len(s) /\ i \in 1 .. Len(s) /\ r[i] = s[i]
        \/ i > Len(s) /\ i - Len(s) \in 1 .. Len(t) /\ r[i] = t[i - Len(s)]
  BY <1>1, <1>2 DEF r
<1> QED BY <1>1, <1>2, <1>3 DEF r

-----------------------------------------------------------------------------
(* The bundle.                                                             *)

MarkedSlots == {Marked(slot) : slot \in Proposals}
AllSlots == (UNION {Range(slots) : slots \in Starting}) \union MarkedSlots

LEMMA StartingIs ==
  ASSUME NEW slots \in Starting
  PROVE  /\ slots \in Seq(AllSlots) /\ slots # <<>> /\ Len(slots) \in Nat \ {0}
         /\ Range(slots) \subseteq AllSlots /\ Parses(ToToml(slots))
<1>1. slots \in Seq(Range(slots)) /\ Parses(ToToml(slots))
  BY SynthesisAssumption
<1>2. Range(slots) \subseteq AllSlots
  BY DEF AllSlots
<1>3. slots \in Seq(AllSlots)
  BY <1>1, <1>2, LenProperties, ElementOfSeq, SeqDef
<1>4. slots # <<>>
  BY <1>1 DEF Parses, ToToml
<1>5. Len(slots) \in Nat \ {0}
  BY <1>3, <1>4, EmptySeq, LenProperties
<1> QED BY <1>1, <1>2, <1>3, <1>4, <1>5

\* With nothing to put in, a bundle is its slots.
LEMMA NothingCombined ==
  ASSUME NEW slots \in Starting
  PROVE  Combined(slots, <<>>) = slots
<1>1. slots \in Seq(AllSlots) /\ slots # <<>> /\ Len(slots) \in Nat \ {0}
  BY StartingIs
<1> DEFINE n == Len(slots)
           front == SubSeq(slots, 1, n - 1)
<1>2. front \in Seq(AllSlots) /\ Len(front) = n - 1 /\ \A i \in 1 .. n - 1 : front[i] = slots[i]
  <2>1. n - 1 \in 0 .. n
    BY <1>1
  <2> QED BY <1>1, <2>1, Cut
<1>3. Combined(slots, <<>>) = Append(front, slots[n])
  <2>1. front \o <<>> = front
    BY <1>2
  <2>2. front \o <<slots[n]>> = Append(front, slots[n])
    BY <1>1, <1>2
  <2> QED BY <2>1, <2>2 DEF Combined, Front, Last
<1>4. slots[n] \in AllSlots
  BY <1>1
<1> HIDE DEF front
<1>5. /\ Append(front, slots[n]) \in Seq(AllSlots) /\ Len(Append(front, slots[n])) = n
      /\ \A i \in 1 .. n : Append(front, slots[n])[i] = slots[i]
  BY <1>1, <1>2, <1>4, AppendProperties
<1>6. Append(front, slots[n]) = slots
  BY <1>1, <1>5, SeqEqual
<1> QED BY <1>3, <1>6

\* What is put in goes between the front and the last.
LEMMA CombinedIs ==
  ASSUME NEW slots \in Starting, NEW more \in Seq(MarkedSlots)
  PROVE  LET all == Combined(slots, more)
         IN  /\ IsPrefix(Front(slots), all) /\ Last(all) = Last(slots)
             /\ \A slot \in Range(all) \ Range(slots) : slot \in MarkedSlots
<1> DEFINE S == AllSlots
           M == MarkedSlots
           n == Len(slots)
           front == SubSeq(slots, 1, n - 1)
           all == Combined(slots, more)
<1>1. slots \in Seq(S) /\ slots # <<>> /\ n \in Nat \ {0}
  BY StartingIs
<1>2. front \in Seq(S) /\ Len(front) = n - 1 /\ \A i \in 1 .. n - 1 : front[i] = slots[i]
  <2>1. n - 1 \in 0 .. n
    BY <1>1
  <2> HIDE DEF S
  <2> QED BY <1>1, <2>1, Cut
<1>3. M \subseteq S
  BY DEF AllSlots
<1>4. more \in Seq(S) /\ Len(more) \in Nat /\ \A i \in 1 .. Len(more) : more[i] \in M
  <2> HIDE DEF M, S
  <2> QED BY <1>3, LenProperties, ElementOfSeq, SeqDef DEF M
<1>5. all = (front \o more) \o <<slots[n]>>
  BY DEF Combined, Front, Last
<1>6. slots[n] \in S /\ <<slots[n]>> \in Seq(S) /\ Len(<<slots[n]>>) = 1 /\ <<slots[n]>>[1] = slots[n]
  BY <1>1
<1> DEFINE both == front \o more
<1> HIDE DEF front, S, M, all
<1>7. /\ both \in Seq(S) /\ Len(both) = n - 1 + Len(more) /\ Len(both) \in Nat
      /\ \A i \in 1 .. Len(both) :
           \/ i <= n - 1 /\ both[i] = slots[i]
           \/ i > n - 1 /\ i - (n - 1) \in 1 .. Len(more) /\ both[i] = more[i - (n - 1)]
  <2> HIDE DEF n
  <2>1. /\ both \in Seq(S) /\ Len(both) = Len(front) + Len(more) /\ Len(front) \in Nat /\ Len(more) \in Nat
        /\ \A i \in 1 .. Len(both) :
             \/ i <= Len(front) /\ i \in 1 .. Len(front) /\ both[i] = front[i]
             \/ i > Len(front) /\ i - Len(front) \in 1 .. Len(more) /\ both[i] = more[i - Len(front)]
    BY <1>2, <1>4, Both DEF both
  <2> QED BY <2>1, <1>2
<1> HIDE DEF both, n
<1>8. /\ all \in Seq(S) /\ Len(all) = n + Len(more) /\ Len(all) = Len(both) + 1
      /\ \A i \in 1 .. Len(all) :
           \/ i <= Len(both) /\ i \in 1 .. Len(both) /\ all[i] = both[i]
           \/ i = Len(both) + 1 /\ all[i] = slots[n]
  <2> DEFINE tail == <<slots[n]>>
  <2>1. tail \in Seq(S) /\ Len(tail) = 1 /\ tail[1] = slots[n]
    BY <1>6
  <2> HIDE DEF tail
  <2>2. all = both \o tail
    BY <1>5 DEF both, tail
  <2>3. /\ all \in Seq(S) /\ Len(all) = Len(both) + Len(tail)
        /\ \A i \in 1 .. Len(all) :
             \/ i <= Len(both) /\ i \in 1 .. Len(both) /\ all[i] = both[i]
             \/ i > Len(both) /\ i - Len(both) \in 1 .. Len(tail) /\ all[i] = tail[i - Len(both)]
    <3>1. both \in Seq(S)
      BY <1>7
    <3> QED BY ONLY <3>1, <2>1, <2>2, Both
  <2>4. \A i \in 1 .. Len(all) : i - Len(both) \in 1 .. 1 => i = Len(both) + 1 /\ i - Len(both) = 1
    BY <1>7, <2>1, <2>3
  <2> QED BY <1>1, <1>4, <1>7, <2>1, <2>3, <2>4
<1>9. \A i \in 1 .. Len(all) :
        \/ i <= n - 1 /\ all[i] = slots[i]
        \/ i - (n - 1) \in 1 .. Len(more) /\ all[i] = more[i - (n - 1)]
        \/ i = Len(all) /\ all[i] = slots[n]
  BY <1>7, <1>8
<1>10. IsPrefix(Front(slots), all)
  <2>1. Len(all) \in Nat /\ n - 1 \in 0 .. Len(all) /\ n - 1 <= Len(all)
    BY <1>1, <1>4, <1>8
  <2> DEFINE p == SubSeq(front, 1, n - 1)
             q == SubSeq(all, 1, n - 1)
  <2>2. p \in Seq(S) /\ Len(p) = n - 1 /\ \A i \in 1 .. n - 1 : p[i] = front[i]
    <3>1. n - 1 \in 0 .. Len(front)
      BY <1>1, <1>2
    <3> QED BY <1>2, <3>1, Cut
  <2>3. q \in Seq(S) /\ Len(q) = n - 1 /\ \A i \in 1 .. n - 1 : q[i] = all[i]
    BY <1>8, <2>1, Cut
  <2> HIDE DEF p, q
  <2>4. \A i \in 1 .. n - 1 : all[i] = slots[i]
    <3>1. \A i \in 1 .. n - 1 : i \in 1 .. Len(both) /\ i \in 1 .. Len(all) /\ ~(i > n - 1) /\ ~(i = Len(both) + 1)
      BY <1>1, <1>4, <1>7, <1>8
    <3> QED BY <3>1, <1>7, <1>8
  <2>5. p = q
    BY <2>2, <2>3, <2>4, <1>2, SeqEqual
  <2> QED BY <2>1, <2>5, <1>2 DEF IsPrefix, Front, front, n, p, q
<1>11. Last(all) = Last(slots)
  <2>1. Len(all) \in 1 .. Len(all) /\ Len(all) = n + Len(more) /\ ~(Len(all) <= Len(both))
    BY <1>1, <1>4, <1>7, <1>8
  <2> QED BY <2>1, <1>8 DEF Last, n
<1>12. \A slot \in Range(all) \ Range(slots) : slot \in M
  <2> SUFFICES ASSUME NEW slot \in Range(all), slot \notin Range(slots) PROVE slot \in M
    OBVIOUS
  <2>1. PICK i \in 1 .. Len(all) : slot = all[i]
    BY <1>8 DEF Range
  <2>2. \A j \in 1 .. n : slots[j] \in Range(slots)
    BY <1>1 DEF Range, n
  <2>3. n \in 1 .. n /\ (i <= n - 1 => i \in 1 .. n)
    BY <1>1
  <2> QED BY <2>1, <2>2, <2>3, <1>4, <1>9
<1> QED BY <1>10, <1>11, <1>12 DEF all, M

\* What the command has in hand at each of its steps.
BundleInv ==
  /\ starting \in Starting
  /\ proposed \in Seq(Proposals) /\ accepted \in Seq(MarkedSlots)
  /\ Merges(starting, accepted)
  /\ command \in {"asking", "weighing", "mending", "checking", "written", "failed", "serving"}
  /\ command = "mending" => proposed # <<>>
  /\ command = "asking" => accepted = <<>>
  /\ command \in {"checking", "written", "serving"} =>
       \/ accepted = <<>>
       \/ \A line \in Range(corpus) : ~Unstable(Combined(starting, accepted), line)
  /\ out = IF command \in {"written", "serving"} THEN <<ToToml(Combined(starting, accepted))>> ELSE <<>>

LEMMA NothingMerges ==
  ASSUME NEW slots \in Starting
  PROVE  Merges(slots, <<>>)
BY NothingCombined, StartingIs DEF Merges

LEMMA SynthesisStarts == SynthesisInit => BundleInv
<1> SUFFICES ASSUME SynthesisInit PROVE BundleInv
  OBVIOUS
<1>1. /\ starting \in Starting /\ command = "asking"
      /\ proposed = <<>> /\ accepted = <<>> /\ out = <<>>
  BY DEF SynthesisInit
<1>2. <<>> \in Seq(Proposals) /\ <<>> \in Seq(MarkedSlots)
  BY EmptySeq
<1>3. Merges(starting, accepted)
  BY <1>1, NothingMerges
<1> QED BY <1>1, <1>2, <1>3 DEF BundleInv

\* A slot is taken when the bundle parses with it.
LEMMA OneMoreMerges ==
  ASSUME BundleInv, NEW slot \in Proposals, proposed # <<>>,
         Merges(starting, Append(accepted, Marked(slot))),
         accepted' = Append(accepted, Marked(slot)), proposed' = Tail(proposed),
         command \in {"weighing", "mending"}, command' = "weighing",
         UNCHANGED <<starting, corpus, out>>
  PROVE  BundleInv'
<1>1. proposed' \in Seq(Proposals)
  <2>1. proposed \in Seq(Proposals)
    BY DEF BundleInv
  <2> QED BY <2>1, HeadTailProperties
<1>2. accepted' \in Seq(MarkedSlots)
  <2>1. accepted \in Seq(MarkedSlots) /\ Marked(slot) \in MarkedSlots
    BY DEF BundleInv, MarkedSlots
  <2> QED BY <2>1, AppendProperties
<1>3. Merges(starting, accepted)'
  <2>1. Merges(starting', accepted')
    OBVIOUS
  <2> QED BY <2>1 DEF Merges, Parses, ToToml, Combined
<1>4. out' = <<>> /\ starting' \in Starting
  BY DEF BundleInv
<1> QED BY <1>1, <1>2, <1>3, <1>4 DEF BundleInv

LEMMA SynthesisKeeps == BundleInv /\ SynthesisNext => BundleInv'
<1> SUFFICES ASSUME BundleInv, SynthesisNext PROVE BundleInv'
  OBVIOUS
<1>1. CASE FindsNothing
  BY <1>1 DEF FindsNothing, Ends, BundleInv, Merges, Combined, Parses, ToToml
<1>2. CASE Asks
  <2>1. proposed' \in Seq(Proposals)
    <3>1. PICK m \in 0 .. MaxProposals : proposed' \in [1 .. m -> Proposals]
      BY <1>2 DEF Asks, BoundedSeq, SeqOf
    <3>2. m \in Nat
      OBVIOUS
    <3> QED BY <3>1, <3>2, SeqDef
  <2> QED BY <1>2, <2>1 DEF Asks, Ends, BundleInv, Merges, Combined, Parses, ToToml
<1>3. CASE AskFails
  BY <1>3 DEF AskFails, Ends, BundleInv, Merges, Combined, Parses, ToToml
<1>4. CASE Weighs
  <2>1. Head(proposed) \in Proposals
    <3>1. proposed \in Seq(Proposals) /\ proposed # <<>>
      BY <1>4 DEF Weighs, BundleInv
    <3> QED BY <3>1, HeadTailProperties
  <2>2. CASE Merges(starting, Append(accepted, Marked(Head(proposed))))
    BY <1>4, <2>1, <2>2, OneMoreMerges DEF Weighs
  <2>3. CASE ~Merges(starting, Append(accepted, Marked(Head(proposed))))
    BY <1>4, <2>3 DEF Weighs, Ends, BundleInv, Merges, Combined, Parses, ToToml
  <2> QED BY <2>2, <2>3
<1>5. ASSUME NEW slot \in Proposals, Mends(slot) PROVE BundleInv'
  BY <1>5, OneMoreMerges DEF Mends, Ends, BundleInv
<1>6. CASE Drops
  <2>1. proposed' \in Seq(Proposals)
    <3>1. proposed \in Seq(Proposals) /\ proposed # <<>> /\ proposed' = Tail(proposed)
      BY <1>6 DEF Drops, BundleInv
    <3> QED BY <3>1, HeadTailProperties
  <2> QED BY <1>6, <2>1 DEF Drops, Ends, BundleInv, Merges, Combined, Parses, ToToml
<1>7. CASE Checks
  <2> DEFINE Breaks == accepted # <<>> /\ \E line \in Range(corpus) : Unstable(Combined(starting, accepted), line)
  <2>1. CASE Breaks
    <3>1. accepted' = <<>> /\ starting' = starting /\ starting \in Starting
      BY <1>7, <2>1 DEF Checks, BundleInv
    <3>2. Merges(starting, accepted)'
      <4>1. Merges(starting', accepted')
        BY <3>1, NothingMerges
      <4> QED BY <4>1 DEF Merges, Parses, ToToml, Combined
    <3>3. accepted' \in Seq(MarkedSlots)
      BY <3>1, EmptySeq
    <3> QED BY <1>7, <3>1, <3>2, <3>3 DEF Checks, Ends, BundleInv
  <2>2. CASE ~Breaks
    <3>1. /\ command' = "checking" /\ starting' = starting /\ corpus' = corpus /\ out' = out
          /\ proposed' = proposed /\ accepted' = accepted /\ command = "weighing"
      BY <1>7, <2>2 DEF Checks, Ends
    <3>2. Merges(starting, accepted)'
      BY <3>1 DEF BundleInv, Merges, Combined, Parses, ToToml
    <3>3. accepted = <<>> \/ \A line \in Range(corpus) : ~Unstable(Combined(starting, accepted), line)
      BY <2>2
    <3>4. (accepted = <<>> \/ \A line \in Range(corpus) : ~Unstable(Combined(starting, accepted), line))'
      BY <3>1, <3>3
    <3> QED BY <3>1, <3>2, <3>4 DEF BundleInv
  <2> QED BY <2>1, <2>2
<1>8. CASE Writes
  BY <1>8 DEF Writes, Ends, BundleInv, Merges, Combined, Parses, ToToml
<1>9. CASE WriteFails
  BY <1>9 DEF WriteFails, Ends, BundleInv, Merges, Combined, Parses, ToToml
<1>10. CASE DaemonLoads
  <2>1. Parses(out[1])
    BY <1>10 DEF DaemonLoads, BundleInv, Merges
  <2> QED BY <1>10, <2>1 DEF DaemonLoads, Ends, BundleInv, Merges, Combined, Parses, ToToml
<1> QED BY <1>1, <1>2, <1>3, <1>4, <1>5, <1>6, <1>7, <1>8, <1>9, <1>10 DEF SynthesisNext

LEMMA BundleSteps == BundleInv /\ [Next]_vars => BundleInv'
<1> SUFFICES ASSUME BundleInv, [Next]_vars PROVE BundleInv'
  OBVIOUS
<1>1. CASE UNCHANGED synthesis
  BY <1>1 DEF synthesis, BundleInv
<1>2. CASE SynthesisNext
  BY <1>2, SynthesisKeeps
<1> QED BY <1>1, <1>2 DEF Next, FrameArrives, GarbledArrives, RequestArrives, EntryArrives, vars

\* What is in hand and what is written always parses, whatever was proposed.
THEOREM BundleInvariant == Spec => []BundleInv
<1>1. Init => BundleInv
  BY SynthesisStarts DEF Init
<1> QED BY <1>1, BundleSteps, PTL DEF Spec

\* The slots accepted merge with the starting bundle at every step of the
\* command: the `expect' at its end (run) never fires.
THEOREM AcceptedMerge == Spec => []Merges(starting, accepted)
<1>1. BundleInv => Merges(starting, accepted)
  BY DEF BundleInv
<1> QED BY <1>1, BundleInvariant, PTL

LEMMA MarkedSaysWhy == \A slot \in MarkedSlots : slot.why = "synthesized"
<1> SUFFICES ASSUME NEW slot \in Proposals PROVE Marked(slot).why = "synthesized"
  BY DEF MarkedSlots
<1>1. "why" \in DOMAIN slot
  BY SynthesisAssumption
<1> QED BY <1>1 DEF Marked

\* The daemon loads what is written; it keeps the slots it started from, in
\* order and the most general last, and with a slot more it masks every line of
\* the corpus once and for all.
THEOREM BundleHolds == Spec => []WrittenBundleIsSound
<1>1. BundleInv => WrittenBundleIsSound
  <2> SUFFICES ASSUME BundleInv, out # <<>>
               PROVE  LET slots == out[1].slots
                      IN  /\ IsPrefix(Front(starting), slots) /\ Last(slots) = Last(starting)
                          /\ slots # starting => \A line \in Range(corpus) : ~Unstable(slots, line)
                          /\ \A slot \in Range(slots) \ Range(starting) : slot.why = "synthesized"
    BY DEF BundleInv, WrittenBundleIsSound
  <2> DEFINE slots == Combined(starting, accepted)
  <2>1. /\ out[1].slots = slots /\ starting \in Starting /\ accepted \in Seq(MarkedSlots)
        /\ accepted = <<>> \/ \A line \in Range(corpus) : ~Unstable(slots, line)
    BY DEF BundleInv, ToToml
  <2>2. /\ IsPrefix(Front(starting), slots) /\ Last(slots) = Last(starting)
        /\ \A slot \in Range(slots) \ Range(starting) : slot \in MarkedSlots
    BY <2>1, CombinedIs
  <2>3. accepted = <<>> => slots = starting
    BY <2>1, NothingCombined
  <2> HIDE DEF slots
  <2> QED BY <2>1, <2>2, <2>3, MarkedSaysWhy
<1> QED BY <1>1, BundleInvariant, PTL

-----------------------------------------------------------------------------
(* The calendar.                                                           *)

\* A year without its leap day, and the leap day it may have.
YearDays == Months * MonthDays
LeapDay(year) == IF Leap(year) THEN 1 ELSE 0

LEMMA YearDaysIs ==
  /\ Months \in Nat /\ MonthDays \in Nat /\ Months >= 2 /\ MonthDays >= 2
  /\ YearDays \in Nat /\ YearDays >= 2 * MonthDays
<1>1. Months \in Nat /\ MonthDays \in Nat /\ Months >= 2 /\ MonthDays >= 2
  BY CalendarAssumption
<1>2. Months * MonthDays \in Nat /\ Months * MonthDays >= 2 * MonthDays
  BY <1>1
<1> QED BY <1>1, <1>2 DEF YearDays

\* The next year starts a year later, and a day when there is one more.
LEMMA NextYear ==
  ASSUME NEW year \in Int
  PROVE  YearStart(year) \in Int /\ YearStart(year + 1) = YearStart(year) + YearDays + LeapDay(year)
<1>1. Months \in Int /\ MonthDays \in Int
  BY YearDaysIs
<1>2. (year + 1 + 3) \div 4 = (year + 3) \div 4 + LeapDay(year) /\ (year + 3) \div 4 \in Int
  BY DEF LeapDay, Leap
<1>3. (year + 1) * Months * MonthDays = year * Months * MonthDays + Months * MonthDays
  BY <1>1
<1>4. year * Months * MonthDays \in Int /\ Months * MonthDays \in Int /\ LeapDay(year) \in Int
  BY <1>1 DEF LeapDay
<1>5. /\ YearStart(year) = year * Months * MonthDays + (year + 3) \div 4
      /\ YearStart(year + 1) = (year + 1) * Months * MonthDays + (year + 1 + 3) \div 4
  BY DEF YearStart
<1> DEFINE p == year * Months * MonthDays
           q == (year + 3) \div 4
           m == Months * MonthDays
<1>6. YearStart(year) = p + q /\ YearStart(year + 1) = (p + m) + (q + LeapDay(year))
  BY <1>2, <1>3, <1>5
<1>7. p \in Int /\ q \in Int /\ m \in Int /\ YearDays = m
  BY <1>2, <1>4 DEF YearDays
<1> HIDE DEF p, q, m
<1> QED BY <1>4, <1>6, <1>7

\* Years start in order, a year apart at least.
LEMMA YearsApart ==
  ASSUME NEW y \in Int, NEW z \in Int, y < z
  PROVE  /\ YearStart(y) \in Int /\ YearStart(z) \in Int
         /\ YearStart(z) >= YearStart(y) + YearDays + LeapDay(y)
         /\ z - y >= 2 => YearStart(z) >= YearStart(y) + YearDays + LeapDay(y) + YearDays
<1>1. Months \in Nat /\ MonthDays \in Nat /\ YearDays \in Nat
  BY YearDaysIs
<1> DEFINE a == y + 1
<1>2. (a + 3) \div 4 \in Int /\ (z + 3) \div 4 \in Int /\ (a + 3) \div 4 <= (z + 3) \div 4
  OBVIOUS
<1>3. PICK d \in Nat : z = a + d /\ (z - y >= 2 => d >= 1)
  BY z - a \in Nat
<1>4. z * Months * MonthDays = a * Months * MonthDays + d * (Months * MonthDays)
  BY <1>1, <1>3
<1>5. d * (Months * MonthDays) >= 0 /\ (d >= 1 => d * (Months * MonthDays) >= Months * MonthDays)
  BY <1>1
<1>6. YearStart(z) >= YearStart(a) /\ (z - y >= 2 => YearStart(z) >= YearStart(a) + YearDays)
  <2>1. a * Months * MonthDays \in Int /\ Months * MonthDays \in Int /\ d * (Months * MonthDays) \in Int
    BY <1>1
  <2> HIDE DEF a
  <2> QED BY <1>2, <1>3, <1>4, <1>5, <2>1 DEF YearStart, YearDays
<1>7. YearStart(a) = YearStart(y) + YearDays + LeapDay(y) /\ YearStart(y) \in Int
  BY NextYear
<1>8. YearStart(z) \in Int /\ LeapDay(y) \in Int
  BY NextYear DEF LeapDay
<1> HIDE DEF a
<1> QED BY <1>1, <1>6, <1>7, <1>8

LEMMA LeastNumber ==
  ASSUME NEW S, S \subseteq Nat, S # {}
  PROVE  \E x \in S : \A y \in S : x <= y
<1> DEFINE R == OpToRel(<, Nat)
<1>1. IsWellFoundedOn(R, Nat)
  BY NatLessThanWellFounded
<1>2. PICK x \in S : \A y \in S : ~(<<y, x>> \in R)
  <2> HIDE DEF R
  <2> QED BY <1>1, WFMin
<1>3. \A y \in S : ~(y < x)
  BY <1>2 DEF OpToRel
<1> QED BY <1>3

\* A day the calendar has.
Known == YearStart(0) + 1 .. YearStart(LastYear + 1)

\* Its year is the one that started last before it.
LEMMA YearOfIs ==
  ASSUME NEW day \in Known
  PROVE  /\ YearOf(day) \in Int
         /\ YearStart(YearOf(day)) < day /\ day <= YearStart(YearOf(day) + 1)
<1> DEFINE Later == {n \in Nat : day <= YearStart(n)}
<1>1. LastYear \in Nat \ {0} /\ day \in Int /\ YearStart(0) \in Int /\ YearStart(LastYear + 1) \in Int
  BY CalendarAssumption, NextYear DEF Known
<1>2. YearStart(0) < day /\ day <= YearStart(LastYear + 1)
  BY <1>1 DEF Known
<1>3. LastYear + 1 \in Later /\ Later \subseteq Nat
  BY <1>1, <1>2
<1>4. PICK n \in Later : \A m \in Later : n <= m
  <2> HIDE DEF Later
  <2> QED BY <1>3, LeastNumber
<1>5. n # 0 /\ n <= LastYear + 1 /\ n \in Nat
  BY <1>1, <1>2, <1>3, <1>4
<1>6. n - 1 \in Year /\ n - 1 \in Nat /\ n - 1 + 1 = n
  BY <1>1, <1>5 DEF Year
<1>7. n - 1 \notin Later
  BY <1>4, <1>5
<1>8. ~(day <= YearStart(n - 1)) /\ YearStart(n - 1) \in Int
  BY <1>6, <1>7, NextYear
<1>9. YearStart(n - 1) < day /\ day <= YearStart(n - 1 + 1)
  BY <1>1, <1>4, <1>6, <1>8
<1>10. \E year \in Year : YearStart(year) < day /\ day <= YearStart(year + 1)
  BY <1>6, <1>9
<1>11. YearOf(day) \in Year /\ YearStart(YearOf(day)) < day /\ day <= YearStart(YearOf(day) + 1)
  BY <1>10 DEF YearOf
<1> QED BY <1>1, <1>11 DEF Year

DateSet == [month : 1 .. Months, day : 1 .. MonthDays + 1]

\* Every day has a date in its year.
LEMMA DateIs ==
  ASSUME NEW day \in Known
  PROVE  /\ DateOf(day) \in DateSet
         /\ IsDate(YearOf(day), DateOf(day)) /\ Day(YearOf(day), DateOf(day)) = day
<1> DEFINE year == YearOf(day)
           start == YearStart(year)
           leap == LeapDay(year)
           r == day - start
           M == Months
           D == MonthDays
<1>1. /\ year \in Int /\ start \in Int /\ day \in Int /\ leap \in {0, 1}
      /\ start < day /\ day <= start + YearDays + leap
  <2>1. year \in Int /\ start < day /\ day <= YearStart(year + 1)
    BY YearOfIs
  <2>2. YearStart(year + 1) = start + YearDays + leap /\ start \in Int
    BY <2>1, NextYear
  <2>3. day \in Int /\ leap \in {0, 1}
    BY DEF Known, LeapDay
  <2> QED BY <2>1, <2>2, <2>3
<1>2. r \in Int /\ r >= 1 /\ r <= M * D + leap /\ day = start + r
  BY <1>1, YearDaysIs DEF YearDays
<1>3. M \in Nat /\ D \in Nat /\ M >= 2 /\ D >= 2
  BY YearDaysIs
<1>4. \A m \in 1 .. M, d \in 1 .. D + 1 :
        /\ [month |-> m, day |-> d] \in DateSet
        /\ IsDate(year, [month |-> m, day |-> d]) <=> d <= D + (IF m = 2 THEN leap ELSE 0)
        /\ Day(year, [month |-> m, day |-> d]) = start + (m - 1) * D + d + (IF m > 2 THEN leap ELSE 0)
  <2> SUFFICES ASSUME NEW m \in 1 .. M, NEW d \in 1 .. D + 1
               PROVE  /\ [month |-> m, day |-> d] \in DateSet
                      /\ IsDate(year, [month |-> m, day |-> d]) <=> d <= D + (IF m = 2 THEN leap ELSE 0)
                      /\ Day(year, [month |-> m, day |-> d]) = start + (m - 1) * D + d + (IF m > 2 THEN leap ELSE 0)
    OBVIOUS
  <2> DEFINE date == [month |-> m, day |-> d]
  <2>1. date \in DateSet /\ date.month = m /\ date.day = d
    BY DEF DateSet
  <2> HIDE DEF date, year
  <2>2. IsDate(year, date) <=> d <= D + (IF m = 2 THEN leap ELSE 0)
    BY <2>1, <1>3 DEF IsDate, DaysIn, LeapDay
  <2>3. Day(year, date) = start + (m - 1) * D + d + (IF m > 2 THEN leap ELSE 0)
    BY <2>1 DEF Day, LeapDay
  <2> QED BY <2>1, <2>2, <2>3 DEF date
<1> HIDE DEF start, leap, r, M, D, year
<1>5. \E m \in 1 .. M, d \in 1 .. D + 1 :
        /\ d <= D + (IF m = 2 THEN leap ELSE 0)
        /\ (m - 1) * D + d + (IF m > 2 THEN leap ELSE 0) = r
  <2>1. CASE r <= D
    <3>1. 1 \in 1 .. M /\ r \in 1 .. D + 1 /\ (1 - 1) * D + r + 0 = r
      BY <2>1, <1>2, <1>3
    <3> QED BY <3>1, <2>1, <1>1, <1>3
  <2>2. CASE D < r /\ r <= 2 * D + leap
    <3>1. 2 \in 1 .. M /\ r - D \in 1 .. D + 1 /\ (2 - 1) * D + (r - D) + 0 = r /\ r - D <= D + leap
      BY <2>2, <1>1, <1>2, <1>3
    <3> QED BY <3>1, <1>3
  <2>3. CASE 2 * D + leap < r
    <3> DEFINE q == r - leap
               Full == {n \in Nat : q <= n * D}
    <3>1. q \in Nat /\ M \in Full /\ 2 * D < q
      BY <2>3, <1>1, <1>2, <1>3
    <3> HIDE DEF q
    <3>2. PICK m \in Full : \A n \in Full : m <= n
      <4>1. Full \subseteq Nat /\ Full # {}
        BY <3>1
      <4> HIDE DEF Full
      <4> QED BY <4>1, LeastNumber
    <3>3. m \in Nat /\ m <= M /\ q <= m * D
      BY <3>1, <3>2
    <3>4. m > 2
      <4>1. m \in {0, 1, 2} => m * D <= 2 * D
        BY <1>3
      <4> QED BY <4>1, <3>1, <3>3, <1>3
    <3>5. (m - 1) * D < q
      <4>1. m - 1 \in Nat /\ m - 1 \notin Full
        BY <3>2, <3>3, <3>4
      <4>2. (m - 1) * D \in Int
        BY <4>1, <1>3
      <4> QED BY <4>1, <4>2, <3>1
    <3>6. m * D = (m - 1) * D + D
      BY <3>3, <1>3
    <3> DEFINE e == (m - 1) * D
    <3>7. e \in Int /\ e < q /\ q <= e + D
      BY <3>3, <3>5, <3>6, <1>3
    <3> HIDE DEF e
    <3>8. q - e \in 1 .. D + 1 /\ q - e <= D /\ e + (q - e) + leap = r
      BY <3>1, <3>7, <1>1, <1>2, <1>3 DEF q
    <3>9. m \in 1 .. M /\ m # 2
      BY <3>3, <3>4, <1>3
    <3> QED BY <3>4, <3>8, <3>9, <1>3 DEF e
  <2> QED BY <2>1, <2>2, <2>3, <1>1, <1>2, <1>3
<1>6. PICK m \in 1 .. M, d \in 1 .. D + 1 :
        /\ d <= D + (IF m = 2 THEN leap ELSE 0)
        /\ (m - 1) * D + d + (IF m > 2 THEN leap ELSE 0) = r
  BY <1>5
<1> DEFINE date == [month |-> m, day |-> d]
<1>7. date \in DateSet /\ IsDate(year, date) /\ Day(year, date) = day
  <2>1. /\ date \in DateSet
        /\ IsDate(year, date) <=> d <= D + (IF m = 2 THEN leap ELSE 0)
        /\ Day(year, date) = start + (m - 1) * D + d + (IF m > 2 THEN leap ELSE 0)
    BY <1>4
  <2> DEFINE e == (m - 1) * D
  <2>2. e \in Int
    BY <1>3
  <2> HIDE DEF e, date
  <2>3. start + e + d + (IF m > 2 THEN leap ELSE 0) = start + (e + d + (IF m > 2 THEN leap ELSE 0))
    BY <2>2, <1>1, <1>3
  <2> QED BY <2>1, <2>3, <1>2, <1>6 DEF e
<1>8. \E one \in DateSet : IsDate(year, one) /\ Day(year, one) = day
  BY <1>7
<1> QED BY <1>8 DEF DateOf, DateSet, year

\* One date falls a year apart at least in two years.
LEMMA DatesApart ==
  ASSUME NEW date \in DateSet, NEW y \in Int, NEW z \in Int, y < z
  PROVE  /\ Day(y, date) \in Int /\ Day(z, date) \in Int
         /\ Day(z, date) >= Day(y, date) + YearDays
<1> DEFINE within == (date.month - 1) * MonthDays + date.day
           late == date.month > 2
<1>1. within \in Int /\ YearDays \in Int
  <2>1. date.month \in Int /\ date.day \in Int /\ MonthDays \in Int /\ YearDays \in Int
    BY YearDaysIs DEF DateSet
  <2> QED BY <2>1
<1>2. /\ YearStart(y) \in Int /\ YearStart(z) \in Int
      /\ YearStart(z) >= YearStart(y) + YearDays + LeapDay(y)
  BY YearsApart
<1>3. \A year \in {y, z} :
        Day(year, date) = YearStart(year) + within + (IF late THEN LeapDay(year) ELSE 0)
  <2> SUFFICES ASSUME NEW year \in {y, z}
               PROVE  Day(year, date) = YearStart(year) + within + (IF late THEN LeapDay(year) ELSE 0)
    OBVIOUS
  <2> DEFINE e == (date.month - 1) * MonthDays
  <2>1. e \in Int /\ date.day \in Int /\ YearStart(year) \in Int
    <3>1. date.month \in Int /\ date.day \in Int /\ MonthDays \in Int
      BY YearDaysIs DEF DateSet
    <3> QED BY <3>1, <1>2
  <2>2. Day(year, date) = YearStart(year) + e + date.day + (IF late THEN LeapDay(year) ELSE 0)
    BY DEF Day, LeapDay
  <2>3. within = e + date.day
    OBVIOUS
  <2> HIDE DEF e, late, within
  <2>4. (IF late THEN LeapDay(year) ELSE 0) \in Int
    BY DEF LeapDay
  <2> QED BY <2>1, <2>2, <2>3, <2>4
<1>4. LeapDay(y) \in {0, 1} /\ LeapDay(z) \in {0, 1}
  BY DEF LeapDay
<1> HIDE DEF within, late
<1> QED BY <1>1, <1>2, <1>3, <1>4

\* A frame under half a year away falls in the year of the intake or next to it.
LEMMA YearIsNear ==
  ASSUME NEW sent \in Known, NEW received \in Known, InTransit(sent, received)
  PROVE  YearOf(sent) \in YearOf(received) - 1 .. YearOf(received) + 1
<1> DEFINE y == YearOf(sent)
           here == YearOf(received)
<1>1. /\ y \in Int /\ YearStart(y) < sent /\ sent <= YearStart(y + 1)
      /\ here \in Int /\ YearStart(here) < received /\ received <= YearStart(here + 1)
  BY YearOfIs
<1>2. sent \in Int /\ received \in Int /\ YearDays \in Nat
  BY YearDaysIs DEF Known
<1>3. 2 * (received - sent) < YearDays /\ 2 * (sent - received) < YearDays
  BY <1>2 DEF InTransit, Apart, YearDays
<1> HIDE DEF y, here
<1>4. ASSUME y + 1 < here PROVE FALSE
  <2>1. YearStart(here) >= YearStart(y + 1) + YearDays + LeapDay(y + 1)
        /\ YearStart(here) \in Int /\ YearStart(y + 1) \in Int
    BY <1>1, <1>4, YearsApart
  <2>2. LeapDay(y + 1) \in {0, 1}
    BY DEF LeapDay
  <2> QED BY <2>1, <2>2, <1>1, <1>2, <1>3
<1>5. ASSUME here + 1 < y PROVE FALSE
  <2>1. YearStart(y) >= YearStart(here + 1) + YearDays + LeapDay(here + 1)
        /\ YearStart(y) \in Int /\ YearStart(here + 1) \in Int
    BY <1>1, <1>5, YearsApart
  <2>2. LeapDay(here + 1) \in {0, 1}
    BY DEF LeapDay
  <2> QED BY <2>1, <2>2, <1>1, <1>2, <1>3
<1> QED BY <1>1, <1>4, <1>5 DEF y, here

\* The nearest year is the year it was sent: its day in any other is further off.
LEMMA YearIsResolved ==
  ASSUME NEW sent \in Known, NEW received \in Known, InTransit(sent, received)
  PROVE  ResolveYear(received, DateOf(sent)) = YearOf(sent)
<1> DEFINE y == YearOf(sent)
           here == YearOf(received)
           date == DateOf(sent)
           candidates == {year \in here - 1 .. here + 1 : IsDate(year, date)}
           Off(year) == Apart(Day(year, date), received)
           closest == {year \in candidates : \A other \in candidates : Off(year) <= Off(other)}
<1>1. date \in DateSet /\ IsDate(y, date) /\ Day(y, date) = sent
  BY DateIs
<1>2. y \in Int /\ here \in Int /\ y \in here - 1 .. here + 1
  BY YearOfIs, YearIsNear
<1>3. sent \in Int /\ received \in Int /\ YearDays \in Nat
  BY YearDaysIs DEF Known
<1>4. 2 * (received - sent) < YearDays /\ 2 * (sent - received) < YearDays
  BY <1>3 DEF InTransit, Apart, YearDays
<1>5. y \in candidates
  BY <1>1, <1>2
<1>6. ASSUME NEW year \in candidates, year # y PROVE Off(y) < Off(year) /\ Off(y) \in Int /\ Off(year) \in Int
  <2>1. year \in Int
    BY <1>2
  <2> HIDE DEF date, y, here
  <2>2. /\ Day(year, date) \in Int
        /\ Day(year, date) >= sent + YearDays \/ sent >= Day(year, date) + YearDays
    <3>1. CASE year < y
      BY <3>1, <2>1, <1>1, <1>2, DatesApart
    <3>2. CASE y < year
      BY <3>2, <2>1, <1>1, <1>2, DatesApart
    <3> QED BY <3>1, <3>2, <2>1, <1>2, <1>6
  <2> QED BY <2>2, <1>1, <1>3, <1>4 DEF Apart
<1>7. Off(y) \in Int
  BY <1>1, <1>3 DEF Apart
<1> HIDE DEF Off, candidates, y, here, date
<1>8. closest = {y}
  BY <1>5, <1>6, <1>7
<1>9. ResolveYear(received, date) =
        IF candidates = {} THEN here
        ELSE CHOOSE year \in closest : \A other \in closest : year <= other
  BY DEF ResolveYear, Off, candidates, here
<1>10. y <= y
  BY <1>2
<1> HIDE DEF closest
<1>11. \A year \in closest : year = y
  BY <1>8
<1>12. (CHOOSE year \in closest : \A other \in closest : year <= other) = y
  <2>1. \E year \in closest : \A other \in closest : year <= other
    BY <1>8, <1>10
  <2> QED BY <2>1, <1>11
<1> QED BY <1>5, <1>9, <1>12 DEF y, date

-----------------------------------------------------------------------------
(* Frames.                                                                 *)

LEMMA Wider ==
  ASSUME NEW S, NEW T, S \subseteq T, NEW s \in Seq(S)
  PROVE  s \in Seq(T)
BY LenProperties, ElementOfSeq, SeqDef

\* What follows a sequence, cut off where it ends.
LEMMA CutOff ==
  ASSUME NEW S, NEW s \in Seq(S), NEW t \in Seq(S)
  PROVE  /\ Len(s) \in Nat /\ Len(s) <= Len(s \o t)
         /\ SubSeq(s \o t, Len(s) + 1, Len(s \o t)) = t
<1> DEFINE r == s \o t
           n == Len(s)
           cut == SubSeq(r, n + 1, Len(r))
<1>1. /\ r \in Seq(S) /\ Len(r) = n + Len(t) /\ n \in Nat /\ Len(t) \in Nat
      /\ \A i \in 1 .. Len(r) :
           \/ i <= n /\ i \in 1 .. n /\ r[i] = s[i]
           \/ i > n /\ i - n \in 1 .. Len(t) /\ r[i] = t[i - n]
  BY Both
<1>2. \A i \in 1 .. Len(t) : r[n + i] = t[i]
  <2> SUFFICES ASSUME NEW i \in 1 .. Len(t) PROVE r[n + i] = t[i]
    OBVIOUS
  <2>1. n + i \in 1 .. Len(r) /\ ~(n + i <= n) /\ (n + i) - n = i
    BY <1>1
  <2> HIDE DEF r
  <2> QED BY <2>1, <1>1
<1> HIDE DEF r, n
<1>3. \A i \in n + 1 .. Len(r) : r[i] \in S
  <2>1. \A i \in n + 1 .. Len(r) : i \in 1 .. Len(r)
    BY <1>1
  <2> QED BY <2>1, <1>1, ElementOfSeq
<1>4. /\ cut \in Seq(S) /\ Len(cut) = Len(t)
      /\ \A i \in 1 .. Len(t) : cut[i] = r[n + i]
  <2>1. n + 1 \in Int /\ Len(r) \in Int
    BY <1>1
  <2>2. /\ cut \in Seq(S)
        /\ Len(cut) = IF n + 1 <= Len(r) THEN Len(r) - (n + 1) + 1 ELSE 0
        /\ \A i \in 1 .. Len(r) - (n + 1) + 1 : cut[i] = r[n + 1 + i - 1]
    BY <1>1, <1>3, <2>1, SubSeqProperties
  <2>3. (IF n + 1 <= Len(r) THEN Len(r) - (n + 1) + 1 ELSE 0) = Len(t) /\ Len(r) - (n + 1) + 1 = Len(t)
        /\ \A i \in 1 .. Len(t) : n + 1 + i - 1 = n + i
    BY <1>1
  <2> HIDE DEF cut
  <2> QED BY <2>2, <2>3
<1> HIDE DEF cut
<1>5. cut = t
  BY <1>2, <1>4, SeqEqual
<1> QED BY <1>1, <1>5 DEF r, n, cut

LEMMA HeaderIs ==
  ASSUME NEW stamp, NEW host \in Names
  PROVE  \E S : Header(stamp, host) \in Seq(S)
<1> DEFINE pri == <<Word("pri")>>
           time == IF stamp = None THEN <<>> ELSE <<Word("stamp")>>
           rest == IF host = None THEN <<>> ELSE host
           S == Range(host) \union {Word("pri"), Word("stamp")}
<1>1. pri \in Seq(S) /\ time \in Seq(S)
  <2>1. <<Word("pri")>> \in Seq(S) /\ <<Word("stamp")>> \in Seq(S) /\ <<>> \in Seq(S)
    OBVIOUS
  <2> HIDE DEF S
  <2> QED BY <2>1
<1>2. rest \in Seq(S)
  <2>1. CASE host = None
    BY <2>1, EmptySeq
  <2>2. CASE host # None
    <3>1. host \in Seq(Range(host))
      BY <2>2, LinesAssumption DEF IsList
    <3>2. Range(host) \subseteq S
      OBVIOUS
    <3> HIDE DEF S
    <3>3. host \in Seq(S)
      BY <3>1, <3>2, Wider
    <3> QED BY <2>2, <3>3
  <2> QED BY <2>1, <2>2
<1> HIDE DEF S, pri, time, rest
<1>3. pri \o time \o rest \in Seq(S)
  BY <1>1, <1>2, ConcatProperties
<1>4. Header(stamp, host) = pri \o time \o rest
  BY DEF Header, pri, time, rest
<1> QED BY <1>3, <1>4

\* A frame's text is a sequence of words.
LEMMA FrameIsWords ==
  ASSUME NEW stamp, NEW host \in Names, NEW app \in App, NEW message, IsList(message)
  PROVE  \E S : Header(stamp, host) \in Seq(S) /\ app \in Seq(S) /\ message \in Seq(S)
<1> DEFINE header == Header(stamp, host)
<1>1. message \in Seq(Range(message))
  BY DEF IsList
<1>2. PICK H : header \in Seq(H)
  BY HeaderIs
<1> DEFINE S == H \union {Word("sshd")} \union Range(message)
<1>3. H \subseteq S /\ Range(message) \subseteq S /\ Word("sshd") \in S
  OBVIOUS
<1> HIDE DEF S, header
<1>4. app \in Seq(S)
  <2>1. CASE app = <<>>
    BY <2>1, EmptySeq
  <2>2. CASE app = <<Word("sshd")>>
    <3> DEFINE sshd == Word("sshd")
    <3>1. sshd \in S
      BY <1>3
    <3> HIDE DEF sshd
    <3>2. <<sshd>> \in Seq(S)
      BY <3>1
    <3> QED BY <2>2, <3>2 DEF sshd
  <2> QED BY <2>1, <2>2 DEF App
<1>5. header \in Seq(S) /\ message \in Seq(S)
  BY <1>1, <1>2, <1>3, Wider
<1> QED BY <1>4, <1>5 DEF header

LEMMA FrameIsRead ==
  ASSUME NEW sent \in Sent, NEW zone \in Zones, NEW delay \in Delays,
         NEW stamp \in {None, "dated", "yearless"}, NEW host \in Names, NEW app \in App,
         NEW message, message \in Seq(Range(message)), NEW peer \in Peer,
         NEW hostname, stamp # None => hostname = host
  PROVE  LET frame == Frame(stamp, sent, zone, host, hostname, app, message)
         IN  FrameReadRight(frame, FrameToEvent(frame, peer, sent + delay), sent + delay)
<1> DEFINE frame == Frame(stamp, sent, zone, host, hostname, app, message)
           received == sent + delay
           wrote == sent + zone
           event == FrameToEvent(frame, peer, received)
           header == Header(stamp, host)
           rest == app \o message
           raw == header \o app \o message
<1>1. /\ frame.parses /\ frame.stamp = stamp /\ frame.sent = sent /\ frame.wrote = wrote
      /\ frame.host = host /\ frame.hostname = hostname
      /\ frame.raw = raw
      /\ frame.appAt = (IF app = <<>> THEN None ELSE Len(header))
      /\ frame.msgAt = Len(header) + Len(app)
  BY DEF Frame
<1> HIDE DEF frame
<1>2. /\ event.raw = raw /\ event.timestamp = FrameTime(frame, received)
      /\ event.host = Resolve(hostname, PeerIp(peer))
      /\ event.offset = BodyOffset(frame, event.timestamp)
  BY <1>1 DEF FrameToEvent
<1> HIDE DEF event
<1>3. PeerIp(peer) = peerIp
  BY DEF PeerIp, Peer, peerIp
<1>4. header = Header(stamp, host) /\ raw = header \o app \o message /\ rest = app \o message
  OBVIOUS
<1> HIDE DEF header, rest, raw, received, wrote
<1>5. /\ raw = header \o rest /\ Len(raw) \in Nat /\ SubSeq(raw, 1, Len(raw)) = raw
      /\ Len(header) \in Nat /\ Len(header) <= Len(raw) /\ SubSeq(raw, Len(header) + 1, Len(raw)) = rest
  <2>1. IsList(message)
    BY DEF IsList
  <2>2. PICK S : Header(stamp, host) \in Seq(S) /\ app \in Seq(S) /\ message \in Seq(S)
    BY <2>1, FrameIsWords
  <2>3. header \in Seq(S) /\ app \in Seq(S) /\ message \in Seq(S)
    BY <1>4, <2>2
  <2>4. raw = header \o rest
    BY <1>4, <2>3, ConcatAssociative
  <2>5. rest \in Seq(S)
    BY <1>4, <2>3, ConcatProperties
  <2>6. raw \in Seq(S)
    BY <2>3, <2>4, <2>5, ConcatProperties
  <2>7. /\ Len(header) \in Nat /\ Len(header) <= Len(header \o rest)
        /\ SubSeq(header \o rest, Len(header) + 1, Len(header \o rest)) = rest
    BY <2>3, <2>5, CutOff
  <2>8. Len(raw) \in Nat /\ SubSeq(raw, 1, Len(raw)) = raw
    BY <2>6, LenProperties, SubSeqFull
  <2> QED BY <2>4, <2>7, <2>8
<1>6. ASSUME event.timestamp # None PROVE event.offset = Len(header)
  <2>1. CASE app = <<>>
    <3>1. Len(app) = 0
      BY <2>1
    <3> QED BY <2>1, <3>1, <1>1, <1>2, <1>5, <1>6 DEF BodyOffset
  <2>2. CASE app # <<>>
    <3>1. Len(header) # None
      BY <1>5, LinesAssumption
    <3> QED BY <2>2, <3>1, <1>1, <1>2, <1>6 DEF BodyOffset
  <2> QED BY <2>1, <2>2
<1>7. ASSUME event.timestamp # None PROVE Header(frame.stamp, frame.host) \o Body(event) = frame.raw
  <2>1. Body(event) = rest
    BY <1>2, <1>5, <1>6, <1>7 DEF Body
  <2>2. Header(frame.stamp, frame.host) = header
    BY <1>1 DEF header
  <2> QED BY <2>1, <2>2, <1>1, <1>5
<1>8. ASSUME event.timestamp = None PROVE Body(event) = frame.raw
  <2>1. event.offset = 0
    BY <1>2, <1>8 DEF BodyOffset
  <2> QED BY <2>1, <1>1, <1>2, <1>5 DEF Body
<1>9. ASSUME stamp = "yearless" => InTransit(wrote, received) PROVE event.timestamp = Claim(frame)
  <2>1. CASE stamp = None
    <3>1. frame.stamp = None /\ frame.stamp \notin {"dated", "yearless"}
      BY <2>1, <1>1, LinesAssumption
    <3>2. FrameTime(frame, received) = None /\ Claim(frame) = None
      BY <3>1 DEF FrameTime, Claim
    <3> QED BY <3>2, <1>2
  <2>2. CASE stamp = "dated"
    <3>1. frame.stamp = "dated" /\ frame.stamp # None
      BY <2>2, <1>1, LinesAssumption
    <3>2. FrameTime(frame, received) = sent /\ Claim(frame) = sent
      BY <3>1, <1>1 DEF FrameTime, Claim
    <3> QED BY <3>2, <1>2
  <2>3. CASE stamp = "yearless"
    <3>5. frame.stamp = "yearless" /\ frame.stamp # None
      BY <2>3, <1>1, LinesAssumption
    <3>1. wrote \in Known /\ received \in Known
      BY LinesAssumption DEF Known, wrote, received
    <3>2. ResolveYear(received, DateOf(wrote)) = YearOf(wrote)
      BY <3>1, <2>3, <1>9, YearIsResolved
    <3>3. IsDate(YearOf(wrote), DateOf(wrote)) /\ Day(YearOf(wrote), DateOf(wrote)) = wrote
      BY <3>1, DateIs
    <3>4. FrameTime(frame, received) = wrote - Zone /\ Claim(frame) = wrote - Zone
      BY <3>2, <3>3, <3>5, <1>1 DEF FrameTime, Claim
    <3> QED BY <3>4, <1>2
  <2> QED BY <2>1, <2>2, <2>3
<1>10. stamp # None => event.host = Resolve(frame.host, peerIp)
  BY <1>1, <1>2, <1>3
<1> QED BY <1>1, <1>2, <1>7, <1>8, <1>9, <1>10 DEF FrameReadRight, frame, event, received, wrote

LEMMA GarbledIsRead ==
  ASSUME NEW day, NEW message, message \in Seq(Range(message)), NEW peer \in Peer
  PROVE  FrameReadRight(Garbled(message), FrameToEvent(Garbled(message), peer, day), day)
<1> DEFINE event == FrameToEvent(Garbled(message), peer, day)
<1>1. ~Garbled(message).parses /\ Garbled(message).raw = message
  BY DEF Garbled
<1>2. event.raw = message /\ event.host = PeerIp(peer) /\ event.offset = 0
  BY <1>1 DEF FrameToEvent, Failed
<1>3. PeerIp(peer) = peerIp
  BY DEF PeerIp, Peer, peerIp
<1>4. Body(event) = message
  <2>1. Len(message) \in Nat /\ SubSeq(message, 1, Len(message)) = message
    BY LenProperties, SubSeqFull
  <2> HIDE DEF event
  <2> QED BY <2>1, <1>2 DEF Body
<1> QED BY <1>1, <1>2, <1>3, <1>4 DEF FrameReadRight

\* A line of the corpus is a text.
LinesRead == \A line \in Range(corpus) : IsList(line)

LEMMA LinesStayRead == Spec => []LinesRead
<1>1. Init => LinesRead
  BY LinesAssumption DEF Init, SynthesisInit, LinesRead
<1>2. LinesRead /\ [Next]_vars => LinesRead'
  <2> SUFFICES ASSUME LinesRead, [Next]_vars PROVE LinesRead'
    OBVIOUS
  <2>1. corpus' = corpus
    BY DEF Next, vars, synthesis, SynthesisNext, FindsNothing, Asks, AskFails, Weighs, Mends, Drops, Checks,
           Writes, WriteFails, DaemonLoads, FrameArrives, GarbledArrives, RequestArrives, EntryArrives
  <2> QED BY <2>1 DEF LinesRead
<1> QED BY <1>1, <1>2, PTL DEF Spec

\* Of EventsAreTrue the frames: one with a year bears the moment it was sent, one
\* without the day its device wrote, taken for a day of the daemon's zone, when
\* that day is under half a year from the intake's, across New Year and leap
\* days of any calendar.  The header is cut off the frames that are dated and of
\* no other, and a stamp brings the host the device wrote (frame_to_event,
\* resolve_year, body_offset).
THEOREM FramesHold == Spec => []FramesAreReadRight
<1>1. Init => FramesAreReadRight
  BY DEF Init, FramesAreReadRight
<1>2. ASSUME LinesRead, FramesAreReadRight, [Next]_vars PROVE FramesAreReadRight'
  <2>1. CASE FrameArrives
    <3>1. PICK sent \in Sent, zone \in Zones, delay \in Delays, stamp \in {None, "dated", "yearless"},
               host \in Names, app \in App, message \in Range(corpus), peer \in Peer :
            \E hostname \in Hostnames(stamp, host, (IF host = None THEN <<>> ELSE host) \o app \o message) :
              LET frame == Frame(stamp, sent, zone, host, hostname, app, message)
              IN  /\ given' = [kind |-> "frame", frame |-> frame, received |-> sent + delay]
                  /\ events' = <<FrameToEvent(frame, peer, sent + delay)>>
      BY <2>1 DEF FrameArrives
    <3> DEFINE text == (IF host = None THEN <<>> ELSE host) \o app \o message
    <3> HIDE DEF text
    <3>6. PICK hostname \in Hostnames(stamp, host, text) :
            LET frame == Frame(stamp, sent, zone, host, hostname, app, message)
            IN  /\ given' = [kind |-> "frame", frame |-> frame, received |-> sent + delay]
                /\ events' = <<FrameToEvent(frame, peer, sent + delay)>>
      BY <3>1 DEF text
    <3>7. stamp # None => hostname = host
      BY DEF Hostnames
    <3> DEFINE frame == Frame(stamp, sent, zone, host, hostname, app, message)
               event == FrameToEvent(frame, peer, sent + delay)
    <3>2. message \in Seq(Range(message))
      BY <1>2 DEF LinesRead, IsList
    <3>3. FrameReadRight(frame, event, sent + delay)
      BY <3>2, <3>7, FrameIsRead
    <3>4. given'.frame = frame /\ given'.received = sent + delay /\ events'[1] = event
      <4> HIDE DEF event
      <4>1. events' = <<event>>
        BY <3>6 DEF event
      <4> QED BY <3>6, <4>1
    <3> HIDE DEF frame, event
    <3>5. FrameReadRight(given'.frame, events'[1], given'.received)
      BY <3>3, <3>4
    <3> QED BY <3>5 DEF FramesAreReadRight
  <2>2. CASE GarbledArrives
    <3>1. PICK day \in Sent, message \in Range(corpus), peer \in Peer :
            /\ given' = [kind |-> "frame", frame |-> Garbled(message), received |-> day]
            /\ events' = <<FrameToEvent(Garbled(message), peer, day)>>
      BY <2>2 DEF GarbledArrives
    <3> DEFINE frame == Garbled(message)
               event == FrameToEvent(frame, peer, day)
    <3>2. message \in Seq(Range(message))
      BY <1>2 DEF LinesRead, IsList
    <3>3. FrameReadRight(frame, event, day)
      BY <3>2, GarbledIsRead
    <3>4. given'.frame = frame /\ given'.received = day /\ events'[1] = event
      <4> HIDE DEF event
      <4>1. events' = <<event>>
        BY <3>1 DEF event
      <4> QED BY <3>1, <4>1
    <3> HIDE DEF frame, event
    <3>5. FrameReadRight(given'.frame, events'[1], given'.received)
      BY <3>3, <3>4
    <3> QED BY <3>5 DEF FramesAreReadRight
  <2>3. CASE RequestArrives
    <3>1. given'.kind = "request"
      BY <2>3 DEF RequestArrives
    <3> QED BY <3>1 DEF FramesAreReadRight
  <2>4. CASE EntryArrives
    <3>1. given'.kind = "entry"
      BY <2>4 DEF EntryArrives
    <3> QED BY <3>1 DEF FramesAreReadRight
  <2>5. CASE UNCHANGED <<given, events>>
    BY <2>5, <1>2 DEF FramesAreReadRight
  <2> QED BY <1>2, <2>1, <2>2, <2>3, <2>4, <2>5 DEF Next, vars
<1> QED BY <1>1, <1>2, LinesStayRead, PTL DEF Spec

-----------------------------------------------------------------------------
(* Requests.                                                               *)

\* The lists up to the m-th, one after the other.
Joins(seqs, f, m) == f = [i \in 1 .. m |-> IF i = 1 THEN seqs[i] ELSE f[i - 1] \o seqs[i]]

LEMMA JoinExists ==
  ASSUME NEW seqs, NEW n \in Nat
  PROVE  \E f : Joins(seqs, f, n)
<1> DEFINE Reaches(m) == \E f : Joins(seqs, f, m)
           Bad == {m \in Nat : ~Reaches(m)}
<1>1. Reaches(0)
  <2> DEFINE v == [i \in 1 .. 0 |-> i]
  <2>1. 1 .. 0 = {}
    OBVIOUS
  <2>2. v = [i \in 1 .. 0 |-> IF i = 1 THEN seqs[i] ELSE v[i - 1] \o seqs[i]]
    BY <2>1
  <2> HIDE DEF v
  <2> QED BY <2>2 DEF Joins
<1>2. ASSUME NEW m \in Nat, Reaches(m) PROVE Reaches(m + 1)
  <2>1. PICK f : Joins(seqs, f, m)
    BY <1>2
  <2> DEFINE next == IF m = 0 THEN seqs[1] ELSE f[m] \o seqs[m + 1]
             v == [i \in 1 .. m + 1 |-> IF i = m + 1 THEN next ELSE f[i]]
             w == [i \in 1 .. m + 1 |-> IF i = 1 THEN seqs[i] ELSE v[i - 1] \o seqs[i]]
  <2> HIDE DEF next
  <2>2. /\ m + 1 \in 1 .. m + 1 /\ 1 .. m \subseteq 1 .. m + 1 /\ ~(m + 1 \in 1 .. m)
        /\ \A i \in 1 .. m + 1 : i = m + 1 \/ (i # m + 1 /\ i \in 1 .. m)
        /\ \A i \in 1 .. m : i # m + 1 /\ (i = 1 \/ i - 1 \in 1 .. m)
    OBVIOUS
  <2>3. v[m + 1] = next /\ \A i \in 1 .. m : v[i] = f[i]
    BY <2>2
  <2>4. v = w
    <3>1. ASSUME NEW i \in 1 .. m + 1 PROVE v[i] = w[i]
      <4> HIDE DEF v
      <4>0. w[i] = IF i = 1 THEN seqs[i] ELSE v[i - 1] \o seqs[i]
        OBVIOUS
      <4> HIDE DEF w
      <4>1. CASE i = m + 1
        <5>1. CASE m = 0
          BY <2>3, <4>0, <4>1, <5>1 DEF next
        <5>2. CASE m # 0
          <6>1. m \in 1 .. m /\ i # 1 /\ i - 1 = m
            BY <4>1, <5>2
          <6>2. v[m] = f[m] /\ next = f[m] \o seqs[m + 1]
            BY <2>3, <5>2, <6>1 DEF next
          <6> QED BY <2>3, <4>0, <4>1, <6>1, <6>2
        <5> QED BY <5>1, <5>2
      <4>2. CASE i \in 1 .. m
        <5>1. f[i] = IF i = 1 THEN seqs[i] ELSE f[i - 1] \o seqs[i]
          BY <2>1, <4>2 DEF Joins
        <5> QED BY <2>2, <2>3, <4>0, <4>2, <5>1
      <4> QED BY <2>2, <4>1, <4>2
    <3> HIDE DEF next
    <3> QED BY <3>1
  <2>5. Joins(seqs, v, m + 1)
    <3>1. v = [i \in 1 .. m + 1 |-> IF i = 1 THEN seqs[i] ELSE v[i - 1] \o seqs[i]]
      BY <2>4
    <3> HIDE DEF v
    <3> QED BY <3>1 DEF Joins
  <2> HIDE DEF v
  <2> QED BY <2>5
<1> HIDE DEF Reaches
<1>3. Bad = {}
  <2> SUFFICES ASSUME Bad # {} PROVE FALSE
    OBVIOUS
  <2>1. PICK x \in Bad : \A y \in Bad : x <= y
    BY LeastNumber
  <2>2. x \in Nat /\ ~Reaches(x) /\ x # 0
    BY <1>1
  <2>3. x - 1 \in Nat /\ x - 1 \notin Bad
    BY <2>1, <2>2
  <2> QED BY <1>2, <2>2, <2>3
<1>4. Reaches(n)
  BY <1>3
<1> QED BY <1>4 DEF Reaches

LEMMA FlattenJoins ==
  ASSUME NEW S, NEW seqs \in Seq(S), Len(seqs) # 0
  PROVE  \E f : Joins(seqs, f, Len(seqs)) /\ FlattenSeq(seqs) = f[Len(seqs)]
<1> DEFINE n == Len(seqs)
           v == CHOOSE f : f = [i \in 1 .. n |-> IF i = 1 THEN seqs[i] ELSE f[i - 1] \o seqs[i]]
<1>1. \E w : Joins(seqs, w, n)
  <2>1. n \in Nat
    BY LenProperties
  <2> QED BY <2>1, JoinExists
<1>2. FlattenSeq(seqs) = v[n]
  BY DEF FlattenSeq
<1>3. Joins(seqs, v, n)
  BY <1>1 DEF Joins
<1> HIDE DEF v
<1> QED BY <1>2, <1>3

\* Two lists in a row have the members of both.
LEMMA RangeOfTwo ==
  ASSUME NEW S, NEW s \in Seq(S), NEW t \in Seq(S)
  PROVE  Range(s) \subseteq Range(s \o t) /\ Range(t) \subseteq Range(s \o t)
<1> DEFINE r == s \o t
<1>1. /\ Len(s) \in Nat /\ Len(t) \in Nat /\ r \in Seq(S) /\ Len(r) = Len(s) + Len(t)
      /\ DOMAIN s = 1 .. Len(s) /\ DOMAIN t = 1 .. Len(t) /\ DOMAIN r = 1 .. Len(r)
  BY Both, LenProperties
<1>2. /\ \A i \in 1 .. Len(s) : r[i] = s[i] /\ i \in 1 .. Len(r)
      /\ \A i \in 1 .. Len(t) : r[Len(s) + i] = t[i] /\ Len(s) + i \in 1 .. Len(r)
  <2>1. \A i \in 1 .. Len(s) + Len(t) : r[i] = IF i <= Len(s) THEN s[i] ELSE t[i - Len(s)]
    BY ConcatProperties
  <2>2. /\ \A i \in 1 .. Len(s) : i \in 1 .. Len(s) + Len(t) /\ i <= Len(s)
        /\ \A i \in 1 .. Len(t) : /\ Len(s) + i \in 1 .. Len(s) + Len(t)
                                  /\ ~(Len(s) + i <= Len(s)) /\ (Len(s) + i) - Len(s) = i
    BY <1>1
  <2> HIDE DEF r
  <2> QED BY <1>1, <2>1, <2>2
<1> HIDE DEF r
<1>3. Range(s) \subseteq Range(r) /\ Range(t) \subseteq Range(r)
  BY <1>1, <1>2 DEF Range
<1> QED BY <1>3 DEF r

Upto(P, m) == UNION {P[i] : i \in 1 .. m}

\* FlattenSeq of lists, each as long as a set of its own is large: it has the
\* members of all of them, and is as long as the sets are together.
LEMMA FlattenIs ==
  ASSUME NEW S, NEW seqs \in Seq(Seq(S)), NEW P,
         \A i \in 1 .. Len(seqs) : IsFiniteSet(P[i]) /\ Cardinality(P[i]) = Len(seqs[i]),
         \A i, j \in 1 .. Len(seqs) : i # j => P[i] \intersect P[j] = {}
  PROVE  /\ FlattenSeq(seqs) \in Seq(S)
         /\ IsFiniteSet(Upto(P, Len(seqs)))
         /\ Cardinality(Upto(P, Len(seqs))) = Len(FlattenSeq(seqs))
         /\ \A i \in 1 .. Len(seqs) : Range(seqs[i]) \subseteq Range(FlattenSeq(seqs))
<1> DEFINE n == Len(seqs)
           U(m) == Upto(P, m)
<1>0. n \in Nat /\ \A i \in 1 .. n : seqs[i] \in Seq(S)
  BY LenProperties, ElementOfSeq
<1>1. CASE n = 0
  <2>1. seqs = <<>> /\ FlattenSeq(seqs) = <<>> /\ 1 .. n = {}
    BY <1>1, EmptySeq DEF FlattenSeq
  <2>2. U(n) = {} /\ Len(<<>>) = 0 /\ <<>> \in Seq(S)
    BY <2>1, EmptySeq DEF Upto
  <2>3. IsFiniteSet({}) /\ Cardinality({}) = 0
    BY FS_EmptySet
  <2> QED BY <2>1, <2>2, <2>3
<1>2. CASE n # 0
  <2>1. PICK f : Joins(seqs, f, n) /\ FlattenSeq(seqs) = f[n]
    BY <1>2, FlattenJoins
  <2>2. \A i \in 1 .. n : f[i] = IF i = 1 THEN seqs[i] ELSE f[i - 1] \o seqs[i]
    BY <2>1 DEF Joins
  <2> DEFINE Fact(m) == /\ f[m] \in Seq(S)
                        /\ IsFiniteSet(U(m)) /\ Cardinality(U(m)) = Len(f[m])
                        /\ \A i \in 1 .. m : Range(seqs[i]) \subseteq Range(f[m])
             Bad == {m \in 1 .. n : ~Fact(m)}
  <2>3. Fact(1)
    <3>1. 1 \in 1 .. n /\ f[1] = seqs[1]
      BY <1>0, <1>2, <2>2
    <3>2. 1 .. 1 = {1}
      OBVIOUS
    <3>3. U(1) = P[1]
      BY <3>2 DEF Upto
    <3> HIDE DEF U
    <3> QED BY <1>0, <3>1, <3>2, <3>3
  <2>4. ASSUME NEW m \in 1 .. n, m + 1 \in 1 .. n, Fact(m) PROVE Fact(m + 1)
    <3>1. f[m + 1] = f[m] \o seqs[m + 1]
      <4>1. m + 1 # 1 /\ (m + 1) - 1 = m
        OBVIOUS
      <4> QED BY <2>2, <2>4, <4>1
    <3>2. 1 .. m + 1 = (1 .. m) \union {m + 1} /\ \A i \in 1 .. m : i \in 1 .. n /\ i # m + 1
      BY <1>0, <2>4
    <3>3. U(m + 1) = U(m) \union P[m + 1]
      BY <3>2 DEF Upto
    <3>4. U(m) \intersect P[m + 1] = {}
      <4> SUFFICES ASSUME NEW x \in U(m), x \in P[m + 1] PROVE FALSE
        OBVIOUS
      <4>1. PICK i \in 1 .. m : x \in P[i]
        BY DEF Upto
      <4>2. P[i] \intersect P[m + 1] = {}
        BY <2>4, <3>2
      <4> QED BY <4>1, <4>2
    <3>5. IsFiniteSet(P[m + 1]) /\ Cardinality(P[m + 1]) = Len(seqs[m + 1]) /\ seqs[m + 1] \in Seq(S)
      BY <1>0, <2>4
    <3> DEFINE V == U(m)
               W == U(m + 1)
    <3>6. V \intersect P[m + 1] = {} /\ W = V \union P[m + 1] /\ IsFiniteSet(V) /\ Cardinality(V) = Len(f[m])
      BY <2>4, <3>3, <3>4
    <3> HIDE DEF V, W
    <3>7. IsFiniteSet(W) /\ Cardinality(W) = Cardinality(V) + Cardinality(P[m + 1])
      <4>1. Cardinality(V) \in Nat /\ Cardinality(P[m + 1]) \in Nat /\ Cardinality({}) = 0
        BY <3>5, <3>6, FS_CardinalityType, FS_EmptySet
      <4>2. /\ IsFiniteSet(V \union P[m + 1])
            /\ Cardinality(V \union P[m + 1])
                 = Cardinality(V) + Cardinality(P[m + 1]) - Cardinality(V \intersect P[m + 1])
        BY <3>5, <3>6, FS_Union
      <4>3. Cardinality(V \intersect P[m + 1]) = 0
        BY <3>6, <4>1
      <4>4. Cardinality(V \union P[m + 1]) = Cardinality(V) + Cardinality(P[m + 1])
        BY <4>1, <4>2, <4>3
      <4> QED BY <3>6, <4>2, <4>4
    <3>8. f[m] \in Seq(S) /\ \A i \in 1 .. m : Range(seqs[i]) \subseteq Range(f[m])
      BY <2>4
    <3>9. f[m + 1] \in Seq(S) /\ Len(f[m + 1]) = Len(f[m]) + Len(seqs[m + 1])
      BY <3>1, <3>5, <3>8, ConcatProperties
    <3>10. \A i \in 1 .. m + 1 : Range(seqs[i]) \subseteq Range(f[m + 1])
      <4>1. Range(f[m]) \subseteq Range(f[m + 1]) /\ Range(seqs[m + 1]) \subseteq Range(f[m + 1])
        BY <3>1, <3>5, <3>8, RangeOfTwo
      <4> QED BY <3>2, <3>8, <4>1
    <3>11. IsFiniteSet(U(m + 1)) /\ Cardinality(U(m + 1)) = Len(f[m + 1])
      BY <3>5, <3>6, <3>7, <3>9 DEF W
    <3> HIDE DEF U
    <3> QED BY <3>9, <3>10, <3>11
  <2> HIDE DEF Fact
  <2>5. Bad = {}
    <3> SUFFICES ASSUME Bad # {} PROVE FALSE
      OBVIOUS
    <3>1. PICK x \in Bad : \A y \in Bad : x <= y
      <4>1. Bad \subseteq Nat
        BY <1>0
      <4> HIDE DEF Bad
      <4> QED BY <4>1, LeastNumber
    <3>2. x \in 1 .. n /\ ~Fact(x) /\ x # 1
      BY <2>3
    <3>3. x - 1 \in 1 .. n /\ x - 1 \notin Bad /\ (x - 1) + 1 = x
      BY <1>0, <3>1, <3>2
    <3> QED BY <2>4, <3>2, <3>3
  <2>6. Fact(n)
    <3>1. n \in 1 .. n
      BY <1>0, <1>2
    <3> QED BY <2>5, <3>1
  <2> QED BY <2>1, <2>6 DEF Fact
<1> QED BY <1>1, <1>2

\* The records of a request, by their places.
PlacesIn(request, i, j) == {<<i, j, k>> : k \in DOMAIN request[i].scopes[j].records}
PlacesUnder(request, i) == UNION {PlacesIn(request, i, j) : j \in DOMAIN request[i].scopes}

LEMMA PlacesAre ==
  ASSUME NEW request
  PROVE  PlacesOf(request) = UNION {PlacesUnder(request, i) : i \in DOMAIN request}
BY DEF PlacesOf, PlacesUnder, PlacesIn

\* What becomes of them: of one, of a scope's, of a resource's.
EventAt(request, i, j, k, peer, received) ==
  LogRecordToEvent(request[i].scopes[j].records[k], ResourceAttrs(request, i),
                   request[i].scopes[j].name, peer, received)
ScopesEvents(request, i, j, peer, received) ==
  [k \in DOMAIN request[i].scopes[j].records |-> EventAt(request, i, j, k, peer, received)]
ResourcesEvents(request, i, peer, received) ==
  FlattenSeq([j \in DOMAIN request[i].scopes |-> ScopesEvents(request, i, j, peer, received)])

LEMMA RequestIs ==
  ASSUME NEW request, NEW peer, NEW received
  PROVE  RequestToEvents(request, peer, received)
           = FlattenSeq([i \in DOMAIN request |-> ResourcesEvents(request, i, peer, received)])
BY DEF RequestToEvents, ResourcesEvents, ScopesEvents, EventAt

Places(i, j, n) == {<<i, j, k>> : k \in 1 .. n}

LEMMA PlacesAreCounted ==
  ASSUME NEW i, NEW j, NEW n \in Nat
  PROVE  IsFiniteSet(Places(i, j, n)) /\ Cardinality(Places(i, j, n)) = n
<1> DEFINE T == {<<i, j, k>> : k \in 1 .. n}
           f == [k \in 1 .. n |-> <<i, j, k>>]
<1>1. IsFiniteSet(1 .. n) /\ Cardinality(1 .. n) = n
  BY FS_Interval
<1>2. f \in [1 .. n -> T]
  OBVIOUS
<1>3. \A a, b \in 1 .. n : f[a] = f[b] => a = b
  OBVIOUS
<1>4. \A t \in T : \E a \in 1 .. n : f[a] = t
  OBVIOUS
<1> HIDE DEF T, f
<1>5. ExistsBijection(1 .. n, T)
  BY <1>2, <1>3, <1>4 DEF ExistsBijection, Bijection, Injection, Surjection, IsInjective
<1>6. IsFiniteSet(T) /\ Cardinality(T) = n
  BY <1>1, <1>5, FS_Bijection
<1> QED BY <1>6 DEF T, Places

\* Lists of a request.
LEMMA ListsAre ==
  ASSUME NEW request \in Requests
  PROVE  /\ DOMAIN request = 1 .. Len(request) /\ Len(request) \in Nat
         /\ \A i \in DOMAIN request :
              /\ IsList(request[i].attributes)
              /\ DOMAIN request[i].scopes = 1 .. Len(request[i].scopes) /\ Len(request[i].scopes) \in Nat
              /\ \A j \in DOMAIN request[i].scopes :
                   LET records == request[i].scopes[j].records
                   IN  DOMAIN records = 1 .. Len(records) /\ Len(records) \in Nat
<1>1. \A s : IsList(s) => DOMAIN s = 1 .. Len(s) /\ Len(s) \in Nat
  <2> SUFFICES ASSUME NEW s, IsList(s) PROVE DOMAIN s = 1 .. Len(s) /\ Len(s) \in Nat
    OBVIOUS
  <2>1. PICK S : s \in Seq(S)
    BY DEF IsList
  <2> QED BY <2>1, LenProperties
<1>2. /\ IsList(request)
      /\ \A i \in DOMAIN request :
           /\ IsList(request[i].attributes) /\ IsList(request[i].scopes)
           /\ \A j \in DOMAIN request[i].scopes : IsList(request[i].scopes[j].records)
  BY LinesAssumption
<1> QED BY <1>1, <1>2

\* One event for every record, and nothing else.
LEMMA RequestIsFlattened ==
  ASSUME NEW request \in Requests, NEW peer, NEW received
  PROVE  /\ Len(RequestToEvents(request, peer, received)) = Cardinality(PlacesOf(request))
         /\ \A i \in DOMAIN request : \A j \in DOMAIN request[i].scopes :
              \A k \in DOMAIN request[i].scopes[j].records :
                EventAt(request, i, j, k, peer, received)
                  \in Range(RequestToEvents(request, peer, received))
<1> DEFINE Scopes(i) == request[i].scopes
           Records(i, j) == request[i].scopes[j].records
           At(i, j, k) == EventAt(request, i, j, k, peer, received)
           Of(i, j) == ScopesEvents(request, i, j, peer, received)
           All(i) == ResourcesEvents(request, i, peer, received)
           S == UNION {UNION {{At(i, j, k) : k \in DOMAIN Records(i, j)} : j \in DOMAIN Scopes(i)} :
                         i \in DOMAIN request}
<1>1. /\ DOMAIN request = 1 .. Len(request) /\ Len(request) \in Nat
      /\ \A i \in DOMAIN request :
           /\ DOMAIN Scopes(i) = 1 .. Len(Scopes(i)) /\ Len(Scopes(i)) \in Nat
           /\ \A j \in DOMAIN Scopes(i) :
                DOMAIN Records(i, j) = 1 .. Len(Records(i, j)) /\ Len(Records(i, j)) \in Nat
  BY ListsAre
<1>2. ASSUME NEW i \in DOMAIN request, NEW j \in DOMAIN Scopes(i)
      PROVE  /\ Of(i, j) \in Seq(S)
             /\ IsFiniteSet(PlacesIn(request, i, j))
             /\ Cardinality(PlacesIn(request, i, j)) = Len(Of(i, j))
             /\ \A k \in DOMAIN Records(i, j) : At(i, j, k) \in Range(Of(i, j))
  <2> DEFINE n == Len(Records(i, j))
             of == Of(i, j)
  <2>1. n \in Nat /\ DOMAIN Records(i, j) = 1 .. n
    BY <1>1, <1>2
  <2>2. \A k \in 1 .. n : At(i, j, k) \in S
    BY <1>2, <2>1
  <2>3. of = [k \in 1 .. n |-> At(i, j, k)]
    BY <2>1 DEF ScopesEvents
  <2>4. PlacesIn(request, i, j) = Places(i, j, n)
    BY <2>1 DEF PlacesIn, Places
  <2> HIDE DEF At, S, n, of
  <2>5. of \in Seq(S) /\ Len(of) = n
    <3>1. of \in [1 .. n -> S]
      BY <2>2, <2>3
    <3> QED BY <2>1, <3>1, IsASeq, LenProperties
  <2>6. \A k \in 1 .. n : At(i, j, k) \in Range(of)
    BY <2>3 DEF Range
  <2>7. IsFiniteSet(Places(i, j, n)) /\ Cardinality(Places(i, j, n)) = n
    BY <2>1, PlacesAreCounted
  <2> QED BY <2>1, <2>4, <2>5, <2>6, <2>7 DEF of
<1>3. ASSUME NEW i \in DOMAIN request
      PROVE  /\ All(i) \in Seq(S)
             /\ IsFiniteSet(PlacesUnder(request, i))
             /\ Cardinality(PlacesUnder(request, i)) = Len(All(i))
             /\ \A j \in DOMAIN Scopes(i) : Range(Of(i, j)) \subseteq Range(All(i))
  <2> DEFINE m == Len(Scopes(i))
             seqs == [j \in DOMAIN Scopes(i) |-> Of(i, j)]
             P == [j \in DOMAIN Scopes(i) |-> PlacesIn(request, i, j)]
  <2>1. m \in Nat /\ DOMAIN Scopes(i) = 1 .. m
    BY <1>1, <1>3
  <2>2. All(i) = FlattenSeq(seqs)
    BY DEF ResourcesEvents
  <2>3. \A j \in 1 .. m : seqs[j] = Of(i, j) /\ P[j] = PlacesIn(request, i, j)
    BY <2>1
  <2>4. PlacesUnder(request, i) = Upto(P, m)
    BY <2>1 DEF PlacesUnder, Upto
  <2>5. \A j \in 1 .. m : /\ Of(i, j) \in Seq(S) /\ IsFiniteSet(P[j]) /\ Cardinality(P[j]) = Len(seqs[j])
    BY <1>2, <1>3, <2>1, <2>3
  <2>6. \A j, k \in 1 .. m : j # k => P[j] \intersect P[k] = {}
    BY <2>3 DEF PlacesIn
  <2>7. seqs \in Seq(Seq(S)) /\ Len(seqs) = m
    <3>1. seqs = [j \in 1 .. m |-> Of(i, j)]
      BY <2>1
    <3> HIDE DEF S, seqs, m
    <3>2. seqs \in [1 .. m -> Seq(S)]
      BY <2>5, <3>1
    <3> QED BY <2>1, <3>2, IsASeq, LenProperties
  <2> HIDE DEF S, seqs, P, m
  <2>8. /\ FlattenSeq(seqs) \in Seq(S)
        /\ IsFiniteSet(Upto(P, m))
        /\ Cardinality(Upto(P, m)) = Len(FlattenSeq(seqs))
        /\ \A j \in 1 .. m : Range(seqs[j]) \subseteq Range(FlattenSeq(seqs))
    BY <2>5, <2>6, <2>7, FlattenIs
  <2> HIDE DEF Of, All
  <2> QED BY <2>1, <2>2, <2>3, <2>4, <2>8
<1> DEFINE n == Len(request)
           seqs == [i \in DOMAIN request |-> All(i)]
           P == [i \in DOMAIN request |-> PlacesUnder(request, i)]
           made == RequestToEvents(request, peer, received)
<1>4. n \in Nat /\ DOMAIN request = 1 .. n
  BY <1>1
<1>5. made = FlattenSeq(seqs)
  BY RequestIs
<1>6. \A i \in 1 .. n : seqs[i] = All(i) /\ P[i] = PlacesUnder(request, i)
  BY <1>4
<1>7. PlacesOf(request) = Upto(P, n)
  BY <1>4, PlacesAre DEF Upto
<1>8. \A i \in 1 .. n : All(i) \in Seq(S) /\ IsFiniteSet(P[i]) /\ Cardinality(P[i]) = Len(seqs[i])
  BY <1>3, <1>4, <1>6
<1>9. \A i, j \in 1 .. n : i # j => P[i] \intersect P[j] = {}
  BY <1>6 DEF PlacesUnder, PlacesIn
<1>10. seqs \in Seq(Seq(S)) /\ Len(seqs) = n
  <2>1. seqs = [i \in 1 .. n |-> All(i)]
    BY <1>4
  <2> HIDE DEF S, seqs, n, All
  <2>2. seqs \in [1 .. n -> Seq(S)]
    BY <1>8, <2>1
  <2> QED BY <1>4, <2>2, IsASeq, LenProperties
<1> HIDE DEF S, seqs, P, n, made
<1>11. /\ FlattenSeq(seqs) \in Seq(S)
       /\ Cardinality(Upto(P, n)) = Len(FlattenSeq(seqs))
       /\ \A i \in 1 .. n : Range(seqs[i]) \subseteq Range(FlattenSeq(seqs))
  BY <1>8, <1>9, <1>10, FlattenIs
<1>12. ASSUME NEW i \in DOMAIN request, NEW j \in DOMAIN Scopes(i), NEW k \in DOMAIN Records(i, j)
       PROVE  At(i, j, k) \in Range(made)
  <2>1. At(i, j, k) \in Range(Of(i, j))
    BY <1>2, <1>12
  <2>2. Range(Of(i, j)) \subseteq Range(All(i))
    BY <1>3, <1>12
  <2>3. Range(All(i)) \subseteq Range(made)
    <3> HIDE DEF All
    <3> QED BY <1>4, <1>5, <1>6, <1>11, <1>12
  <2> HIDE DEF At, Of, All
  <2> QED BY <2>1, <2>2, <2>3
<1>13. Len(made) = Cardinality(PlacesOf(request))
  BY <1>5, <1>7, <1>11
<1> QED BY <1>12, <1>13 DEF made

LEMMA BoundedHasMax ==
  ASSUME NEW n \in Nat, NEW S, S \subseteq 0 .. n, S # {}
  PROVE  Max(S) \in S
<1> DEFINE T == {n - x : x \in S}
<1>1. T \subseteq Nat /\ T # {} /\ \A z \in S : n - z \in T /\ z \in Nat
  <2>1. \A z \in S : z \in Nat /\ n - z \in Nat /\ n - z \in T
    OBVIOUS
  <2>2. \A y \in T : y \in Nat
    BY <2>1
  <2>3. PICK z \in S : TRUE
    OBVIOUS
  <2> QED BY <2>1, <2>2, <2>3
<1>2. PICK y \in T : \A z \in T : y <= z
  BY <1>1, LeastNumber
<1>3. PICK x \in S : y = n - x
  OBVIOUS
<1>4. \A z \in S : n - x <= n - z
  BY <1>1, <1>2, <1>3
<1>5. \A z \in S : x >= z
  BY <1>1, <1>4
<1> QED BY <1>5 DEF Max

\* The attributes flattened: every key has a text of its own.
Keyed(flat, prefix, attributes) ==
  /\ DOMAIN flat = {<<prefix, a.key>> : a \in Range(attributes)}
  /\ \A key \in DOMAIN flat : \E a \in Range(attributes) :
       key = <<prefix, a.key>> /\ flat[key] = AnyValueToString(a.value)

LEMMA FlattenedIs ==
  ASSUME NEW prefix, NEW attributes, IsList(attributes)
  PROVE  Keyed(Flattened(prefix, attributes), prefix, attributes)
<1> DEFINE keys == {<<prefix, a.key>> : a \in Range(attributes)}
           At(key) == {i \in 1 .. Len(attributes) : attributes[i].key = key[2]}
           Last1(key) == IF At(key) # {} THEN Max(At(key)) ELSE 0
<1>1. Flattened(prefix, attributes)
        = [key \in keys |-> AnyValueToString(attributes[Last1(key)].value)]
  BY DEF Flattened, SelectLastInSeq
<1>2. ASSUME NEW key \in keys
      PROVE  \E a \in Range(attributes) :
               key = <<prefix, a.key>>
               /\ AnyValueToString(attributes[Last1(key)].value) = AnyValueToString(a.value)
  <2>1. DOMAIN attributes = 1 .. Len(attributes) /\ Len(attributes) \in Nat
    <3>1. PICK S : attributes \in Seq(S)
      BY DEF IsList
    <3> QED BY <3>1, LenProperties
  <2>2. PICK a \in Range(attributes) : key = <<prefix, a.key>>
    BY <1>2
  <2>3. PICK i \in DOMAIN attributes : attributes[i] = a
    BY DEF Range
  <2>4. i \in At(key)
    BY <2>1, <2>2, <2>3
  <2>5. Max(At(key)) \in At(key)
    <3>1. At(key) \subseteq 0 .. Len(attributes)
      BY <2>1
    <3> HIDE DEF At
    <3> QED BY <2>1, <2>4, <3>1, BoundedHasMax
  <2>6. Last1(key) \in DOMAIN attributes /\ attributes[Last1(key)].key = key[2]
    BY <2>1, <2>4, <2>5
  <2> DEFINE b == attributes[Last1(key)]
  <2>7. b \in Range(attributes)
    BY <2>6 DEF Range
  <2>8. key = <<prefix, b.key>>
    BY <2>2, <2>6
  <2> QED BY <2>7, <2>8
<1> HIDE DEF keys, Last1
<1>3. DOMAIN Flattened(prefix, attributes) = keys
  BY <1>1
<1>4. \A key \in keys : Flattened(prefix, attributes)[key] = AnyValueToString(attributes[Last1(key)].value)
  BY <1>1
<1> QED BY <1>2, <1>3, <1>4 DEF Keyed, keys

\* An event tells of its record and of where it was.
LEMMA RecordKeepsContext ==
  ASSUME NEW record, NEW attributes, IsList(attributes), NEW scope, NEW received
  PROVE  KeepsContext(LogRecordToEvent(record, Flattened("", attributes), scope, peerIp, received),
                      attributes, scope, record.body)
<1> DEFINE flat == Flattened("", attributes)
           event == LogRecordToEvent(record, flat, scope, peerIp, received)
           hostName == <<"", "host.name">>
           reserved == Reserved(record, scope)
           own == Flattened("attr.", record.attributes)
           resource == [key \in {<<"resource.", k[2]>> : k \in DOMAIN flat} |-> flat[<<"", key[2]>>]]
           keys == DOMAIN reserved \union DOMAIN own \union DOMAIN resource
           attrs == [key \in keys |-> CASE key[1] = ""      -> reserved[key]
                                        [] key[1] = "attr." -> own[key]
                                        [] OTHER            -> resource[key]]
           claim == IF hostName \in DOMAIN flat THEN flat[hostName] ELSE None
           time == NanosToTimestamp(record.time)
           K == {a.key : a \in Range(attributes)}
<1>1. /\ DOMAIN flat = {<<"", a.key>> : a \in Range(attributes)}
      /\ \A key \in DOMAIN flat : \E a \in Range(attributes) :
           key = <<"", a.key>> /\ flat[key] = AnyValueToString(a.value)
  <2>1. Keyed(flat, "", attributes)
    BY FlattenedIs
  <2> HIDE DEF flat
  <2> QED BY <2>1 DEF Keyed
<1>2. /\ event.raw = AnyValueToString(record.body)
      /\ event.timestamp = (IF time # None THEN time ELSE NanosToTimestamp(record.observed))
      /\ event.host = Resolve(claim, peerIp)
      /\ event.attrs = attrs
  BY DEF LogRecordToEvent, LogRecordBody
<1> HIDE DEF event
<1>3. event.timestamp # 0
  <2>1. None # 0
    BY LinesAssumption
  <2>2. \A nanos : NanosToTimestamp(nanos) # 0
    BY <2>1 DEF NanosToTimestamp
  <2> HIDE DEF time
  <2>3. time # 0
    BY <2>2 DEF time
  <2> QED BY <1>2, <2>2, <2>3
<1>4. /\ \A key \in DOMAIN reserved : key[1] = ""
      /\ \A key \in DOMAIN own : key[1] = "attr."
      /\ DOMAIN resource = {<<"resource.", x>> : x \in K}
  <2>1. \A key \in DOMAIN reserved : key[1] = ""
    <3> DEFINE named == [scope |-> scope, severity_text |-> record.severity, trace_id |-> record.trace]
               names == {k \in DOMAIN named : named[k] # <<>>}
    <3>1. reserved = [key \in {<<"", k>> : k \in names} |-> named[key[2]]]
      BY DEF Reserved
    <3> HIDE DEF reserved, names
    <3> SUFFICES ASSUME NEW key \in DOMAIN reserved PROVE key[1] = ""
      OBVIOUS
    <3>2. PICK k \in names : key = <<"", k>>
      BY <3>1
    <3> QED BY <3>2
  <2>2. \A key \in DOMAIN own : key[1] = "attr."
    BY DEF Flattened
  <2>3. DOMAIN resource = {<<"resource.", k[2]>> : k \in DOMAIN flat}
    OBVIOUS
  <2>4. {<<"resource.", k[2]>> : k \in DOMAIN flat} = {<<"resource.", x>> : x \in K}
    <3> HIDE DEF flat, K
    <3>1. ASSUME NEW k \in DOMAIN flat PROVE k[2] \in K
      <4>1. PICK a \in Range(attributes) : k = <<"", a.key>>
        BY <1>1
      <4> QED BY <4>1 DEF K
    <3>2. ASSUME NEW x \in K PROVE \E k \in DOMAIN flat : k[2] = x
      <4>1. PICK a \in Range(attributes) : x = a.key
        BY DEF K
      <4>2. <<"", x>> \in DOMAIN flat /\ <<"", x>>[2] = x
        BY <1>1, <4>1
      <4> QED BY <4>2
    <3> QED BY <3>1, <3>2
  <2> HIDE DEF reserved, own, resource, K
  <2> QED BY <2>1, <2>2, <2>3, <2>4
<1>5. {key[2] : key \in {k \in DOMAIN event.attrs : k[1] = "resource."}}
        = {a.key : a \in Range(attributes)}
  <2>1. DOMAIN event.attrs = DOMAIN reserved \union DOMAIN own \union DOMAIN resource
    BY <1>2
  <2> HIDE DEF reserved, own, resource, attrs
  <2> DEFINE inherited == {k \in DOMAIN event.attrs : k[1] = "resource."}
  <2> HIDE DEF K
  <2>2. ASSUME NEW k \in inherited PROVE k[2] \in K
    <3>1. k \in DOMAIN resource
      BY <1>4, <2>1
    <3>2. PICK x \in K : k = <<"resource.", x>>
      BY <1>4, <3>1
    <3> QED BY <3>2
  <2>3. ASSUME NEW x \in K PROVE \E k \in inherited : k[2] = x
    <3> DEFINE k == <<"resource.", x>>
    <3>1. k \in DOMAIN event.attrs /\ k[1] = "resource." /\ k[2] = x
      BY <1>4, <2>1
    <3> HIDE DEF k
    <3> QED BY <3>1
  <2>4. {key[2] : key \in inherited} = K
    <3> HIDE DEF inherited
    <3> QED BY <2>2, <2>3
  <2> QED BY <2>4 DEF K
<1>6. ASSUME <<"", "scope">> \in DOMAIN event.attrs PROVE event.attrs[<<"", "scope">>] = scope
  <2> DEFINE key == <<"", "scope">>
  <2>1. key \in keys /\ key[1] = "" /\ event.attrs[key] = reserved[key]
    <3>1. key \in keys /\ key[1] = ""
      BY <1>2, <1>6
    <3> HIDE DEF keys, reserved, own, resource
    <3> QED BY <1>2, <3>1
  <2>2. key \in DOMAIN reserved
    <3>1. key \notin DOMAIN own /\ key \notin DOMAIN resource
      <4> HIDE DEF reserved, own, resource
      <4> QED BY <1>4
    <3> HIDE DEF reserved, own, resource
    <3> QED BY <2>1, <3>1
  <2>3. reserved[key] = scope
    BY <2>2 DEF Reserved
  <2> QED BY <2>1, <2>3
<1>7. event.host \in IF HostsOf(attributes) = {} THEN {peerIp}
                     ELSE {Resolve(host, peerIp) : host \in HostsOf(attributes)}
  <2> HIDE DEF flat
  <2>1. CASE hostName \in DOMAIN flat
    <3>1. PICK a \in Range(attributes) : hostName = <<"", a.key>> /\ flat[hostName] = AnyValueToString(a.value)
      BY <1>1, <2>1
    <3>2. a.key = "host.name"
      BY <3>1
    <3>3. claim \in HostsOf(attributes)
      BY <2>1, <3>1, <3>2 DEF HostsOf
    <3> HIDE DEF claim
    <3> QED BY <1>2, <3>3
  <2>2. CASE hostName \notin DOMAIN flat
    <3>1. HostsOf(attributes) = {}
      BY <1>1, <2>2 DEF HostsOf
    <3>2. Resolve(claim, peerIp) = peerIp
      BY <2>2 DEF Resolve
    <3> QED BY <1>2, <3>1, <3>2
  <2> QED BY <2>1, <2>2
<1>8. event.raw = AnyValueToString(record.body)
  BY <1>2
<1> QED BY <1>3, <1>5, <1>6, <1>7, <1>8 DEF KeepsContext, event

\* Of EventsAreTrue the requests: every record of every scope of every resource
\* becomes one event, of its own body, resource and scope, for requests of any
\* shape and length (request_to_events, log_record_to_event).
THEOREM RequestsHold == Spec => []RecordsKeepTheirContext
<1>1. Init => RecordsKeepTheirContext
  BY DEF Init, RecordsKeepTheirContext
<1>2. ASSUME RecordsKeepTheirContext, [Next]_vars PROVE RecordsKeepTheirContext'
  <2>1. CASE RequestArrives
    <3>1. PICK request \in Requests, day \in Sent :
            /\ given' = [kind |-> "request", request |-> request, received |-> day]
            /\ events' = RequestToEvents(request, peerIp, day)
      BY <2>1 DEF RequestArrives
    <3> DEFINE At(i, j, k) == EventAt(request, i, j, k, peerIp, day)
    <3>2. /\ Len(events') = Cardinality(PlacesOf(request))
          /\ \A i \in DOMAIN request : \A j \in DOMAIN request[i].scopes :
               \A k \in DOMAIN request[i].scopes[j].records : At(i, j, k) \in Range(events')
      BY <3>1, RequestIsFlattened
    <3>3. ASSUME NEW r \in PlacesOf(request)
          PROVE  \E event \in Range(events') :
                   KeepsContext(event, request[r[1]].attributes, request[r[1]].scopes[r[2]].name,
                                request[r[1]].scopes[r[2]].records[r[3]].body)
      <4>1. PICK i \in DOMAIN request : r \in PlacesUnder(request, i)
        BY <3>3, PlacesAre
      <4>2. PICK j \in DOMAIN request[i].scopes : r \in PlacesIn(request, i, j)
        BY <4>1 DEF PlacesUnder
      <4>3. PICK k \in DOMAIN request[i].scopes[j].records : r = <<i, j, k>>
        BY <4>2 DEF PlacesIn
      <4>4. IsList(request[i].attributes)
        BY ListsAre
      <4>5. KeepsContext(At(i, j, k), request[i].attributes, request[i].scopes[j].name,
                         request[i].scopes[j].records[k].body)
        BY <4>4, RecordKeepsContext DEF EventAt, ResourceAttrs
      <4>6. At(i, j, k) \in Range(events')
        BY <3>2, <4>1, <4>2, <4>3
      <4>7. r[1] = i /\ r[2] = j /\ r[3] = k
        BY <4>3
      <4> HIDE DEF At
      <4> QED BY <4>5, <4>6, <4>7
    <3>4. given'.kind = "request" /\ given'.request = request
      BY <3>1
    <3> HIDE DEF At
    <3> QED BY <3>2, <3>3, <3>4 DEF RecordsKeepTheirContext
  <2>2. CASE FrameArrives \/ GarbledArrives
    <3>1. given'.kind = "frame"
      BY <2>2 DEF FrameArrives, GarbledArrives
    <3> QED BY <3>1 DEF RecordsKeepTheirContext
  <2>3. CASE EntryArrives
    <3>1. given'.kind = "entry"
      BY <2>3 DEF EntryArrives
    <3> QED BY <3>1 DEF RecordsKeepTheirContext
  <2>4. CASE UNCHANGED <<given, events>>
    BY <2>4, <1>2 DEF RecordsKeepTheirContext
  <2> QED BY <1>2, <2>1, <2>2, <2>3, <2>4 DEF Next, vars
<1> QED BY <1>1, <1>2, PTL DEF Spec

\* Frames and requests of any number and shape are read as FramesAreReadRight
\* and RecordsKeepTheirContext say: times of frames when the zones agree, hosts
\* of stamped frames only (frame_to_event, request_to_events).
THEOREM EventsHold == Spec => []EventsAreTrue
BY FramesHold, RequestsHold, PTL DEF EventsAreTrue
=============================================================================
