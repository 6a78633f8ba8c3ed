---------------------------- MODULE IntakeProofs ----------------------------
(***************************************************************************)
(* A clean stop leaves nothing behind, for any number of peers, capacities *)
(* of the two channels and records of the export.                          *)
(***************************************************************************)
EXTENDS IntakeProps, SequenceTheorems, TLAPS

\* A waiting line in which nobody waits twice.
LineOK(line) == line \in Seq(Sender) /\ IsInjective(line)

-----------------------------------------------------------------------------
(* The line for a place.                                                   *)

\* One more who was not in line waits last.
LEMMA JoiningTheLine ==
  ASSUME LineOK(blocked), NEW s \in Sender, ~Waits(s), blocked' = Append(blocked, s)
  PROVE  /\ LineOK(blocked)'
         /\ \A r : Waits(r)' <=> Waits(r) \/ r = s
<1>1. /\ blocked' \in Seq(Sender) /\ Len(blocked') = Len(blocked) + 1
      /\ \A n \in 1 .. Len(blocked) : blocked'[n] = blocked[n]
      /\ blocked'[Len(blocked) + 1] = s
  BY DEF LineOK
<1>2. /\ DOMAIN blocked = 1 .. Len(blocked) /\ Len(blocked) \in Nat
      /\ DOMAIN blocked' = 1 .. Len(blocked) + 1
  BY <1>1 DEF LineOK
<1>3. \A n \in DOMAIN blocked' : n \in DOMAIN blocked \/ n = Len(blocked) + 1
  BY <1>2
<1>4. \A n \in DOMAIN blocked : blocked[n] # s
  BY DEF Waits, Range
<1>5. IsInjective(blocked')
  BY <1>1, <1>2, <1>3, <1>4 DEF LineOK, IsInjective
<1>6. \A r : Waits(r)' <=> Waits(r) \/ r = s
  BY <1>1, <1>2, <1>3 DEF Waits, Range
<1> QED BY <1>1, <1>5, <1>6 DEF LineOK

\* The first leaves the line.
LEMMA HeadOfTheLine ==
  ASSUME LineOK(blocked), blocked # <<>>, blocked' = Tail(blocked)
  PROVE  /\ LineOK(blocked)'
         /\ Head(blocked) \in Sender /\ Waits(Head(blocked))
         /\ \A r : Waits(r)' <=> Waits(r) /\ r # Head(blocked)
<1>1. /\ blocked' \in Seq(Sender) /\ Len(blocked') = Len(blocked) - 1
      /\ \A n \in 1 .. Len(blocked) - 1 : blocked'[n] = blocked[n + 1]
      /\ Head(blocked) = blocked[1] /\ Head(blocked) \in Sender
  BY DEF LineOK
<1>2. /\ DOMAIN blocked = 1 .. Len(blocked) /\ Len(blocked) \in Nat \ {0}
      /\ DOMAIN blocked' = 1 .. Len(blocked) - 1
  BY <1>1 DEF LineOK
<1>3. /\ \A n \in DOMAIN blocked' : n + 1 \in DOMAIN blocked /\ n + 1 # 1 /\ n \in Int
      /\ \A n \in DOMAIN blocked : n = 1 \/ (n - 1 \in DOMAIN blocked' /\ n = (n - 1) + 1)
  BY <1>2
<1>4. IsInjective(blocked')
  BY <1>1, <1>2, <1>3 DEF LineOK, IsInjective
<1>5. Waits(Head(blocked))
  BY <1>1, <1>2 DEF Waits, Range
<1>6. \A r : Waits(r)' => Waits(r) /\ r # Head(blocked)
  <2> SUFFICES ASSUME NEW n \in DOMAIN blocked'
               PROVE  blocked'[n] \in Range(blocked) /\ blocked'[n] # Head(blocked)
    BY DEF Waits, Range
  <2>1. blocked'[n] = blocked[n + 1] /\ n + 1 \in DOMAIN blocked /\ n + 1 # 1 /\ 1 \in DOMAIN blocked
    BY <1>1, <1>2, <1>3
  <2> QED BY <2>1, <1>1 DEF LineOK, IsInjective, Range
<1>7. \A r : Waits(r) /\ r # Head(blocked) => Waits(r)'
  <2> SUFFICES ASSUME NEW n \in DOMAIN blocked, blocked[n] # Head(blocked)
               PROVE  blocked[n] \in Range(blocked')
    BY DEF Waits, Range
  <2>1. n - 1 \in DOMAIN blocked' /\ n = (n - 1) + 1
    BY <1>1, <1>3
  <2>2. blocked'[n - 1] = blocked[n]
    BY <2>1, <1>1, <1>2
  <2> QED BY <2>1, <2>2 DEF Range
<1> QED BY <1>1, <1>4, <1>5, <1>6, <1>7 DEF LineOK

\* Whoever leaves the line, the others keep their order.
LEMMA LeavingTheLine ==
  ASSUME LineOK(blocked), NEW s, blocked' = LineWithout(s)
  PROVE  /\ LineOK(blocked)'
         /\ \A r : Waits(r)' <=> Waits(r) /\ r # s
         /\ blocked = <<>> => blocked' = <<>>
<1>1. CASE ~Waits(s)
  BY <1>1 DEF LineWithout, Waits, LineOK
<1>2. CASE Waits(s)
  <2> DEFINE place == CHOOSE n \in DOMAIN blocked : blocked[n] = s
             old(n) == IF n < place THEN n ELSE n + 1
  <2>1. place \in DOMAIN blocked /\ blocked[place] = s
    BY <1>2 DEF Waits, Range
  <2>2. blocked' = [n \in 1 .. Len(blocked) - 1 |-> blocked[old(n)]]
    BY <1>2 DEF LineWithout
  <2> HIDE DEF place
  <2>3. DOMAIN blocked = 1 .. Len(blocked) /\ Len(blocked) \in Nat /\ place \in 1 .. Len(blocked)
    BY <2>1 DEF LineOK
  <2>4. /\ \A n \in 1 .. Len(blocked) - 1 : old(n) \in DOMAIN blocked /\ old(n) # place
        /\ \A m, n \in 1 .. Len(blocked) - 1 : old(m) = old(n) => m = n
    BY <2>3
  <2>5. \A m \in DOMAIN blocked : m # place => \E n \in 1 .. Len(blocked) - 1 : old(n) = m
    <3> SUFFICES ASSUME NEW m \in DOMAIN blocked, m # place
                 PROVE  \E n \in 1 .. Len(blocked) - 1 : old(n) = m
      OBVIOUS
    <3>1. CASE m < place
      <4>1. m \in 1 .. Len(blocked) - 1 /\ old(m) = m
        BY <3>1, <2>3
      <4> QED BY <4>1
    <3>2. CASE m > place
      <4>1. m - 1 \in 1 .. Len(blocked) - 1 /\ old(m - 1) = m
        BY <3>2, <2>3
      <4> QED BY <4>1
    <3> QED BY <3>1, <3>2, <2>3
  <2> HIDE DEF old
  <2>6. /\ DOMAIN blocked' = 1 .. Len(blocked) - 1
        /\ \A n \in DOMAIN blocked' : blocked'[n] = blocked[old(n)]
    BY <2>2
  <2>7. blocked' \in Seq(Sender)
    <3>1. \A n \in 1 .. Len(blocked) - 1 : blocked[old(n)] \in Sender
      BY <2>3, <2>4 DEF LineOK
    <3>2. Len(blocked) - 1 \in Nat
      BY <2>3
    <3> QED BY <2>2, <3>1, <3>2
  <2>8. IsInjective(blocked')
    BY <2>4, <2>6 DEF LineOK, IsInjective
  <2>9. \A r : Waits(r)' => Waits(r) /\ r # s
    BY <2>1, <2>4, <2>6 DEF LineOK, IsInjective, Waits, Range
  <2>10. \A r : Waits(r) /\ r # s => Waits(r)'
    BY <2>1, <2>5, <2>6 DEF Waits, Range
  <2>11. blocked # <<>>
    BY <2>3
  <2> QED BY <2>7, <2>8, <2>9, <2>10, <2>11 DEF LineOK
<1> QED BY <1>1, <1>2

-----------------------------------------------------------------------------
(* Types, and who waits.                                                   *)

Typed == TypeOK /\ WaitersAreReal

\* Peers are neither the exporter nor the journal's thread.
LEMMA SendersAreApart ==
  /\ "otlp" \notin Conn /\ "journal" \notin Conn
  /\ "otlp" \in Sender /\ "journal" \in Sender /\ Conn \subseteq Sender
  /\ Channel \in Nat \ {0} /\ EngineChannel \in Nat \ {0} /\ Batch \in Nat \ {0}
  /\ MaxBoards \in Nat /\ MaxShed \in Nat
  BY IntakeAssumption DEF Sender

LEMMA TypedLine ==
  ASSUME Typed
  PROVE  LineOK(blocked)
  BY DEF Typed, TypeOK, WaitersAreReal, LineOK

\* What a send hands over is a line, or the next record.
LEMMA ItemsAreItems ==
  ASSUME Typed, NEW s \in Sender, s = "otlp" => sent < Batch
  PROVE  ItemOf(s) \in Item
  BY SendersAreApart DEF Typed, TypeOK, ItemOf, Item

\* A send puts its item in, or its sender in line.
LEMMA SendKeepsLine ==
  ASSUME Typed, NEW s \in Sender, ~Waits(s), ItemOf(s) \in Item, Send(s)
  PROVE  /\ queue' \in Seq(Item) /\ Len(queue') <= Channel
         /\ LineOK(blocked)'
         /\ \A r : Waits(r)' <=> Waits(r) \/ (Full /\ r = s)
         /\ pipeline = "running"
         /\ blocked' # <<>> => Full'
<1>1. LineOK(blocked) /\ pipeline = "running" /\ queue \in Seq(Item) /\ Len(queue) <= Channel
  BY TypedLine DEF Typed, TypeOK, Send
<1>2. CASE Full
  <2>1. blocked' = Append(blocked, s) /\ queue' = queue
    BY <1>2 DEF Send
  <2> QED BY <1>1, <1>2, <2>1, JoiningTheLine DEF Full
<1>3. CASE ~Full
  <2>1. queue' = Append(queue, ItemOf(s)) /\ blocked' = blocked
    BY <1>3 DEF Send
  <2>2. blocked = <<>>
    BY <1>1, <1>3 DEF Typed, WaitersAreReal
  <2>3. queue' \in Seq(Item) /\ Len(queue') = Len(queue) + 1
    BY <1>1, <2>1
  <2>4. Len(queue') <= Channel
    BY <1>1, <1>3, <2>3, SendersAreApart DEF Full
  <2>5. \A r : Waits(r)' <=> Waits(r)
    BY <2>1 DEF Waits
  <2> QED BY <1>1, <1>3, <2>1, <2>2, <2>3, <2>4, <2>5 DEF LineOK
<1> QED BY <1>2, <1>3

\* A send that fails takes its sender out of the line.
LEMMA FailedSendKeepsLine ==
  ASSUME Typed, NEW s, SendFails(s)
  PROVE  /\ queue' = queue /\ LineOK(blocked)' /\ pipeline = "done"
         /\ \A r : Waits(r)' <=> Waits(r) /\ r # s
  BY TypedLine, LeavingTheLine DEF SendFails

-----------------------------------------------------------------------------
LEMMA InitTyped == Init => Typed
<1> SUFFICES ASSUME Init PROVE Typed
  OBVIOUS
<1>1. TypeOK
  BY SendersAreApart DEF Init, TypeOK, Item
<1>2. Range(blocked) = {} /\ IsInjective(blocked)
  BY DEF Init, Range, IsInjective
<1> QED BY <1>1, <1>2 DEF Typed, WaitersAreReal, Waits, Init

\* The senders of lines: the peers, the exporter and the journal.
LEMMA SendersKeepTyped ==
  ASSUME Typed, \/ \E c \in Conn : ConnReads(c) \/ ConnSendFails(c)
                \/ ExportSends \/ ExportFails \/ ExportAborts
                \/ JournalReads \/ JournalSendFails
  PROVE  Typed'
<1>0. /\ TypeOK /\ WaitersAreReal /\ LineOK(blocked)
  BY TypedLine DEF Typed
<1>1. ASSUME NEW c \in Conn, ConnReads(c) PROVE Typed'
  <2>1. Send(c) /\ ~Waits(c) /\ ItemOf(c) \in Item
    BY <1>1, ItemsAreItems, SendersAreApart DEF ConnReads
  <2>2. /\ queue' \in Seq(Item) /\ Len(queue') <= Channel /\ LineOK(blocked)'
        /\ \A r : Waits(r)' => Waits(r) \/ r = c
        /\ blocked' # <<>> => Full'
    BY <2>1, SendKeepsLine, SendersAreApart
  <2>3. TypeOK'
    BY <1>0, <1>1, <2>2 DEF TypeOK, LineOK, ConnReads, listeners, consumers
  <2>4. WaitersAreReal'
    BY <1>0, <1>1, <2>2, SendersAreApart
    DEF WaitersAreReal, LineOK, ConnReads, listeners, consumers
  <2> QED BY <2>3, <2>4 DEF Typed
<1>2. ASSUME NEW c \in Conn, ConnSendFails(c) PROVE Typed'
  <2>1. /\ queue' = queue /\ LineOK(blocked)' /\ pipeline = "done"
        /\ \A r : Waits(r)' <=> Waits(r) /\ r # c
    BY <1>2, FailedSendKeepsLine DEF ConnSendFails
  <2>2. conn' = [conn EXCEPT ![c] = "closed"] /\ UNCHANGED <<main, shed, client, sent, journal, consumers, boards>>
    BY <1>2 DEF ConnSendFails, Closes
  <2>3. TypeOK'
    BY <1>0, <2>1, <2>2 DEF TypeOK, LineOK, consumers
  <2>4. WaitersAreReal'
    BY <1>0, <2>1, <2>2 DEF TypeOK, WaitersAreReal, LineOK, consumers
  <2> QED BY <2>3, <2>4 DEF Typed
<1>3. CASE ExportSends
  <2>1. Send("otlp") /\ ~Waits("otlp") /\ ItemOf("otlp") \in Item /\ sent < Batch
    BY <1>3, ItemsAreItems, SendersAreApart DEF ExportSends
  <2>2. /\ queue' \in Seq(Item) /\ Len(queue') <= Channel /\ LineOK(blocked)'
        /\ \A r : Waits(r)' <=> Waits(r) \/ (Full /\ r = "otlp")
        /\ blocked' # <<>> => Full'
    BY <2>1, SendKeepsLine, SendersAreApart
  <2>3. TypeOK'
    BY <1>0, <1>3, <2>1, <2>2, SendersAreApart DEF TypeOK, LineOK, ExportSends, ServerUnchanged, consumers
  <2>4. WaitersAreReal'
    BY <1>0, <1>3, <2>1, <2>2, SendersAreApart
    DEF WaitersAreReal, LineOK, ExportSends, ServerUnchanged, consumers
  <2> QED BY <2>3, <2>4 DEF Typed
<1>4. CASE ExportFails
  <2>1. /\ queue' = queue /\ LineOK(blocked)' /\ pipeline = "done"
        /\ \A r : Waits(r)' <=> Waits(r) /\ r # "otlp"
    BY <1>4, FailedSendKeepsLine DEF ExportFails
  <2>2. TypeOK'
    BY <1>0, <1>4, <2>1 DEF TypeOK, LineOK, ExportFails, ServerUnchanged, consumers
  <2>3. WaitersAreReal'
    BY <1>0, <1>4, <2>1 DEF WaitersAreReal, LineOK, ExportFails, ServerUnchanged, consumers
  <2> QED BY <2>2, <2>3 DEF Typed
<1>5. CASE ExportAborts
  <2>1. /\ queue' = queue /\ LineOK(blocked)'
        /\ \A r : Waits(r)' <=> Waits(r) /\ r # "otlp"
        /\ blocked = <<>> => blocked' = <<>>
    BY <1>0, <1>5, LeavingTheLine DEF ExportAborts
  <2>2. TypeOK'
    BY <1>0, <1>5, <2>1 DEF TypeOK, LineOK, ExportAborts, ServerUnchanged, consumers
  <2>3. WaitersAreReal'
    BY <1>0, <1>5, <2>1 DEF WaitersAreReal, LineOK, Full, ExportAborts, ServerUnchanged, consumers
  <2> QED BY <2>2, <2>3 DEF Typed
<1>6. CASE JournalReads
  <2>0. UNCHANGED <<main, shed, conn, client, sent, consumers, boards>> /\ journal = "reading" /\ ~Waits("journal")
    BY <1>6 DEF JournalReads, ThreadUnchanged
  <2>1. CASE UNCHANGED channel
    <3>1. (\A r : Waits(r)' <=> Waits(r)) /\ queue' = queue /\ blocked' = blocked
      BY <2>1 DEF Waits, channel
    <3>2. TypeOK'
      BY <1>0, <1>6, <2>0, <3>1 DEF TypeOK, JournalReads, consumers
    <3>3. WaitersAreReal'
      BY <1>0, <2>0, <3>1 DEF WaitersAreReal, consumers, Full
    <3> QED BY <3>2, <3>3 DEF Typed
  <2>2. CASE Send("journal")
    <3>1. ItemOf("journal") \in Item
      BY ItemsAreItems, SendersAreApart
    <3>2. /\ queue' \in Seq(Item) /\ Len(queue') <= Channel /\ LineOK(blocked)'
          /\ \A r : Waits(r)' <=> Waits(r) \/ (Full /\ r = "journal")
          /\ blocked' # <<>> => Full'
      BY <2>0, <2>2, <3>1, SendKeepsLine, SendersAreApart
    <3>3. TypeOK'
      BY <1>0, <1>6, <2>0, <3>2 DEF TypeOK, LineOK, JournalReads, consumers
    <3>4. WaitersAreReal'
      BY <1>0, <1>6, <2>0, <3>2, SendersAreApart DEF WaitersAreReal, LineOK, JournalReads, consumers
    <3> QED BY <3>3, <3>4 DEF Typed
  <2> QED BY <1>6, <2>1, <2>2 DEF JournalReads
<1>7. CASE JournalSendFails
  <2>1. /\ queue' = queue /\ LineOK(blocked)' /\ pipeline = "done"
        /\ \A r : Waits(r)' <=> Waits(r) /\ r # "journal"
    BY <1>7, FailedSendKeepsLine DEF JournalSendFails
  <2>2. TypeOK'
    BY <1>0, <1>7, <2>1 DEF TypeOK, LineOK, JournalSendFails, ThreadUnchanged, consumers
  <2>3. WaitersAreReal'
    BY <1>0, <1>7, <2>1, SendersAreApart DEF WaitersAreReal, LineOK, JournalSendFails, ThreadUnchanged, consumers
  <2> QED BY <2>2, <2>3 DEF Typed
<1> QED BY <1>1, <1>2, <1>3, <1>4, <1>5, <1>6, <1>7

\* recv frees a place for the first in line.
LEMMA ReceiveKeepsTyped ==
  ASSUME Typed, PipelineReceives
  PROVE  Typed'
<1>0. /\ TypeOK /\ WaitersAreReal /\ LineOK(blocked)
      /\ pipeline = "running" /\ queue # <<>> /\ queue \in Seq(Item)
      /\ hand' = <<Head(queue)>>
      /\ UNCHANGED <<main, shed, conn, client, pipeline, engineQueue, engine, handled, boards>>
  BY TypedLine DEF Typed, TypeOK, PipelineReceives
<1>1. /\ Head(queue) \in Item /\ Tail(queue) \in Seq(Item) /\ Len(Tail(queue)) = Len(queue) - 1
      /\ Len(queue) \in Nat /\ Len(queue) <= Channel
  BY <1>0 DEF TypeOK
<1>2. hand' \in Seq(Item) /\ Len(hand') <= 1
  BY <1>0, <1>1
<1>3. CASE blocked = <<>>
  <2>1. queue' = Tail(queue) /\ UNCHANGED <<blocked, sent, journal>>
    BY <1>3 DEF PipelineReceives
  <2>2. queue' \in Seq(Item) /\ Len(queue') <= Channel
    BY <1>1, <2>1, SendersAreApart
  <2>3. TypeOK'
    BY <1>0, <1>2, <2>1, <2>2 DEF TypeOK
  <2>4. WaitersAreReal'
    BY <1>0, <1>3, <2>1 DEF WaitersAreReal, Waits
  <2> QED BY <2>3, <2>4 DEF Typed
<1>4. CASE blocked # <<>>
  <2> DEFINE first == Head(blocked)
  <2>1. /\ queue' = Append(Tail(queue), ItemOf(first)) /\ blocked' = Tail(blocked)
        /\ sent' = IF first = "otlp" THEN sent + 1 ELSE sent
        /\ journal' = IF first = "journal" THEN "checking" ELSE journal
    BY <1>4 DEF PipelineReceives
  <2>2. /\ LineOK(blocked)' /\ first \in Sender /\ Waits(first)
        /\ \A r : Waits(r)' <=> Waits(r) /\ r # first
    BY <1>0, <1>4, <2>1, HeadOfTheLine
  <2>3. first = "otlp" => sent < Batch /\ client = "exporting"
    BY <1>0, <2>2 DEF WaitersAreReal
  <2>4. ItemOf(first) \in Item
    BY <2>2, <2>3, ItemsAreItems
  <2>5. queue' \in Seq(Item) /\ Len(queue') = Len(queue)
    BY <1>1, <2>1, <2>4
  <2> HIDE DEF first
  <2>6. Full'
    BY <1>0, <1>4, <2>5 DEF WaitersAreReal, Full
  <2>7. TypeOK'
    BY <1>0, <1>1, <1>2, <2>1, <2>2, <2>3, <2>5, SendersAreApart DEF TypeOK, LineOK
  <2>8. WaitersAreReal'
    BY <1>0, <2>1, <2>2, <2>6 DEF WaitersAreReal, LineOK
  <2> QED BY <2>7, <2>8 DEF Typed
<1> QED BY <1>3, <1>4

\* The line in hand, and the engine's channel.
LEMMA ConsumersKeepTyped ==
  ASSUME Typed, \/ PipelineForwards \/ PipelineBreaks \/ PipelineEnds
                \/ EngineHandles \/ EngineDies \/ EngineEnds
  PROVE  Typed'
<1>0. /\ TypeOK /\ WaitersAreReal
      /\ UNCHANGED <<main, listeners, channel, boards>>
      /\ pipeline' = "running" => pipeline = "running"
  BY DEF Typed, TypeOK, PipelineForwards, PipelineBreaks, PipelineEnds, EngineHandles, EngineDies, EngineEnds
<1>1. WaitersAreReal'
  BY <1>0 DEF WaitersAreReal, Waits, Full, listeners, channel
<1>2. CASE PipelineForwards
  <2>1. /\ engineQueue \in Seq(Item) /\ hand \in Seq(Item) /\ Len(hand) <= 1 /\ hand # <<>>
        /\ Len(engineQueue) < EngineChannel
        /\ engineQueue' = engineQueue \o hand /\ hand' = <<>>
        /\ UNCHANGED <<pipeline, engine, handled>>
    BY <1>0, <1>2 DEF PipelineForwards, TypeOK
  <2>2. engineQueue' \in Seq(Item) /\ Len(engineQueue') = Len(engineQueue) + Len(hand)
    BY <2>1
  <2>3. Len(engineQueue') <= EngineChannel
    BY <2>1, <2>2, SendersAreApart
  <2>4. TypeOK'
    BY <1>0, <2>1, <2>2, <2>3 DEF TypeOK, listeners, channel
  <2> QED BY <1>1, <2>4 DEF Typed
<1>3. CASE PipelineBreaks \/ PipelineEnds
  <2>1. /\ pipeline' = "done" /\ hand' \in {hand, <<>>}
        /\ UNCHANGED <<engineQueue, engine, handled>>
    BY <1>3 DEF PipelineBreaks, PipelineEnds
  <2>2. hand' \in Seq(Item) /\ Len(hand') <= 1
    <3>1. <<>> \in Seq(Item) /\ Len(<<>>) = 0
      OBVIOUS
    <3>2. CASE hand' = hand
      BY <1>0, <3>2 DEF TypeOK
    <3>3. CASE hand' = <<>>
      BY <3>1, <3>3
    <3> QED BY <2>1, <3>2, <3>3
  <2>3. TypeOK'
    BY <1>0, <2>1, <2>2 DEF TypeOK, listeners, channel
  <2> QED BY <1>1, <2>3 DEF Typed
<1>4. CASE EngineHandles
  <2>1. /\ engineQueue \in Seq(Item) /\ engineQueue # <<>> /\ Len(engineQueue) <= EngineChannel
        /\ engineQueue' = Tail(engineQueue)
        /\ handled' = handled \union ({Head(engineQueue)} \ {0})
        /\ UNCHANGED <<hand, pipeline, engine>>
    BY <1>0, <1>4 DEF EngineHandles, TypeOK
  <2>2. /\ engineQueue' \in Seq(Item) /\ Len(engineQueue') = Len(engineQueue) - 1
        /\ Head(engineQueue) \in Item
    BY <2>1
  <2>3. Len(engineQueue') <= EngineChannel
    BY <2>1, <2>2, SendersAreApart
  <2>4. handled' \subseteq Record
    <3>1. \A x \in Item : x # 0 => x \in Record
      BY SendersAreApart DEF Item, Record
    <3> QED BY <1>0, <2>1, <2>2, <3>1 DEF TypeOK
  <2>5. TypeOK'
    BY <1>0, <2>1, <2>2, <2>3, <2>4 DEF TypeOK, listeners, channel
  <2> QED BY <1>1, <2>5 DEF Typed
<1>5. CASE EngineDies \/ EngineEnds
  <2>1. TypeOK'
    BY <1>0, <1>5 DEF TypeOK, listeners, channel, EngineDies, EngineEnds
  <2> QED BY <1>1, <2>1 DEF Typed
<1> QED BY <1>2, <1>3, <1>4, <1>5

\* The steps that leave the line and the consumers alone.
LEMMA OthersKeepTyped ==
  ASSUME Typed,
         \/ Datagram \/ ExportBegins \/ ExportAnswers \/ JournalChecks \/ JournalTimesOut
         \/ \E c \in Conn : Accept(c) \/ ConnDrops(c) \/ ConnStops(c)
         \/ BoardOpens \/ StreamEnds \/ Main \/ Over
  PROVE  Typed'
<1>0. TypeOK /\ WaitersAreReal
  BY DEF Typed
<1>1. CASE Datagram
  <2>0. /\ UNCHANGED <<main, conn, client, sent, journal, blocked, consumers, boards>>
        /\ shed' \in 0 .. MaxShed /\ queue \in Seq(Item) /\ Len(queue) <= Channel
    BY <1>0, <1>1, SendersAreApart DEF Datagram, Shed, TypeOK
  <2>1. CASE pipeline = "running" /\ ~Full /\ queue' = Append(queue, 0)
    <3>1. blocked = <<>>
      BY <1>0, <2>1 DEF WaitersAreReal
    <3>2. 0 \in Item
      BY SendersAreApart DEF Item
    <3>3. queue' \in Seq(Item) /\ Len(queue') = Len(queue) + 1
      BY <2>0, <2>1, <3>2
    <3>4. Len(queue') <= Channel
      BY <2>0, <2>1, <3>3, SendersAreApart DEF Full
    <3>5. TypeOK'
      BY <1>0, <2>0, <3>3, <3>4 DEF TypeOK, consumers
    <3>6. WaitersAreReal'
      BY <1>0, <2>0, <3>1 DEF WaitersAreReal, Waits, consumers
    <3> QED BY <3>5, <3>6 DEF Typed
  <2>2. CASE queue' = queue
    <3>1. TypeOK'
      BY <1>0, <2>0, <2>2 DEF TypeOK, consumers
    <3>2. WaitersAreReal'
      BY <1>0, <2>0, <2>2 DEF WaitersAreReal, Waits, Full, consumers
    <3> QED BY <3>1, <3>2 DEF Typed
  <2> QED BY <1>1, <2>1, <2>2 DEF Datagram
<1>2. CASE ExportBegins \/ ExportAnswers
  <2>1. TypeOK'
    BY <1>0, <1>2, SendersAreApart
    DEF TypeOK, ExportBegins, ExportAnswers, ServerUnchanged, consumers, channel
  <2>2. WaitersAreReal'
    BY <1>0, <1>2, SendersAreApart
    DEF TypeOK, WaitersAreReal, Waits, Full, ExportBegins, ExportAnswers, ServerUnchanged, consumers, channel
  <2> QED BY <2>1, <2>2 DEF Typed
<1>3. CASE JournalChecks \/ JournalTimesOut
  <2>1. TypeOK'
    BY <1>0, <1>3 DEF TypeOK, JournalChecks, JournalTimesOut, ThreadUnchanged, consumers, channel
  <2>2. WaitersAreReal'
    BY <1>0, <1>3
    DEF WaitersAreReal, Waits, Full, JournalChecks, JournalTimesOut, ThreadUnchanged, consumers, channel
  <2> QED BY <2>1, <2>2 DEF Typed
<1>4. ASSUME NEW c \in Conn, Accept(c) \/ ConnDrops(c) \/ ConnStops(c) PROVE Typed'
  <2>1. /\ conn' \in [Conn -> {"closed", "open"}]
        /\ \A d \in Conn : conn[d] = "open" /\ conn'[d] # "open" => ~Waits(d)
        /\ UNCHANGED <<main, shed, client, sent, journal, channel, consumers, boards>>
    BY <1>0, <1>4 DEF TypeOK, Accept, ConnDrops, ConnStops, Closes
  <2>2. TypeOK'
    BY <1>0, <2>1 DEF TypeOK, consumers, channel
  <2>3. WaitersAreReal'
    BY <1>0, <2>1 DEF WaitersAreReal, Waits, Full, consumers, channel
  <2> QED BY <2>2, <2>3 DEF Typed
<1>5. CASE BoardOpens \/ StreamEnds
  <2>1. TypeOK'
    BY <1>0, <1>5, SendersAreApart DEF TypeOK, BoardOpens, StreamEnds, listeners, consumers, channel
  <2>2. WaitersAreReal'
    BY <1>0, <1>5 DEF WaitersAreReal, Waits, Full, BoardOpens, StreamEnds, listeners, consumers, channel
  <2> QED BY <2>1, <2>2 DEF Typed
<1>6. CASE Main
  <2>1. /\ UNCHANGED <<shed, conn, client, sent, channel, consumers, boards>>
        /\ journal = "reading" => journal' = "reading"
        /\ journal' \in {journal, "checking", "ended"}
        /\ main' \in {main, "failed", "starting", "serving", "stopping", "closing", "joining", "unclosed", "exited"}
    BY <1>6 DEF Main, MainMoves, Binds, BindFails, JournalOpens, Listens, ShutdownSignal, Drained,
                ClosesStore, CloseFails, Exits, listeners
  <2>2. TypeOK'
    BY <1>0, <2>1 DEF TypeOK, consumers, channel
  <2>3. WaitersAreReal'
    BY <1>0, <2>1 DEF WaitersAreReal, Waits, Full, consumers, channel
  <2> QED BY <2>2, <2>3 DEF Typed
<1>7. CASE Over
  BY <1>0, <1>7 DEF Over, Typed, TypeOK, WaitersAreReal, Waits, Full, vars, listeners, consumers, channel
<1> QED BY <1>1, <1>2, <1>3, <1>4, <1>5, <1>6, <1>7
\* The senders of lines, the other listeners and the boards apart.
LEMMA NextKeepsTyped == Typed /\ [Next]_vars => Typed'
<1> SUFFICES ASSUME Typed, [Next]_vars PROVE Typed'
  OBVIOUS
<1>1. CASE Listeners
  BY <1>1, SendersKeepTyped, OthersKeepTyped DEF Listeners, ConnSteps
<1>2. CASE Consumers
  BY <1>2, ReceiveKeepsTyped, ConsumersKeepTyped DEF Consumers
<1>3. CASE BoardOpens \/ StreamEnds \/ Main \/ Over
  BY <1>3, OthersKeepTyped
<1>4. CASE UNCHANGED vars
  BY <1>4 DEF Typed, TypeOK, WaitersAreReal, Waits, Full, vars, listeners, consumers, channel
<1> QED BY <1>1, <1>2, <1>3, <1>4 DEF Next

-----------------------------------------------------------------------------
(* What ends, ends after what feeds it.                                    *)

\* Only who holds a Sender takes a step of a listener, and only before the
\* token does a new export begin.
LEMMA ListenersAreSenders ==
  ASSUME Listeners
  PROVE  /\ SendersLeft
         /\ UNCHANGED <<main, pipeline, engine>>
         /\ client' = "exporting" => client = "exporting" \/ ~Cancelled
<1>1. CASE Datagram
  BY <1>1 DEF Datagram, SendersLeft, consumers
<1>2. ASSUME NEW c \in Conn, Accept(c) \/ ConnSteps(c)
      PROVE  SendersLeft /\ UNCHANGED <<main, pipeline, engine, client>>
  BY <1>2 DEF Accept, ConnSteps, ConnReads, ConnSendFails, ConnDrops, ConnStops, Closes,
              SendersLeft, listeners, consumers
<1>3. CASE ExportBegins \/ ExportSends \/ ExportAnswers \/ ExportFails \/ ExportAborts
  BY <1>3 DEF ExportBegins, ExportSends, ExportAnswers, ExportFails, ExportAborts, ServerUnchanged,
              SendersLeft, consumers
<1>4. CASE JournalChecks \/ JournalReads \/ JournalTimesOut \/ JournalSendFails
  BY <1>4 DEF JournalChecks, JournalReads, JournalTimesOut, JournalSendFails, ThreadUnchanged,
              SendersLeft, consumers
<1> QED BY <1>1, <1>2, <1>3, <1>4 DEF Listeners

LEMMA NextKeepsOrder == Typed /\ EndsInOrder /\ [Next]_vars => EndsInOrder'
<1> SUFFICES ASSUME Typed, EndsInOrder, [Next]_vars PROVE EndsInOrder'
  OBVIOUS
<1>0. TypeOK /\ WaitersAreReal
  BY DEF Typed
<1>1. CASE Listeners
  <2>1. /\ SendersLeft /\ UNCHANGED <<main, pipeline, engine>>
        /\ client' = "exporting" => client = "exporting" \/ ~Cancelled
    BY <1>1, ListenersAreSenders
  <2>2. pipeline = "running" \/ engine = "dead"
    BY <1>0, <2>1 DEF EndsInOrder, Stopped, TypeOK
  <2>3. UNCHANGED <<hand, engineQueue>> \/ pipeline = "running"
    BY <1>1 DEF Listeners, Datagram, Accept, ConnSteps, ConnReads, ConnSendFails, ConnDrops, ConnStops, Closes,
         ExportBegins, ExportSends, ExportAnswers, ExportFails, ExportAborts, ServerUnchanged,
         JournalChecks, JournalReads, JournalTimesOut, JournalSendFails, ThreadUnchanged, consumers
  <2> QED BY <2>1, <2>2, <2>3 DEF EndsInOrder, Stopped, Cancelled
<1>2. CASE PipelineReceives
  BY <1>0, <1>2 DEF EndsInOrder, Stopped, TypeOK, PipelineReceives
<1>3. CASE PipelineForwards
  BY <1>0, <1>3 DEF EndsInOrder, Stopped, TypeOK, PipelineForwards, SendersLeft, Cancelled, listeners, channel
<1>4. CASE PipelineBreaks
  <2>1. engine = "dead"
    BY <1>0, <1>4 DEF EndsInOrder, Stopped, TypeOK, PipelineBreaks
  <2> QED BY <1>4, <2>1 DEF EndsInOrder, Stopped, PipelineBreaks, listeners
<1>5. CASE PipelineEnds
  <2>1. blocked = <<>>
    <3>1. Len(queue) = 0 /\ Channel # 0
      BY <1>5, SendersAreApart DEF PipelineEnds
    <3> QED BY <1>0, <1>5, <3>1 DEF WaitersAreReal, Full, PipelineEnds
  <2> QED BY <1>0, <1>5, <2>1 DEF EndsInOrder, Stopped, PipelineEnds, SendersLeft, Cancelled, listeners, channel
<1>6. CASE EngineHandles \/ EngineDies \/ EngineEnds
  BY <1>0, <1>6
  DEF EndsInOrder, Stopped, EngineHandles, EngineDies, EngineEnds, SendersLeft, Cancelled, listeners, channel
<1>7. CASE BoardOpens \/ StreamEnds
  BY <1>7 DEF EndsInOrder, Stopped, BoardOpens, StreamEnds, SendersLeft, Cancelled, listeners, channel, consumers
<1>8. CASE Binds \/ BindFails \/ JournalOpens \/ Listens \/ ShutdownSignal
  <2>1. /\ ~Cancelled /\ main' \notin {"closing", "joining", "unclosed", "exited"}
        /\ UNCHANGED <<channel, consumers>>
    BY <1>8 DEF Binds, BindFails, JournalOpens, Listens, ShutdownSignal, MainMoves, Cancelled
  <2>2. pipeline = "running" \/ engine = "dead"
    BY <1>0, <2>1 DEF EndsInOrder, Stopped, SendersLeft, TypeOK
  <2> QED BY <2>1, <2>2 DEF EndsInOrder, Stopped, channel, consumers
<1>9. CASE Drained \/ ClosesStore \/ CloseFails \/ Exits
  BY <1>0, <1>9
  DEF EndsInOrder, Stopped, Tracked, Drained, ClosesStore, CloseFails, Exits, MainMoves, SendersLeft, Cancelled,
      listeners, channel, consumers
<1>10. CASE UNCHANGED vars
  BY <1>10 DEF EndsInOrder, Stopped, vars, SendersLeft, Cancelled, listeners, channel, consumers
<1> QED BY <1>1, <1>2, <1>3, <1>4, <1>5, <1>6, <1>7, <1>8, <1>9, <1>10 DEF Next, Consumers, Main, Over
-----------------------------------------------------------------------------
(* The records that are accepted.                                          *)

LEMMA RangeOfAppend ==
  ASSUME NEW q \in Seq(Item), NEW x \in Item
  PROVE  Range(Append(q, x)) = Range(q) \union {x}
<1>1. /\ DOMAIN Append(q, x) = 1 .. Len(q) + 1 /\ DOMAIN q = 1 .. Len(q) /\ Len(q) \in Nat
      /\ \A n \in 1 .. Len(q) : Append(q, x)[n] = q[n]
      /\ Append(q, x)[Len(q) + 1] = x
  OBVIOUS
<1>2. \A n \in DOMAIN Append(q, x) : n \in DOMAIN q \/ n = Len(q) + 1
  BY <1>1
<1>3. DOMAIN q \subseteq DOMAIN Append(q, x) /\ Len(q) + 1 \in DOMAIN Append(q, x)
  BY <1>1
<1> QED BY <1>1, <1>2, <1>3 DEF Range

LEMMA RangeOfTail ==
  ASSUME NEW q \in Seq(Item), q # <<>>
  PROVE  Range(q) = {Head(q)} \union Range(Tail(q))
<1>1. /\ DOMAIN Tail(q) = 1 .. Len(q) - 1 /\ DOMAIN q = 1 .. Len(q) /\ Len(q) \in Nat \ {0}
      /\ \A n \in 1 .. Len(q) - 1 : Tail(q)[n] = q[n + 1]
      /\ Head(q) = q[1]
  OBVIOUS
<1>2. Range(Tail(q)) \subseteq Range(q) /\ Head(q) \in Range(q)
  <2>1. \A n \in DOMAIN Tail(q) : n + 1 \in DOMAIN q
    BY <1>1
  <2>2. 1 \in DOMAIN q
    BY <1>1
  <2> QED BY <1>1, <2>1, <2>2 DEF Range
<1>3. ASSUME NEW n \in DOMAIN q PROVE q[n] \in {Head(q)} \union Range(Tail(q))
  <2>1. n = 1 \/ (n - 1 \in DOMAIN Tail(q) /\ n = (n - 1) + 1)
    BY <1>1
  <2>2. n - 1 \in DOMAIN Tail(q) /\ n = (n - 1) + 1 => Tail(q)[n - 1] = q[n]
    BY <1>1
  <2> QED BY <1>1, <2>1, <2>2 DEF Range
<1> QED BY <1>2, <1>3 DEF Range

LEMMA RangeOfOne ==
  ASSUME NEW q \in Seq(Item), NEW h \in Seq(Item), Len(h) <= 1, h # <<>>
  PROVE  Range(q \o h) = Range(q) \union Range(h)
<1>1. PICK x \in Item : h = <<x>>
  <2>1. Len(h) = 1 /\ h = <<h[1]>> /\ h[1] \in Item
    OBVIOUS
  <2> QED BY <2>1
<1>2. q \o <<x>> = Append(q, x)
  <2>1. /\ q \o <<x>> \in Seq(Item) /\ Len(q \o <<x>>) = Len(q) + 1
        /\ Append(q, x) \in Seq(Item) /\ Len(Append(q, x)) = Len(q) + 1
    OBVIOUS
  <2>2. \A n \in 1 .. Len(q) + 1 : (q \o <<x>>)[n] = Append(q, x)[n]
    OBVIOUS
  <2> QED BY <2>1, <2>2
<1>3. Range(<<x>>) = {x}
  BY DEF Range
<1>4. q \o h = Append(q, x) /\ Range(h) = {x}
  BY <1>1, <1>2, <1>3
<1>5. Range(Append(q, x)) = Range(q) \union {x}
  BY RangeOfAppend
<1> QED BY <1>4, <1>5

LEMMA RangeOfNone == Range(<<>>) = {}
  BY DEF Range

LEMMA AcceptedAreRecords ==
  ASSUME Typed
  PROVE  Accepted \subseteq Record
<1>1. \A q : q \in Seq(Item) => Range(q) \subseteq Item
  BY DEF Range
<1>2. \A x \in Item : x # 0 => x \in Record
  BY SendersAreApart DEF Item, Record
<1> QED BY <1>1, <1>2 DEF Accepted, Typed, TypeOK

\* Nothing of the export moves.
LEMMA NothingAccepted ==
  ASSUME ExportsAtLeastOnce, Accepted' = Accepted, UNCHANGED <<client, sent, engine>>
  PROVE  ExportsAtLeastOnce'
  BY DEF ExportsAtLeastOnce

\* The next record is accepted.
LEMMA NextAccepted ==
  ASSUME Typed, ExportsAtLeastOnce, client = "exporting", sent < Batch,
         Accepted' = Accepted \union {sent + 1}, sent' = sent + 1, UNCHANGED <<client, engine>>
  PROVE  ExportsAtLeastOnce'
<1>1. sent \in Nat /\ 1 .. sent + 1 = (1 .. sent) \union {sent + 1}
  BY SendersAreApart DEF Typed, TypeOK
<1> QED BY <1>1 DEF ExportsAtLeastOnce

\* A send accepts its item, if there is a place.
LEMMA SendAccepts ==
  ASSUME Typed, NEW s \in Sender, ItemOf(s) \in Item, Send(s), UNCHANGED consumers
  PROVE  Accepted' = Accepted \union (IF Full THEN {} ELSE {ItemOf(s)} \ {0})
<1>1. queue \in Seq(Item)
  BY DEF Typed, TypeOK
<1>2. CASE Full
  BY <1>2 DEF Send, Accepted, consumers
<1>3. CASE ~Full
  <2>1. Range(queue') = Range(queue) \union {ItemOf(s)}
    BY <1>1, <1>3, RangeOfAppend DEF Send
  <2> QED BY <1>3, <2>1 DEF Accepted, consumers
<1> QED BY <1>2, <1>3

LEMMA ListenersKeepExports ==
  ASSUME Typed, EndsInOrder, ExportsAtLeastOnce, Listeners
  PROVE  ExportsAtLeastOnce'
<1>0. TypeOK /\ UNCHANGED consumers /\ UNCHANGED engine
  BY DEF Typed, Listeners, Datagram, Accept, ConnSteps, ConnReads, ConnSendFails, ConnDrops, ConnStops, Closes,
         ExportBegins, ExportSends, ExportAnswers, ExportFails, ExportAborts, ServerUnchanged,
         JournalChecks, JournalReads, JournalTimesOut, JournalSendFails, ThreadUnchanged, consumers
<1>1. CASE UNCHANGED <<queue, client, sent>>
  <2>1. Accepted' = Accepted
    BY <1>0, <1>1 DEF Accepted, consumers
  <2> QED BY <1>0, <1>1, <2>1, NothingAccepted
<1>2. CASE Datagram
  <2>1. UNCHANGED <<client, sent>>
    BY <1>2 DEF Datagram
  <2>2. CASE queue' = Append(queue, 0)
    <3>1. 0 \in Item /\ queue \in Seq(Item)
      BY <1>0, SendersAreApart DEF TypeOK, Item
    <3>2. Range(queue') = Range(queue) \union {0}
      BY <2>2, <3>1, RangeOfAppend
    <3>3. Accepted' = Accepted
      BY <1>0, <3>2 DEF Accepted, consumers
    <3> QED BY <1>0, <2>1, <3>3, NothingAccepted
  <2> QED BY <1>1, <1>2, <2>1, <2>2 DEF Datagram
<1>3. ASSUME NEW c \in Conn, ConnReads(c) PROVE ExportsAtLeastOnce'
  <2>1. ItemOf(c) = 0 /\ c \in Sender
    BY SendersAreApart DEF ItemOf
  <2>2. ItemOf(c) \in Item
    BY <2>1, SendersAreApart DEF Item
  <2>3. Accepted' = Accepted /\ UNCHANGED <<client, sent>>
    BY <1>0, <1>3, <2>1, <2>2, SendAccepts DEF ConnReads, listeners
  <2> QED BY <1>0, <2>3, NothingAccepted
<1>4. ASSUME NEW c \in Conn, Accept(c) \/ ConnSendFails(c) \/ ConnDrops(c) \/ ConnStops(c)
      PROVE ExportsAtLeastOnce'
  BY <1>1, <1>4 DEF Accept, ConnSendFails, ConnDrops, ConnStops, Closes, SendFails, channel
<1>5. CASE ExportBegins
  <2>1. Accepted' = Accepted /\ client' = "exporting" /\ sent' = 0
    BY <1>0, <1>5 DEF ExportBegins, Accepted, consumers, channel
  <2>2. 1 .. 0 = {}
    OBVIOUS
  <2> QED BY <1>0, <2>1, <2>2 DEF ExportsAtLeastOnce
<1>6. CASE ExportSends
  <2>1. /\ client = "exporting" /\ sent < Batch /\ Send("otlp") /\ UNCHANGED client
        /\ sent' = IF Full THEN sent ELSE sent + 1
    BY <1>6 DEF ExportSends
  <2>2. /\ "otlp" \in Sender /\ ItemOf("otlp") \in Item
        /\ ItemOf("otlp") = sent + 1 /\ sent \in Nat
    BY <1>0, <2>1, ItemsAreItems, SendersAreApart DEF ItemOf, TypeOK
  <2>3. Accepted' = Accepted \union (IF Full THEN {} ELSE {sent + 1} \ {0})
    BY <1>0, <2>1, <2>2, SendAccepts
  <2>4. CASE Full
    BY <1>0, <2>1, <2>3, <2>4, NothingAccepted
  <2>5. CASE ~Full
    <3>1. Accepted' = Accepted \union {sent + 1}
      BY <2>2, <2>3, <2>5
    <3> QED BY <1>0, <2>1, <2>5, <3>1, NextAccepted
  <2> QED BY <2>4, <2>5
<1>7. CASE ExportAnswers
  <2>1. /\ Accepted' = Accepted /\ client = "exporting" /\ client' = "acked"
        /\ sent' = sent /\ sent = Batch
    BY <1>0, <1>7 DEF ExportAnswers, Accepted, consumers, channel
  <2>2. Accepted \subseteq Record
    BY AcceptedAreRecords
  <2> QED BY <1>0, <2>1, <2>2 DEF ExportsAtLeastOnce, Record
<1>8. CASE ExportFails \/ ExportAborts
  <2>1. Accepted' = Accepted /\ client' = "failed"
    BY <1>0, <1>8 DEF ExportFails, ExportAborts, SendFails, Accepted, consumers
  <2> QED BY <1>0, <2>1 DEF ExportsAtLeastOnce
<1>9. CASE JournalReads
  <2>1. UNCHANGED <<client, sent>>
    BY <1>9 DEF JournalReads, ThreadUnchanged
  <2>2. CASE UNCHANGED channel
    BY <1>1, <2>1, <2>2 DEF channel
  <2>3. CASE Send("journal")
    <3>1. "journal" \in Sender /\ ItemOf("journal") = 0 /\ 0 \in Item
      BY SendersAreApart DEF ItemOf, Item
    <3>2. Accepted' = Accepted
      BY <1>0, <2>3, <3>1, SendAccepts
    <3> QED BY <1>0, <2>1, <3>2, NothingAccepted
  <2> QED BY <1>9, <2>2, <2>3 DEF JournalReads
<1>10. CASE JournalChecks \/ JournalTimesOut \/ JournalSendFails
  BY <1>1, <1>10 DEF JournalChecks, JournalTimesOut, JournalSendFails, ThreadUnchanged, SendFails, channel
<1> QED BY <1>2, <1>3, <1>4, <1>5, <1>6, <1>7, <1>8, <1>9, <1>10 DEF Listeners, ConnSteps

LEMMA ConsumersKeepExports ==
  ASSUME Typed, EndsInOrder, ExportsAtLeastOnce, Consumers
  PROVE  ExportsAtLeastOnce'
<1>0. /\ TypeOK /\ WaitersAreReal /\ queue \in Seq(Item) /\ engineQueue \in Seq(Item) /\ hand \in Seq(Item)
      /\ UNCHANGED client
  BY DEF Typed, TypeOK, Consumers, PipelineReceives, PipelineForwards, PipelineBreaks, PipelineEnds,
         EngineHandles, EngineDies, EngineEnds, listeners
<1>1. CASE PipelineReceives
  <2>0. /\ queue # <<>> /\ hand = <<>> /\ hand' = <<Head(queue)>>
        /\ UNCHANGED <<engineQueue, engine, handled>>
    BY <1>1 DEF PipelineReceives
  <2>1. Range(queue) = {Head(queue)} \union Range(Tail(queue)) /\ Tail(queue) \in Seq(Item)
    BY <1>0, <2>0, RangeOfTail
  <2>2. Range(hand') = {Head(queue)} /\ Range(hand) = {}
    BY <2>0 DEF Range
  <2>3. CASE blocked = <<>>
    <3>1. queue' = Tail(queue) /\ UNCHANGED sent
      BY <1>1, <2>3 DEF PipelineReceives
    <3>2. Accepted' = Accepted
      BY <2>0, <2>1, <2>2, <3>1 DEF Accepted
    <3> QED BY <1>0, <2>0, <3>1, <3>2, NothingAccepted
  <2>4. CASE blocked # <<>>
    <3> DEFINE first == Head(blocked)
    <3>1. /\ queue' = Append(Tail(queue), ItemOf(first))
          /\ sent' = IF first = "otlp" THEN sent + 1 ELSE sent
          /\ blocked' = Tail(blocked)
      BY <1>1, <2>4 DEF PipelineReceives
    <3>2. first \in Sender /\ Waits(first)
      BY <2>4, <3>1, TypedLine, HeadOfTheLine
    <3>3. first = "otlp" => client = "exporting" /\ sent < Batch
      BY <1>0, <3>2 DEF WaitersAreReal
    <3>4. ItemOf(first) \in Item
      BY <3>2, <3>3, ItemsAreItems
    <3>5. Range(queue') = Range(Tail(queue)) \union {ItemOf(first)}
      BY <2>1, <3>1, <3>4, RangeOfAppend
    <3> HIDE DEF first
    <3>6. Accepted' = Accepted \union ({ItemOf(first)} \ {0})
      BY <2>0, <2>1, <2>2, <3>5 DEF Accepted
    <3>7. CASE first = "otlp"
      <4>1. ItemOf(first) = sent + 1 /\ sent \in Nat
        BY <1>0, <3>7, SendersAreApart DEF ItemOf, TypeOK
      <4>2. Accepted' = Accepted \union {sent + 1} /\ sent' = sent + 1
        BY <3>1, <3>6, <3>7, <4>1
      <4> QED BY <1>0, <2>0, <3>3, <3>7, <4>2, NextAccepted
    <3>8. CASE first # "otlp"
      <4>1. Accepted' = Accepted /\ sent' = sent
        BY <3>1, <3>6, <3>8 DEF ItemOf
      <4> QED BY <1>0, <2>0, <4>1, NothingAccepted
    <3> QED BY <3>7, <3>8
  <2> QED BY <2>3, <2>4
<1>2. CASE PipelineForwards
  <2>1. /\ hand # <<>> /\ Len(hand) <= 1 /\ engineQueue' = engineQueue \o hand /\ hand' = <<>>
        /\ UNCHANGED <<sent, queue, engine, handled>>
    BY <1>0, <1>2 DEF PipelineForwards, TypeOK, listeners, channel
  <2>2. Range(engineQueue') = Range(engineQueue) \union Range(hand)
    BY <1>0, <2>1, RangeOfOne
  <2>3. Accepted' = Accepted
    BY <2>1, <2>2, RangeOfNone DEF Accepted
  <2> QED BY <1>0, <2>1, <2>3, NothingAccepted
<1>3. CASE PipelineBreaks
  <2>1. engine = "dead" /\ engine' = engine
    BY <1>0, <1>3 DEF EndsInOrder, Stopped, TypeOK, PipelineBreaks
  <2> QED BY <2>1 DEF ExportsAtLeastOnce
<1>4. CASE PipelineEnds \/ EngineDies \/ EngineEnds
  <2>1. Accepted' = Accepted /\ sent' = sent /\ (engine' # "dead" => engine # "dead")
    BY <1>4 DEF PipelineEnds, EngineDies, EngineEnds, Accepted, listeners, channel
  <2> QED BY <1>0, <2>1 DEF ExportsAtLeastOnce
<1>5. CASE EngineHandles
  <2>1. /\ engineQueue # <<>> /\ engineQueue' = Tail(engineQueue)
        /\ handled' = handled \union ({Head(engineQueue)} \ {0})
        /\ UNCHANGED <<sent, queue, hand, engine>>
    BY <1>5 DEF EngineHandles, listeners, channel
  <2>2. Range(engineQueue) = {Head(engineQueue)} \union Range(Tail(engineQueue))
    BY <1>0, <2>1, RangeOfTail
  <2>3. Accepted' = Accepted
    BY <2>1, <2>2 DEF Accepted
  <2> QED BY <1>0, <2>1, <2>3, NothingAccepted
<1> QED BY <1>1, <1>2, <1>3, <1>4, <1>5 DEF Consumers

LEMMA NextKeepsExports == Typed /\ EndsInOrder /\ ExportsAtLeastOnce /\ [Next]_vars => ExportsAtLeastOnce'
<1> SUFFICES ASSUME Typed, EndsInOrder, ExportsAtLeastOnce, [Next]_vars PROVE ExportsAtLeastOnce'
  OBVIOUS
<1>1. CASE Listeners
  BY <1>1, ListenersKeepExports
<1>2. CASE Consumers
  BY <1>2, ConsumersKeepExports
<1>3. CASE BoardOpens \/ StreamEnds \/ Main \/ UNCHANGED vars
  <2>1. UNCHANGED <<client, sent, queue, consumers>>
    BY <1>3 DEF BoardOpens, StreamEnds, Main, Binds, BindFails, JournalOpens, Listens, ShutdownSignal,
                Drained, ClosesStore, CloseFails, Exits, MainMoves, vars, listeners, channel
  <2>2. Accepted' = Accepted /\ engine' = engine
    BY <2>1 DEF Accepted, consumers
  <2> QED BY <2>1, <2>2, NothingAccepted
<1> QED BY <1>1, <1>2, <1>3 DEF Next, Over

-----------------------------------------------------------------------------
(* The results.                                                            *)

\* The inductive invariant holds of every run.
THEOREM InductiveInvariant == Spec => []IndInv
<1>1. Init => IndInv
  <2> SUFFICES ASSUME Init PROVE IndInv
    OBVIOUS
  <2>1. EndsInOrder
    BY DEF Init, EndsInOrder, Stopped
  <2>2. Accepted = {} /\ client = "idle"
    BY RangeOfNone DEF Init, Accepted
  <2>3. ExportsAtLeastOnce
    BY <2>2 DEF ExportsAtLeastOnce
  <2> QED BY <2>1, <2>3, InitTyped DEF Typed, IndInv
<1>2. IndInv /\ [Next]_vars => IndInv'
  BY NextKeepsTyped, NextKeepsOrder, NextKeepsExports DEF IndInv, Typed
<1> QED BY <1>1, <1>2, PTL DEF Spec

\* A clean stop leaves nothing behind, however many peers, exports and lines
\* there were and wherever the stop found them (run_daemon, drive).
THEOREM StopLeavesNothing == Spec => []NothingLeftBehind
<1>1. IndInv => NothingLeftBehind
  BY DEF IndInv, EndsInOrder, NothingLeftBehind, TypeOK
<1> QED BY <1>1, InductiveInvariant, PTL

\* An export is accepted in order and answered only when all of it is, through
\* any retry and any full channel (export, otlp.rs).
THEOREM ExportsAreAccepted == Spec => []ExportsAtLeastOnce
<1>1. IndInv => ExportsAtLeastOnce
  BY DEF IndInv
<1> QED BY <1>1, InductiveInvariant, PTL
-----------------------------------------------------------------------------
(* The relay the daemon promises.                                          *)

\* One more at the end of the second is one more at the end of both.
LEMMA AppendToBoth ==
  ASSUME NEW p \in Seq(Item), NEW q \in Seq(Item), NEW x \in Item
  PROVE  p \o Append(q, x) = Append(p \o q, x)
<1>1. /\ p \o q \in Seq(Item) /\ Len(p \o q) = Len(p) + Len(q)
      /\ \A i \in 1 .. Len(p) + Len(q) : (p \o q)[i] = IF i <= Len(p) THEN p[i] ELSE q[i - Len(p)]
      /\ Len(p) \in Nat /\ Len(q) \in Nat
  BY ConcatProperties, LenProperties
<1>2. /\ Append(q, x) \in Seq(Item) /\ Len(Append(q, x)) = Len(q) + 1
      /\ \A i \in 1 .. Len(q) : Append(q, x)[i] = q[i]
      /\ Append(q, x)[Len(q) + 1] = x
  OBVIOUS
<1>3. /\ p \o Append(q, x) \in Seq(Item) /\ Len(p \o Append(q, x)) = Len(p) + Len(q) + 1
      /\ \A i \in 1 .. Len(p) + (Len(q) + 1) :
           (p \o Append(q, x))[i] = IF i <= Len(p) THEN p[i] ELSE Append(q, x)[i - Len(p)]
  <2>1. p \o Append(q, x) \in Seq(Item) /\ Len(p \o Append(q, x)) = Len(p) + Len(Append(q, x))
    BY <1>2, ConcatProperties
  <2>2. \A i \in 1 .. Len(p) + Len(Append(q, x)) :
          (p \o Append(q, x))[i] = IF i <= Len(p) THEN p[i] ELSE Append(q, x)[i - Len(p)]
    BY <1>2, ConcatProperties
  <2> QED BY <1>1, <1>2, <2>1, <2>2
<1>4. /\ Append(p \o q, x) \in Seq(Item) /\ Len(Append(p \o q, x)) = Len(p) + Len(q) + 1
      /\ \A i \in 1 .. Len(p) + Len(q) : Append(p \o q, x)[i] = (p \o q)[i]
      /\ Append(p \o q, x)[Len(p) + Len(q) + 1] = x
  BY <1>1
<1>5. ASSUME NEW i \in 1 .. Len(p) + Len(q) + 1
      PROVE  (p \o Append(q, x))[i] = Append(p \o q, x)[i]
  BY <1>1, <1>2, <1>3, <1>4
<1> QED BY <1>3, <1>4, <1>5, SeqEqual

\* The first of both is the first of the first.
LEMMA TailOfBoth ==
  ASSUME NEW p \in Seq(Item), NEW q \in Seq(Item), p # <<>>
  PROVE  p \o q # <<>> /\ Tail(p \o q) = Tail(p) \o q
<1>1. /\ p \o q \in Seq(Item) /\ Len(p \o q) = Len(p) + Len(q)
      /\ \A i \in 1 .. Len(p) + Len(q) : (p \o q)[i] = IF i <= Len(p) THEN p[i] ELSE q[i - Len(p)]
      /\ Len(p) \in Nat \ {0} /\ Len(q) \in Nat
  BY ConcatProperties, LenProperties, EmptySeq
<1>2. p \o q # <<>>
  BY ConcatEqualIffEmpty
<1>3. /\ Tail(p \o q) \in Seq(Item) /\ Len(Tail(p \o q)) = Len(p) + Len(q) - 1
      /\ \A i \in 1 .. Len(p) + Len(q) - 1 : Tail(p \o q)[i] = (p \o q)[i + 1]
  BY <1>1, <1>2, HeadTailProperties
<1>4. /\ Tail(p) \in Seq(Item) /\ Len(Tail(p)) = Len(p) - 1
      /\ \A i \in 1 .. Len(p) - 1 : Tail(p)[i] = p[i + 1]
  BY HeadTailProperties
<1>5. /\ Tail(p) \o q \in Seq(Item) /\ Len(Tail(p) \o q) = Len(p) - 1 + Len(q)
      /\ \A i \in 1 .. (Len(p) - 1) + Len(q) :
           (Tail(p) \o q)[i] = IF i <= Len(p) - 1 THEN Tail(p)[i] ELSE q[i - (Len(p) - 1)]
  <2>1. Tail(p) \o q \in Seq(Item) /\ Len(Tail(p) \o q) = Len(Tail(p)) + Len(q)
    BY <1>4, ConcatProperties
  <2>2. \A i \in 1 .. Len(Tail(p)) + Len(q) :
          (Tail(p) \o q)[i] = IF i <= Len(Tail(p)) THEN Tail(p)[i] ELSE q[i - Len(Tail(p))]
    BY <1>4, ConcatProperties
  <2> QED BY <1>1, <1>4, <2>1, <2>2
<1>6. ASSUME NEW i \in 1 .. Len(p) + Len(q) - 1
      PROVE  Tail(p \o q)[i] = (Tail(p) \o q)[i]
  <2>1. (p \o q)[i + 1] = IF i + 1 <= Len(p) THEN p[i + 1] ELSE q[(i + 1) - Len(p)]
    BY <1>1
  <2>2. (i + 1) - Len(p) = i - (Len(p) - 1)
    BY <1>1
  <2> QED BY <1>1, <1>3, <1>4, <1>5, <2>1, <2>2
<1> QED BY <1>2, <1>3, <1>5, <1>6, SeqEqual

\* The head moves from the second into the middle.
LEMMA HeadAndTail ==
  ASSUME NEW q \in Seq(Item), q # <<>>
  PROVE  <<Head(q)>> \o Tail(q) = q
<1>1. /\ Head(q) \in Item /\ Head(q) = q[1] /\ Tail(q) \in Seq(Item) /\ Len(Tail(q)) = Len(q) - 1
      /\ \A i \in 1 .. Len(Tail(q)) : Tail(q)[i] = q[i + 1]
      /\ Len(q) \in Nat \ {0}
  BY HeadTailProperties, EmptySeq
<1>2. /\ <<Head(q)>> \in Seq(Item) /\ Len(<<Head(q)>>) = 1 /\ <<Head(q)>>[1] = Head(q)
  BY <1>1
<1>3. /\ <<Head(q)>> \o Tail(q) \in Seq(Item) /\ Len(<<Head(q)>> \o Tail(q)) = 1 + Len(Tail(q))
      /\ \A i \in 1 .. 1 + Len(Tail(q)) :
           (<<Head(q)>> \o Tail(q))[i] = IF i <= 1 THEN <<Head(q)>>[i] ELSE Tail(q)[i - 1]
  BY <1>1, <1>2, ConcatProperties
<1>4. ASSUME NEW i \in 1 .. Len(q) PROVE (<<Head(q)>> \o Tail(q))[i] = q[i]
  BY <1>1, <1>2, <1>3
<1> QED BY <1>1, <1>3, <1>4, SeqEqual
\* What the relay has in transit.
Transit == engineQueue \o hand \o queue

\* A listener puts at most one item at the end of the queue.
LEMMA ListenersAppend ==
  ASSUME Typed, Listeners
  PROVE  queue' = queue \/ \E x \in Item : queue' = Append(queue, x)
<1>1. ASSUME NEW s \in Sender, s = "otlp" => sent < Batch, Send(s)
      PROVE  queue' = queue \/ \E x \in Item : queue' = Append(queue, x)
  BY <1>1, ItemsAreItems DEF Send
<1>2. 0 \in Item
  BY SendersAreApart DEF Item
<1>3. ASSUME NEW c \in Conn, Accept(c) \/ ConnSteps(c)
      PROVE  queue' = queue \/ \E x \in Item : queue' = Append(queue, x)
  BY <1>1, <1>3, SendersAreApart
  DEF Accept, ConnSteps, ConnReads, ConnSendFails, ConnDrops, ConnStops, SendFails, channel
<1>4. CASE ExportSends
  BY <1>1, <1>4, SendersAreApart DEF ExportSends
<1>5. CASE JournalReads
  BY <1>1, <1>5, SendersAreApart DEF JournalReads, channel
<1> QED BY <1>2, <1>3, <1>4, <1>5
        DEF Listeners, Datagram, ExportBegins, ExportAnswers, ExportFails, ExportAborts,
            JournalChecks, JournalTimesOut, JournalSendFails, SendFails, channel

\* Every step of the daemon is a step of the relay, or none.
LEMMA StepImplementsRelay == IndInv /\ [Next]_vars => [Promised!Next]_(Promised!vars)
<1> SUFFICES ASSUME IndInv, [Next]_vars PROVE [Promised!Next]_(Promised!vars)
  OBVIOUS
<1> USE DEF Promised!vars, Promised!Next
<1>0. /\ Typed /\ TypeOK /\ EndsInOrder
      /\ queue \in Seq(Item) /\ hand \in Seq(Item) /\ engineQueue \in Seq(Item)
      /\ engineQueue \o hand \in Seq(Item)
  BY ConcatProperties DEF IndInv, Typed, TypeOK
<1>1. CASE UNCHANGED <<Transit, Crashed, Stopped>>
  BY <1>1 DEF Transit, Stopped
<1>2. CASE Crashed
  <2>1. Crashed'
    BY <1>2 DEF Crashed, Next, Spawned, Listeners, Datagram, Accept, ConnSteps, ConnReads, ConnSendFails,
         ConnDrops, ConnStops, Closes, ExportBegins, ExportSends, ExportAnswers, ExportFails, ExportAborts,
         ServerUnchanged, JournalChecks, JournalReads, JournalTimesOut, JournalSendFails, ThreadUnchanged,
         Consumers, PipelineReceives, PipelineForwards, PipelineBreaks, PipelineEnds,
         EngineHandles, EngineDies, EngineEnds, BoardOpens, StreamEnds, Main, Binds, BindFails, JournalOpens,
         Listens, ShutdownSignal, Drained, ClosesStore, CloseFails, Exits, MainMoves, Over, vars, listeners, consumers
  <2> QED BY <1>2, <2>1
<1>3. CASE ~Crashed
  <2>0. engine # "dead" /\ main # "failed"
    BY <1>3 DEF Crashed
  <2>1. CASE Listeners
    <3>1. /\ SendersLeft /\ UNCHANGED <<main, pipeline, engine, engineQueue, hand>>
      BY <2>1, ListenersAreSenders
      DEF Listeners, Datagram, Accept, ConnSteps, ConnReads, ConnSendFails, ConnDrops, ConnStops, Closes,
          ExportBegins, ExportSends, ExportAnswers, ExportFails, ExportAborts, ServerUnchanged,
          JournalChecks, JournalReads, JournalTimesOut, JournalSendFails, ThreadUnchanged, consumers
    <3>2. pipeline = "running" /\ ~Stopped /\ ~Stopped' /\ ~Crashed'
      BY <1>0, <2>0, <3>1 DEF EndsInOrder, Stopped, Crashed, TypeOK
    <3>3. CASE queue' = queue
      BY <1>1, <1>3, <3>1, <3>2, <3>3 DEF Transit
    <3>4. ASSUME NEW x \in Item, queue' = Append(queue, x)
          PROVE  Promised!Accept
      <4>1. Transit' = Append(Transit, x)
        BY <1>0, <3>1, <3>4, AppendToBoth DEF Transit
      <4> QED BY <1>3, <3>2, <4>1 DEF Promised!Accept, Stopped, Transit
    <3> QED BY <1>0, <2>1, <3>3, <3>4, ListenersAppend
  <2>2. CASE PipelineReceives
    <3>1. /\ queue # <<>> /\ hand = <<>> /\ hand' = <<Head(queue)>> /\ pipeline = "running"
          /\ UNCHANGED <<main, engine, engineQueue>>
      BY <2>2 DEF PipelineReceives
    <3>2. ~Stopped /\ ~Stopped' /\ ~Crashed'
      BY <1>0, <2>0, <3>1 DEF EndsInOrder, Stopped, Crashed
    <3>3. Head(queue) \in Item /\ Tail(queue) \in Seq(Item) /\ hand' \in Seq(Item)
      BY <1>0, <3>1, HeadTailProperties
    <3>4. (engineQueue \o hand') \o Tail(queue) = Transit
      <4>1. (engineQueue \o hand') \o Tail(queue) = engineQueue \o (hand' \o Tail(queue))
        BY <1>0, <3>3, ConcatAssociative
      <4>2. hand' \o Tail(queue) = queue
        BY <1>0, <3>1, HeadAndTail
      <4>3. engineQueue \o hand = engineQueue
        BY <1>0, <3>1, ConcatEmptySeq
      <4> QED BY <4>1, <4>2, <4>3 DEF Transit
    <3>5. CASE blocked = <<>>
      <4>1. Transit' = Transit
        BY <2>2, <3>1, <3>4, <3>5 DEF PipelineReceives, Transit
      <4>2. UNCHANGED <<Crashed, Stopped>>
        BY <1>3, <3>2 DEF Crashed, Stopped
      <4> QED BY <1>1, <4>1, <4>2
    <3>6. CASE blocked # <<>>
      <4> DEFINE first == Head(blocked)
      <4>1. queue' = Append(Tail(queue), ItemOf(first)) /\ blocked' = Tail(blocked)
        BY <2>2, <3>6 DEF PipelineReceives
      <4>2. first \in Sender /\ Waits(first)
        BY <1>0, <3>6, <4>1, TypedLine, HeadOfTheLine
      <4>3. ItemOf(first) \in Item
        BY <1>0, <4>2, ItemsAreItems DEF Typed, WaitersAreReal
      <4> HIDE DEF first
      <4>4. engineQueue \o hand' \in Seq(Item)
        BY <1>0, <3>3, ConcatProperties
      <4>5. Transit' = Append(Transit, ItemOf(first))
        <5>1. Transit' = (engineQueue \o hand') \o Append(Tail(queue), ItemOf(first))
          BY <3>1, <4>1 DEF Transit
        <5>2. (engineQueue \o hand') \o Append(Tail(queue), ItemOf(first))
                = Append((engineQueue \o hand') \o Tail(queue), ItemOf(first))
          BY <3>3, <4>3, <4>4, AppendToBoth
        <5> QED BY <3>4, <5>1, <5>2
      <4> QED BY <1>3, <3>2, <4>3, <4>5 DEF Promised!Accept, Stopped, Transit
    <3> QED BY <3>5, <3>6
  <2>3. CASE PipelineForwards
    <3>1. /\ engineQueue' = engineQueue \o hand /\ hand' = <<>>
          /\ UNCHANGED <<main, engine, queue>>
      BY <2>3 DEF PipelineForwards, channel
    <3>2. Transit' = Transit
      BY <1>0, <3>1, ConcatEmptySeq DEF Transit
    <3> QED BY <1>1, <3>1, <3>2 DEF Crashed, Stopped
  <2>4. CASE PipelineBreaks
    BY <1>0, <2>0, <2>4 DEF EndsInOrder, Stopped, TypeOK, PipelineBreaks
  <2>5. CASE PipelineEnds \/ EngineEnds
    <3>1. UNCHANGED <<main, queue, hand, engineQueue>> /\ engine' # "dead"
      BY <2>0, <2>5 DEF PipelineEnds, EngineEnds, channel
    <3> QED BY <1>1, <2>0, <3>1 DEF Crashed, Stopped, Transit
  <2>6. CASE EngineHandles
    <3>1. /\ engine = "running" /\ engineQueue # <<>> /\ engineQueue' = Tail(engineQueue)
          /\ UNCHANGED <<main, engine, queue, hand>>
      BY <2>6 DEF EngineHandles, channel
    <3>2. ~Stopped /\ ~Stopped' /\ ~Crashed'
      BY <1>0, <2>0, <3>1 DEF EndsInOrder, Stopped, Crashed
    <3>3. engineQueue \o hand # <<>> /\ Tail(engineQueue \o hand) = Tail(engineQueue) \o hand
      BY <1>0, <3>1, TailOfBoth
    <3>4. Transit # <<>> /\ Transit' = Tail(Transit)
      BY <1>0, <3>1, <3>3, TailOfBoth DEF Transit
    <3> QED BY <1>3, <3>2, <3>4 DEF Promised!Handle, Stopped, Transit
  <2>7. CASE EngineDies \/ BindFails \/ (JournalOpens /\ main' = "failed")
    <3>1. Crashed' /\ ~Stopped
      BY <1>0, <2>7 DEF EndsInOrder, Stopped, Crashed, EngineDies, BindFails, JournalOpens, MainMoves
    <3> QED BY <1>3, <3>1 DEF Promised!Crash, Stopped
  <2>8. CASE Drained
    <3>1. /\ main = "stopping" /\ main' = "closing" /\ Tracked
          /\ UNCHANGED <<queue, hand, engineQueue, engine>>
      BY <2>8 DEF Drained, MainMoves, channel, consumers
    <3>2. queue = <<>> /\ hand = <<>> /\ engineQueue = <<>>
      BY <1>0, <2>0, <3>1 DEF EndsInOrder, Stopped, Tracked, TypeOK
    <3>3. Transit = <<>> /\ Transit' = <<>>
      BY <1>0, <3>1, <3>2, ConcatEmptySeq DEF Transit
    <3> QED BY <1>3, <2>0, <3>1, <3>3 DEF Promised!Stop, Crashed, Stopped, Transit
  <2>9. CASE \/ BoardOpens \/ StreamEnds \/ Binds \/ (JournalOpens /\ main' # "failed") \/ Listens
             \/ ShutdownSignal \/ ClosesStore \/ CloseFails \/ Exits \/ UNCHANGED vars
    <3>1. /\ UNCHANGED <<queue, hand, engineQueue, engine>>
          /\ Stopped' = Stopped /\ main' # "failed"
      BY <2>0, <2>9 DEF BoardOpens, StreamEnds, Binds, JournalOpens, Listens, ShutdownSignal, ClosesStore,
         CloseFails, Exits, MainMoves, vars, listeners, channel, consumers, Stopped
    <3> QED BY <1>1, <2>0, <3>1 DEF Crashed, Transit
  <2> QED BY <2>1, <2>2, <2>3, <2>4, <2>5, <2>6, <2>7, <2>8, <2>9 DEF Next, Consumers, Main, Over
<1> QED BY <1>2, <1>3

\* Seen from the two channels and the line in hand, the daemon only accepts
\* lines, handles the oldest, stops when none is left, or crashes: no line is
\* handled twice, out of order or lost by a stop (drive, Engine::run,
\* run_daemon).
THEOREM StepsImplementRelay == Spec => Promised!Init /\ [][Promised!Next]_(Promised!vars)
<1>1. Init => Promised!Init
  <2>1. Init => engineQueue \o hand \o queue = <<>>
    BY ConcatEmptySeq, EmptySeq DEF Init
  <2> QED BY <2>1 DEF Init, Promised!Init, Crashed, Stopped
<1> QED BY <1>1, InductiveInvariant, StepImplementsRelay, PTL DEF Spec
=============================================================================
