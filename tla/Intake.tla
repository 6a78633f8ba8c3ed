------------------------------- MODULE Intake -------------------------------
(***************************************************************************)
(* The way of a line through the daemon: the listeners of oarfish-ingest   *)
(* (syslog.rs, otlp.rs, journal.rs), the one bounded channel they share,   *)
(* the pipeline (pipeline.rs), the engine's channel, and the start and the *)
(* stop of them all (main.rs).                                             *)
(*                                                                         *)
(* A task runs between two awaits in one step.  A line is 0, record k of   *)
(* the one export request is k.  send().await on a full channel waits in   *)
(* line: tokio hands a freed place to the first that waits, before anybody *)
(* who only tries.  The sockets and the servers stop at the token: what    *)
(* one of them takes before it polls the token came before the token.  The *)
(* engine's handlers are in AlarmEngine; here it takes its lines, or dies  *)
(* of a panic in a build that unwinds.                                     *)
(***************************************************************************)
EXTENDS Naturals, Sequences, SequencesExt

CONSTANTS
  Conn,           \* peers of the TCP listener, one connection each at a time
  Channel,        \* capacity of the channel into the pipeline
  EngineChannel,  \* capacity of the channel into the engine
  Batch,          \* records of the export request
  Journal,        \* TRUE: --journal
  EngineFaults,   \* TRUE: a build that unwinds, whose engine may panic
  MaxBoards,      \* bound: boards on the event stream
  MaxShed         \* bound: where the shed counter stops

Record == 1 .. Batch
Item   == 0 .. Batch
Sender == Conn \union {"otlp", "journal"}   \* those that send().await

ASSUME IntakeAssumption ==
  /\ {Channel, EngineChannel, Batch} \subseteq Nat \ {0}
  /\ {MaxBoards, MaxShed} \subseteq Nat
  /\ {Journal, EngineFaults} \subseteq BOOLEAN
  /\ {"otlp", "journal"} \intersect Conn = {}

VARIABLES
  main,         \* run_daemon
  shed,         \* the UDP listener's counter of dropped datagrams
  conn,         \* serve_conn of each peer: "closed" or "open"
  client,       \* the exporter: "idle", "exporting", "acked" or "failed"
  sent,         \* records of this attempt that are in the channel
  journal,      \* its thread: "off", "opening", "checking", "reading" or "ended"
  queue,        \* the channel into the pipeline
  blocked,      \* senders waiting for a place in it, in order
  hand,         \* the line the pipeline is forwarding, or none
  pipeline,     \* "running" or "done"
  engineQueue,  \* the channel into the engine
  engine,       \* "running", "done" or "dead"
  handled,      \* the records the engine has taken
  boards        \* open event streams

listeners == <<shed, conn, client, sent, journal>>
channel   == <<queue, blocked>>
consumers == <<hand, pipeline, engineQueue, engine, handled>>
vars == <<main, listeners, channel, consumers, boards>>

-----------------------------------------------------------------------------
\* The tasks run from the spawn to the end of main.
Spawned   == main \in {"starting", "serving", "stopping", "closing", "joining"}
Cancelled == main \in {"stopping", "closing", "joining", "unclosed", "exited"}
\* From when the tracker has let main go on.
Stopped   == main \in {"closing", "joining", "unclosed", "exited"}

\* Somebody holds a Sender of the channel: main and the sockets until the
\* token, a connection, an export and the journal's thread until they end.
SendersLeft ==
  \/ ~Cancelled
  \/ \E c \in Conn : conn[c] = "open"
  \/ client = "exporting"
  \/ journal \notin {"off", "ended"}

Waits(s) == s \in Range(blocked)

\* The line without s.
LineWithout(s) ==
  IF ~Waits(s) THEN blocked
  ELSE LET place == CHOOSE n \in DOMAIN blocked : blocked[n] = s
       IN  [n \in 1 .. Len(blocked) - 1 |-> blocked[IF n < place THEN n ELSE n + 1]]

Full     == Len(queue) = Channel

\* What s has in hand.
ItemOf(s) == IF s = "otlp" THEN sent + 1 ELSE 0

\* tx.send(event).await on a live channel: in at once, or in line for a place.
Send(s) ==
  /\ pipeline = "running"
  /\ IF Full
       THEN blocked' = Append(blocked, s) /\ UNCHANGED queue
       ELSE queue' = Append(queue, ItemOf(s)) /\ UNCHANGED blocked

\* A send that failed, in line or before: the pipeline is gone.
SendFails(s) ==
  /\ pipeline = "done"
  /\ blocked' = LineWithout(s)
  /\ UNCHANGED queue

-----------------------------------------------------------------------------
(* Syslog over UDP.                                                        *)

\* A datagram over the quota or past a full channel is counted, not kept.  A
\* closed channel ends the listener, which is to say no datagram more.
Shed == shed' = IF shed < MaxShed THEN shed + 1 ELSE shed

Datagram ==
  /\ ~Cancelled
  /\ \/ pipeline = "running" /\ ~Full /\ queue' = Append(queue, 0) /\ UNCHANGED shed
     \/ Shed /\ UNCHANGED queue
  /\ UNCHANGED <<main, conn, client, sent, journal, blocked, consumers, boards>>

-----------------------------------------------------------------------------
(* Syslog over TCP.                                                        *)

Accept(c) ==
  /\ ~Cancelled
  /\ conn[c] = "closed"
  /\ conn' = [conn EXCEPT ![c] = "open"]
  /\ UNCHANGED <<main, shed, client, sent, journal, channel, consumers, boards>>

\* A whole line: a connection that waits for a place reads no further.
ConnReads(c) ==
  /\ conn[c] = "open"
  /\ ~Waits(c)
  /\ Send(c)
  /\ UNCHANGED <<main, listeners, consumers, boards>>

Closes(c) ==
  /\ conn' = [conn EXCEPT ![c] = "closed"]
  /\ UNCHANGED <<main, shed, client, sent, journal, consumers,
                 boards>>

\* A line, and nobody to take it: the connection ends.
ConnSendFails(c) ==
  /\ conn[c] = "open"
  /\ SendFails(c)
  /\ Closes(c)

\* The peer closes or resets, or its line is too long.
ConnDrops(c) ==
  /\ conn[c] = "open"
  /\ ~Waits(c)
  /\ Closes(c)
  /\ UNCHANGED channel

ConnStops(c) ==
  /\ conn[c] = "open"
  /\ ~Waits(c)
  /\ Cancelled
  /\ Closes(c)
  /\ UNCHANGED channel

-----------------------------------------------------------------------------
(* OTLP.                                                                   *)

ServerUnchanged == UNCHANGED <<main, shed, conn, journal, consumers, boards>>

\* The request, or the same request again: nobody remembers what a failed
\* attempt left in the channel.
ExportBegins ==
  /\ ~Cancelled
  /\ client \in {"idle", "failed"}
  /\ client' = "exporting"
  /\ sent' = 0
  /\ UNCHANGED channel
  /\ ServerUnchanged

\* Mutant of ExportSends: the count moves on while the record still waits.
ExportSendsAhead ==
  /\ client = "exporting"
  /\ ~Waits("otlp")
  /\ sent < Batch
  /\ Send("otlp")
  /\ sent' = sent + 1
  /\ UNCHANGED client
  /\ ServerUnchanged

ExportSends ==
  /\ client = "exporting"
  /\ ~Waits("otlp")
  /\ sent < Batch
  /\ Send("otlp")
  /\ sent' = IF Full THEN sent ELSE sent + 1
  /\ UNCHANGED client
  /\ ServerUnchanged

ExportAnswers ==
  /\ client = "exporting"
  /\ sent = Batch
  /\ client' = "acked"
  /\ UNCHANGED <<sent, channel>>
  /\ ServerUnchanged

\* unavailable: the pipeline is gone.
ExportFails ==
  /\ client = "exporting"
  /\ sent < Batch
  /\ SendFails("otlp")
  /\ client' = "failed"
  /\ UNCHANGED sent
  /\ ServerUnchanged

\* The exporter gives up waiting: its request is dropped where it stands.
ExportAborts ==
  /\ client = "exporting"
  /\ client' = "failed"
  /\ blocked' = LineWithout("otlp")
  /\ UNCHANGED <<sent, queue>>
  /\ ServerUnchanged

-----------------------------------------------------------------------------
(* The journal's thread.                                                   *)

ThreadUnchanged ==
  UNCHANGED <<main, shed, conn, client, sent, consumers, boards>>

\* Mutant of JournalChecks: left to the arm where no entry came.
JournalChecksLater ==
  /\ journal = "checking"
  /\ journal' = "reading"
  /\ UNCHANGED channel
  /\ ThreadUnchanged

JournalChecks ==
  /\ journal = "checking"
  /\ journal' = IF Cancelled THEN "ended" ELSE "reading"
  /\ UNCHANGED channel
  /\ ThreadUnchanged

\* An entry: the daemon's own are skipped, others are sent.
JournalReads ==
  /\ journal = "reading"
  /\ ~Waits("journal")
  /\ UNCHANGED channel \/ Send("journal")
  /\ journal' = IF Waits("journal")' THEN "reading" ELSE "checking"
  /\ ThreadUnchanged

\* No entry within the wait, or a failed read.
JournalTimesOut ==
  /\ journal = "reading"
  /\ ~Waits("journal")
  /\ journal' = IF Cancelled THEN "ended" ELSE "checking"
  /\ UNCHANGED channel
  /\ ThreadUnchanged

JournalSendFails ==
  /\ journal = "reading"
  /\ SendFails("journal")
  /\ journal' = "ended"
  /\ ThreadUnchanged

-----------------------------------------------------------------------------
(* The pipeline and the engine.                                            *)

\* recv: the place freed goes to the first in line, whose send is then done.
PipelineReceives ==
  /\ pipeline = "running"
  /\ hand = <<>>
  /\ queue # <<>>
  /\ hand' = <<Head(queue)>>
  /\ IF blocked = <<>>
       THEN queue' = Tail(queue) /\ UNCHANGED <<blocked, sent, journal>>
       ELSE /\ queue' = Append(Tail(queue), ItemOf(Head(blocked)))
            /\ blocked' = Tail(blocked)
            /\ sent' = IF Head(blocked) = "otlp" THEN sent + 1 ELSE sent
            /\ journal' = IF Head(blocked) = "journal" THEN "checking" ELSE journal
  /\ UNCHANGED <<main, shed, conn, client, pipeline,
                 engineQueue, engine, handled, boards>>

\* assign, and send().await into the engine's channel.
PipelineForwards ==
  /\ hand # <<>>
  /\ engine = "running"
  /\ Len(engineQueue) < EngineChannel
  /\ engineQueue' = engineQueue \o hand
  /\ hand' = <<>>
  /\ UNCHANGED <<main, listeners, channel, pipeline, engine, handled, boards>>

\* The engine is gone: the pipeline stops, and its receiver with it.
PipelineBreaks ==
  /\ hand # <<>>
  /\ engine # "running"
  /\ hand' = <<>>
  /\ pipeline' = "done"
  /\ UNCHANGED <<main, listeners, channel, engineQueue, engine, handled, boards>>

\* Mutant of PipelineEnds: on the token instead of the closed channel.
PipelineEndsOnCancel ==
  /\ pipeline = "running"
  /\ hand = <<>>
  /\ Cancelled
  /\ pipeline' = "done"
  /\ UNCHANGED <<main, listeners, channel, hand, engineQueue, engine, handled, boards>>

\* recv answers None: nothing queued, and no Sender left.
PipelineEnds ==
  /\ pipeline = "running"
  /\ hand = <<>>
  /\ queue = <<>>
  /\ ~SendersLeft
  /\ pipeline' = "done"
  /\ UNCHANGED <<main, listeners, channel, hand, engineQueue, engine, handled, boards>>

EngineHandles ==
  /\ engine = "running"
  /\ engineQueue # <<>>
  /\ engineQueue' = Tail(engineQueue)
  /\ handled' = handled \union ({Head(engineQueue)} \ {0})
  /\ UNCHANGED <<main, listeners, channel, hand, pipeline, engine, boards>>

\* The daemon outlives its engine only in a build that unwinds: the release
\* profile aborts on a panic, and the whole process is gone.
EngineDies ==
  /\ EngineFaults
  /\ engine = "running"
  /\ engineQueue # <<>>
  /\ engine' = "dead"
  /\ UNCHANGED <<main, listeners, channel, hand, pipeline, engineQueue, handled, boards>>

\* Mutant of EngineEnds: the token is an exit of the select loop.
EngineEndsOnCancel ==
  /\ engine = "running"
  /\ Cancelled
  /\ engine' = "done"
  /\ UNCHANGED <<main, listeners, channel, hand, pipeline, engineQueue, handled, boards>>

\* The channel is closed and drained; the token is not an exit.
EngineEnds ==
  /\ engine = "running"
  /\ pipeline = "done"
  /\ engineQueue = <<>>
  /\ engine' = "done"
  /\ UNCHANGED <<main, listeners, channel, hand, pipeline, engineQueue, handled, boards>>

-----------------------------------------------------------------------------
(* The event streams of the API server, for which a stop waits.            *)

BoardOpens ==
  /\ ~Cancelled
  /\ boards < MaxBoards
  /\ boards' = boards + 1
  /\ UNCHANGED <<main, listeners, channel, consumers>>

\* The browser leaves, or the stream sees the token it races.
StreamEnds ==
  /\ boards > 0
  /\ boards' = boards - 1
  /\ UNCHANGED <<main, listeners, channel, consumers>>

-----------------------------------------------------------------------------
(* main.                                                                   *)

MainMoves(from, to) ==
  /\ main = from
  /\ main' = to
  /\ UNCHANGED <<listeners, channel, consumers, boards>>

\* Every socket is bound, the bundle and the store are open, before any spawn.
Binds     == MainMoves("binding", "starting")
BindFails == MainMoves("binding", "failed")

\* The thread reports whether libsystemd let it in.
JournalOpens ==
  /\ main = "starting"
  /\ journal = "opening"
  /\ \/ journal' = "checking" /\ UNCHANGED main
     \/ journal' = "ended" /\ main' = "failed"
  /\ UNCHANGED <<shed, conn, client, sent, channel, consumers, boards>>

\* main drops its own Sender.
Listens == journal # "opening" /\ MainMoves("starting", "serving")

\* Ctrl-C or SIGTERM: the token is cancelled.
ShutdownSignal == MainMoves("serving", "stopping")

\* tracker.wait(): the servers, which finish what they have begun, the
\* pipeline and the engine; not the connections, not the journal's thread.
Tracked ==
  /\ client # "exporting"
  /\ boards = 0
  /\ pipeline = "done"
  /\ engine # "running"

Drained == Tracked /\ MainMoves("stopping", "closing")

\* The judges' loops end, whatever calls are out, and the store is flushed; or
\* that fails, and main is left with an error and the journal's thread unjoined.
ClosesStore == MainMoves("closing", "joining")
CloseFails  == MainMoves("closing", "unclosed")

\* The journal's thread is joined last.
Exits == journal \in {"off", "ended"} /\ MainMoves("joining", "exited")

-----------------------------------------------------------------------------
Init ==
  /\ main = "binding"
  /\ shed = 0 /\ boards = 0
  /\ conn = [c \in Conn |-> "closed"]
  /\ client = "idle" /\ sent = 0
  /\ journal = IF Journal THEN "opening" ELSE "off"
  /\ queue = <<>> /\ blocked = <<>> /\ hand = <<>> /\ engineQueue = <<>>
  /\ pipeline = "running" /\ engine = "running"
  /\ handled = {}

ConnSteps(c) == ConnReads(c) \/ ConnSendFails(c) \/ ConnDrops(c) \/ ConnStops(c)

Listeners ==
  \/ Datagram
  \/ \E c \in Conn : Accept(c) \/ ConnSteps(c)
  \/ ExportBegins \/ ExportSends \/ ExportAnswers \/ ExportFails \/ ExportAborts
  \/ JournalChecks \/ JournalReads \/ JournalTimesOut \/ JournalSendFails

Consumers ==
  \/ PipelineReceives \/ PipelineForwards \/ PipelineBreaks \/ PipelineEnds
  \/ EngineHandles \/ EngineDies \/ EngineEnds

Main ==
  \/ Binds \/ BindFails \/ JournalOpens \/ Listens
  \/ ShutdownSignal \/ Drained \/ ClosesStore \/ CloseFails \/ Exits

\* The process is gone.
Over == main \in {"failed", "unclosed", "exited"} /\ UNCHANGED vars

Next ==
  \/ Spawned /\ (Listeners \/ Consumers \/ BoardOpens \/ StreamEnds)
  \/ Main
  \/ Over

\* Tasks and threads go on running; nobody has to send anything, to sign off
\* or to stop the daemon.  The select of a connection draws its branch at
\* random, so the token is not passed over for ever.
Fairness ==
  /\ WF_vars(Cancelled /\ Spawned /\ StreamEnds)
  /\ \A c \in Conn : /\ SF_vars(Spawned /\ ConnStops(c))
                     /\ WF_vars(Spawned /\ Waits(c) /\ ConnSendFails(c))
  /\ WF_vars(Spawned /\ (ExportSends \/ ExportAnswers \/ ExportFails))
  /\ WF_vars(Spawned /\ (JournalChecks \/ JournalReads \/ JournalTimesOut \/ JournalSendFails))
  /\ WF_vars(Spawned /\ (PipelineReceives \/ PipelineForwards \/ PipelineBreaks \/ PipelineEnds))
  /\ WF_vars(Spawned /\ (EngineHandles \/ EngineEnds))
  /\ WF_vars(JournalOpens \/ Listens \/ Drained \/ ClosesStore \/ CloseFails \/ Exits)

Spec == Init /\ [][Next]_vars /\ Fairness
=============================================================================
