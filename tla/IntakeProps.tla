----------------------------- MODULE IntakeProps -----------------------------
(* What must hold of the way of a line, of an export and of a stop. *)
EXTENDS Intake

\* Where every task may be, and who may wait: only on a full channel.
TypeOK ==
  /\ main \in {"binding", "failed", "starting", "serving", "stopping",
              "closing", "joining", "unclosed", "exited"}
  /\ conn \in [Conn -> {"closed", "open"}]
  /\ client \in {"idle", "exporting", "acked", "failed"}
  /\ sent \in 0 .. Batch
  /\ shed \in 0 .. MaxShed /\ boards \in 0 .. MaxBoards
  /\ journal \in {"off", "opening", "checking", "reading", "ended"}
  /\ queue \in Seq(Item) /\ Len(queue) <= Channel
  /\ engineQueue \in Seq(Item) /\ Len(engineQueue) <= EngineChannel
  /\ hand \in Seq(Item) /\ Len(hand) <= 1
  /\ blocked \in Seq(Sender)
  /\ pipeline \in {"running", "done"}
  /\ engine \in {"running", "done", "dead"}
  /\ handled \subseteq Record

\* Who waits for a place is there to take it, waits once, and only while
\* there is none.
WaitersAreReal ==
  /\ \A c \in Conn : Waits(c) => conn[c] = "open"
  /\ Waits("otlp") => client = "exporting" /\ sent < Batch
  /\ Waits("journal") => journal = "reading"
  /\ IsInjective(blocked)
  /\ blocked # <<>> /\ pipeline = "running" => Full

\* A clean stop loses nothing that was already accepted (main.rs, drive and
\* Engine::run): once the tasks are done, and unless the engine died, both
\* channels are drained and no listener, connection or export still has a
\* line for them.
NothingLeftBehind ==
  /\ TypeOK
  /\ WaitersAreReal
  /\ Stopped /\ engine # "dead" =>
       /\ queue = <<>> /\ blocked = <<>> /\ hand = <<>> /\ engineQueue = <<>>
       /\ ~SendersLeft
       /\ client # "exporting"

\* What ends, ends after what feeds it: the engine after the pipeline, the
\* pipeline, unless the engine died, after every sender, and main after both.
EndsInOrder ==
  /\ engine = "done" => pipeline = "done" /\ engineQueue = <<>>
  /\ pipeline = "done" => hand = <<>>
  /\ pipeline = "done" /\ engine # "dead" => queue = <<>> /\ blocked = <<>> /\ ~SendersLeft
  /\ Stopped =>
       pipeline = "done" /\ engine # "running" /\ client # "exporting"

-----------------------------------------------------------------------------
\* The records the engine has, or is still to get.
Accepted == (handled \union Range(engineQueue) \union Range(hand) \union Range(queue)) \ {0}

\* An export that was answered has every record with the engine or on the way
\* to it; one that failed half-way left a first part there, never a later
\* record without the earlier ones (export, otlp.rs).
ExportsAtLeastOnce ==
  engine # "dead" =>
    /\ client = "acked" => Accepted = Record
    /\ client = "exporting" => 1 .. sent \subseteq Accepted
    /\ \A r \in Accepted : 1 .. r \subseteq Accepted

\* The inductive invariant behind both.
IndInv == TypeOK /\ WaitersAreReal /\ EndsInOrder /\ ExportsAtLeastOnce

-----------------------------------------------------------------------------
\* The listeners, the pipeline and the engine are the relay the daemon
\* promises: the two channels and the line in hand, end to end, are its
\* transit (drive, Engine::run, the stop of run_daemon).
Crashed == engine = "dead" \/ main = "failed"
Promised == INSTANCE Relay WITH
  transit <- IF Crashed THEN <<>> ELSE engineQueue \o hand \o queue,
  phase   <- IF Crashed THEN "crashed"
             ELSE IF Stopped THEN "stopped" ELSE "open"
ImplementsRelay == Promised!Spec

-----------------------------------------------------------------------------
\* A connection that waits for a place gets it, or is told that the pipeline
\* is gone, however many datagrams, exports and entries compete for the places
\* (serve_conn).
BackpressureEnds == \A c \in Conn : Waits(c) ~> ~Waits(c) \/ ~Spawned

\* A stop ends: with a full channel, a busy journal, boards connected, exports
\* under way, an engine that died, a store that does not close (run_daemon).
StopEnds == main = "stopping" ~> main \in {"unclosed", "exited"}

\* No wait of the daemon is for ever.
WaitsEnd == BackpressureEnds /\ StopEnds
=============================================================================
