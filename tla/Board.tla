-------------------------------- MODULE Board --------------------------------
(***************************************************************************)
(* The open alarms on their way to a board: the engine writes the served   *)
(* snapshot and then publishes the change (machine.rs, snapshot.rs), each  *)
(* board reads the broadcast through an event stream (oarfish-api), and    *)
(* the page keeps its list from the stream and from fetches of the whole   *)
(* list (connection.svelte.ts).                                            *)
(*                                                                         *)
(* One board: boards share nothing.  A stream delivers in order; fetches   *)
(* are requests of their own.  The list is a function from ids: its order  *)
(* is layout.                                                              *)
(***************************************************************************)
EXTENDS Naturals, Sequences, SequencesExt

CONSTANTS
  Id,           \* ids of alarms
  Version,      \* what an alarm may show: count, severity, host
  Capacity,     \* of the broadcast
  Wire,         \* bound: events between the server and the page
  MaxFetches,   \* bound: fetches under way
  Resync,       \* AlarmChange::Resync
  Absent        \* no such alarm, no such change

Listing == [Id -> Version \union {Absent}]
Upsert  == [id : Id, shows : Version]           \* Raised and Updated
Cleared == [id : Id, shows : {Absent}]
Doubt   == {"no", "overtaken", "failed"}
Answer  == [listing : Listing, doubt : Doubt]
Change  == Upsert \union Cleared

ASSUME BoardAssumption ==
  /\ {Capacity, Wire} \subseteq Nat \ {0} /\ MaxFetches \in Nat
  /\ Absent \notin Version \union Change /\ Resync \notin Change

VARIABLES
  snapshot,     \* the engine's open alarms, as served
  unpublished,  \* written to the snapshot, not yet broadcast
  feed,         \* what the stream's receiver has not taken
  lagged,       \* it has lost some to the capacity
  wire,         \* events sent and not yet dispatched
  status,       \* the page's stream: "connecting", "opening" or "live"
  asked,        \* fetches the server has not answered
  answers,      \* answers on their way, and why they may be too old
  alarms,       \* the page's list
  doubt,        \* why the list may be wrong for good
  quiet         \* no more changes, and no more breaks

server  == <<snapshot, unpublished>>
stream  == <<feed, lagged, wire, status>>
fetches == <<asked, answers>>
page    == <<alarms, doubt>>
vars == <<server, stream, fetches, page, quiet>>

-----------------------------------------------------------------------------
\* The first n answers may now be too old.
Doubtful(seq, n, why) ==
  [i \in DOMAIN seq |->
     IF i <= n /\ seq[i].doubt = "no" THEN [seq[i] EXCEPT !.doubt = why] ELSE seq[i]]

(* The engine.                                                             *)

Apply(listing, change) == [listing EXCEPT ![change.id] = change.shows]

\* insert or remove, on a raise, a bump or a clear.
Writes ==
  /\ ~quiet
  /\ unpublished = Absent
  /\ \E change \in Change :
       /\ change.shows # Absent \/ snapshot[change.id] # Absent
       /\ snapshot' = Apply(snapshot, change)
       /\ unpublished' = change
  /\ UNCHANGED <<stream, fetches, page, quiet>>

\* send: a receiver that is a whole capacity behind loses its oldest.
Publishes ==
  /\ unpublished # Absent
  /\ IF status = "connecting"
       THEN UNCHANGED <<feed, lagged>>
       ELSE IF Len(feed) = Capacity
         THEN feed' = Append(Tail(feed), unpublished) /\ lagged' = TRUE
         ELSE feed' = Append(feed, unpublished) /\ UNCHANGED lagged
  /\ unpublished' = Absent
  /\ UNCHANGED <<snapshot, wire, status, fetches, page, quiet>>

-----------------------------------------------------------------------------
(* The stream.                                                             *)

\* The handler subscribes, and only then answers the page.
Subscribes ==
  /\ status = "connecting"
  /\ status' = "opening"
  /\ UNCHANGED <<server, feed, lagged, wire, fetches, page, quiet>>

\* Mutant of Streams: a lagging receiver just reads on.
StreamsOn ==
  /\ status # "connecting"
  /\ feed # <<>>
  /\ Len(wire) < Wire
  /\ wire' = Append(wire, Head(feed))
  /\ feed' = Tail(feed)
  /\ lagged' = FALSE
  /\ UNCHANGED <<server, status, fetches, page, quiet>>

\* The lag is told before the changes that are left.
Streams ==
  /\ status # "connecting"
  /\ Len(wire) < Wire
  /\ \/ /\ lagged
        /\ wire' = Append(wire, Resync)
        /\ lagged' = FALSE
        /\ UNCHANGED feed
     \/ /\ ~lagged
        /\ feed # <<>>
        /\ wire' = Append(wire, Head(feed))
        /\ feed' = Tail(feed)
        /\ UNCHANGED lagged
  /\ UNCHANGED <<server, status, fetches, page, quiet>>

Disconnected ==
  /\ status' = "connecting"
  /\ feed' = <<>> /\ lagged' = FALSE /\ wire' = <<>>

\* What was on the wire is lost; the browser connects again on its own.
Breaks ==
  /\ ~quiet
  /\ status # "connecting"
  /\ Disconnected
  /\ UNCHANGED <<server, fetches, page, quiet>>

\* The server restarts: the engine reloads what the store kept, and publishes
\* none of it; connections and requests end.
Restarts ==
  /\ ~quiet
  /\ \E kept \in SUBSET Id :
       snapshot' = [i \in Id |-> IF i \in kept THEN snapshot[i] ELSE Absent]
  /\ unpublished' = Absent
  /\ Disconnected
  /\ asked' = 0
  /\ IF asked = 0
       THEN UNCHANGED <<doubt, answers>>
       ELSE doubt' = "failed" /\ answers' = Doubtful(answers, Len(answers), "failed")
  /\ UNCHANGED <<alarms, quiet>>

-----------------------------------------------------------------------------
(* The page.                                                               *)

Fetch ==
  /\ asked + Len(answers) < MaxFetches
  /\ asked' = asked + 1

\* Mutant of Opens: the first paint is trusted.
OpensTrusting ==
  /\ status = "opening"
  /\ status' = "live"
  /\ UNCHANGED <<server, feed, lagged, wire, fetches, page, quiet>>

Opens ==
  /\ status = "opening"
  /\ status' = "live"
  /\ Fetch
  /\ UNCHANGED <<server, feed, lagged, wire, answers, page, quiet>>

\* The next event: a change is applied to the list, a resync fetches it anew.
Dispatches ==
  /\ status = "live"
  /\ wire # <<>>
  /\ wire' = Tail(wire)
  /\ IF Head(wire) = Resync
       THEN Fetch /\ UNCHANGED <<alarms, answers>>
       ELSE /\ alarms' = Apply(alarms, Head(wire))
            /\ answers' = Doubtful(answers, Len(answers), "overtaken")
            /\ UNCHANGED asked
  /\ UNCHANGED <<server, feed, lagged, status, doubt, quiet>>

\* GET /api/alarms: the snapshot as it is now.
Answers ==
  /\ asked > 0
  /\ asked' = asked - 1
  /\ answers' = Append(answers, [listing |-> snapshot, doubt |-> "no"])
  /\ UNCHANGED <<server, stream, page, quiet>>

\* An answer replaces the list, whichever answer it is.
Replaces ==
  /\ \E i \in DOMAIN answers :
       /\ alarms' = answers[i].listing
       /\ doubt' = answers[i].doubt
       /\ answers' = RemoveAt(Doubtful(answers, i, "overtaken"), i)
  /\ UNCHANGED <<server, stream, asked, quiet>>

\* A failed fetch leaves the list as it was, and is not tried again.
FetchFails ==
  /\ ~quiet
  /\ asked > 0
  /\ asked' = asked - 1
  /\ doubt' = "failed"
  /\ answers' = Doubtful(answers, Len(answers), "failed")
  /\ UNCHANGED <<server, stream, alarms, quiet>>

GoesQuiet == ~quiet /\ quiet' = TRUE /\ UNCHANGED <<server, stream, fetches, page>>

\* Nothing on the way: the page can only wait for the next change.
Settled ==
  /\ status = "live"
  /\ unpublished = Absent
  /\ feed = <<>> /\ ~lagged /\ wire = <<>>
  /\ asked = 0 /\ answers = <<>>

\* A quiet night.
Rests == quiet /\ Settled /\ UNCHANGED vars

-----------------------------------------------------------------------------
Init ==
  /\ snapshot \in Listing
  /\ unpublished = Absent
  /\ feed = <<>> /\ lagged = FALSE /\ wire = <<>>
  /\ status = "connecting"
  /\ asked = 0 /\ answers = <<>>
  /\ alarms = [i \in Id |-> Absent]
  /\ doubt = "no"
  /\ quiet = FALSE

Next ==
  \/ Writes \/ Publishes \/ Restarts \/ GoesQuiet
  \/ Subscribes \/ Streams \/ Breaks
  \/ Opens \/ Dispatches \/ Answers \/ Replaces \/ FetchFails \/ Rests

\* The engine publishes what it wrote, the browser connects again, the stream
\* and the fetches move; nothing has to change, fail or break.
Spec ==
  /\ Init /\ [][Next]_vars
  /\ WF_vars(Publishes) /\ WF_vars(Subscribes) /\ WF_vars(Streams)
  /\ WF_vars(Opens \/ Dispatches) /\ WF_vars(Answers) /\ WF_vars(Replaces)

-----------------------------------------------------------------------------
TypeOK ==
  /\ snapshot \in Listing /\ alarms \in Listing
  /\ unpublished \in Change \union {Absent}
  /\ feed \in Seq(Change) /\ Len(feed) <= Capacity
  /\ wire \in Seq(Change \union {Resync}) /\ Len(wire) <= Wire
  /\ lagged \in BOOLEAN /\ doubt \in Doubt /\ quiet \in BOOLEAN
  /\ status \in {"connecting", "opening", "live"}
  /\ asked \in Nat /\ answers \in Seq(Answer) /\ asked + Len(answers) <= MaxFetches

\* What is between the engine and the page, the next to arrive first, and where
\* it tells of alarm i.
OnTheWay == wire \o feed \o IF unpublished = Absent THEN <<>> ELSE <<unpublished>>

About(i) == {n \in DOMAIN OnTheWay : OnTheWay[n] # Resync /\ OnTheWay[n].id = i}

\* The last word about i, which the page has when all of it has arrived.
LastWord(i, shows) ==
  IF About(i) = {} THEN alarms[i] = shows
  ELSE \A n \in About(i) : (\A m \in About(i) : m <= n) => OnTheWay[n].shows = shows

\* Whatever the page shows wrong is made good by what is on the way, unless its
\* last fetch failed or was overtaken: the last word about each alarm is the
\* snapshot's, or an answer or a resync is still to come.  So a board with
\* nothing on the way shows the open alarms, after lag, breaks and restarts
\* too (sse_body_stream, resync, upsert, remove).
ListIsMadeGood ==
  /\ TypeOK
  /\ status = "live" /\ doubt = "no" =>
       \/ \A i \in Id : LastWord(i, snapshot[i])
       \/ lagged \/ Resync \in Range(wire) \/ asked > 0 \/ answers # <<>>

\* A fetch is still to come behind word n: a resync, or the lag that brings one.
Gap(n) == (lagged /\ n <= Len(wire)) \/ \E m \in DOMAIN wire : m >= n /\ wire[m] = Resync

\* The last word about an alarm is the snapshot's, or a fetch comes after it.
WordsAreTrue ==
  \A i \in Id : \A n \in About(i) :
    (\A m \in About(i) : m <= n) => Gap(n) \/ OnTheWay[n].shows = snapshot[i]

\* What is on the way makes a listing good: no word of an alarm is missing.
MadeGood(listing) == \A i \in Id : About(i) = {} => listing[i] = snapshot[i]

NoFetchDue == ~lagged /\ Resync \notin Range(wire) /\ asked = 0

ListIsRight ==
  status = "live" /\ doubt = "no" /\ NoFetchDue /\ answers = <<>> => MadeGood(alarms)

\* The answer asked for last is the one that counts: whichever the page reads
\* first, an earlier one read after it is known to be overtaken.
AnswerIsRight ==
  status = "live" /\ NoFetchDue /\ answers # <<>> /\ Last(answers).doubt = "no"
    => MadeGood(Last(answers).listing)

\* A stream that is not there holds nothing.
UnconnectedIsEmpty == status = "connecting" => feed = <<>> /\ wire = <<>> /\ ~lagged

\* The inductive invariant behind ListIsMadeGood.
IndInv == TypeOK /\ UnconnectedIsEmpty /\ WordsAreTrue /\ ListIsRight /\ AnswerIsRight

\* A board that saw a lag, a break or a restart catches up once all is quiet
\* (sse_body_stream, connect).
BoardCatchesUp == quiet ~> alarms = snapshot \/ doubt # "no"

-----------------------------------------------------------------------------
(* A statement of the page that the code does not keep.                    *)

\* connection.svelte.ts:9-10: "re-fetching `/api/alarms` is cheap and always
\* correct", so that only a fetch that failed leaves the list wrong.
RefetchIsCorrect == Settled /\ doubt # "failed" => alarms = snapshot
=============================================================================
