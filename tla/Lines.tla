-------------------------------- MODULE Lines --------------------------------
(***************************************************************************)
(* The way from bytes to a template: a bundle is synthesized and written,  *)
(* the daemon is started with it, and the listeners' events are masked     *)
(* with it, body by body (Pipeline::assign).                               *)
(***************************************************************************)
EXTENDS LineEvents, MaskSynthesis, FiniteSets

CONSTANTS
  Sent,       \* days on which devices send
  Zones,      \* the time zones devices are in
  Delays,     \* from sending to intake; below zero for a clock that is ahead
  Names,      \* host names in frames, resources and entries
  Requests    \* OTLP export requests

IsList(s) == s \in Seq(Range(s))

\* The calendar's bound leaves room for every day of sending and of intake;
\* names and lines are texts, the repeated fields of a request lists.
ASSUME LinesAssumption ==
  /\ Sent \subseteq Int /\ Delays \subseteq Int /\ Zones \subseteq Int
  /\ \A sent \in Sent, later \in Delays \union Zones \union {0} :
       sent + later \in YearStart(0) + 1 .. YearStart(LastYear + 1)
  /\ None \notin Nat \union {"dated", "yearless"}
  /\ \A name \in Names \ {None} : IsList(name)
  /\ \A text \in Corpora : \A line \in Range(ReadCorpus(text)) : IsList(line)
  /\ \A request \in Requests :
       /\ IsList(request)
       /\ \A i \in DOMAIN request :
            /\ IsList(request[i].attributes) /\ IsList(request[i].scopes)
            /\ \A j \in DOMAIN request[i].scopes : IsList(request[i].scopes[j].records)

VARIABLES
  given,      \* what the last listener to act received
  events      \* what it made of that

vars == <<synthesis, given, events>>

Peer == [ip : {"10.0.0.1"}, port : {40000, 40001}]
peerIp == <<Word("10.0.0.1")>>

-----------------------------------------------------------------------------
(* What devices send.                                                      *)

\* A priority, then the stamp and the host it has.
Header(stamp, host) ==
  <<Word("pri")>> \o (IF stamp = None THEN <<>> ELSE <<Word("stamp")>>)
                  \o (IF host = None THEN <<>> ELSE host)

\* The host the parser cuts: with a stamp the one the device wrote.  Without
\* one it is a guess: the word that leads the text, or none.
Hostnames(stamp, host, text) ==
  IF stamp # None THEN {host}
  ELSE {None} \union (IF text = <<>> THEN {} ELSE {<<Head(text)>>})

\* A frame of a device in `zone`, as the parser cuts it.
Frame(stamp, sent, zone, host, hostname, app, message) ==
  LET header == Header(stamp, host)
  IN  [parses |-> TRUE, stamp |-> stamp, sent |-> sent, wrote |-> sent + zone,
       host |-> host, hostname |-> hostname,
       protocol |-> IF stamp = "dated" THEN <<Word("rfc5424")>> ELSE <<Word("rfc3164")>>,
       fields |-> IF app = <<>> THEN <<>> ELSE [f \in {"app"} |-> app],
       raw |-> header \o app \o message,
       appAt |-> IF app = <<>> THEN None ELSE Len(header),
       msgAt |-> Len(header) + Len(app)]

Garbled(message) == [parses |-> FALSE, raw |-> message]

App == {<<>>, <<Word("sshd")>>}

-----------------------------------------------------------------------------
\* Decoding keeps nothing from one arrival to the next: one shows all.
Serving == command = "serving" /\ given.kind = "nothing"

\* Over UDP or TCP, with a stamp or without.
FrameArrives ==
  /\ Serving
  /\ \E sent \in Sent, zone \in Zones, delay \in Delays, stamp \in {None, "dated", "yearless"},
        host \in Names, app \in App, message \in Range(corpus), peer \in Peer :
     \E hostname \in Hostnames(stamp, host, (IF host = None THEN <<>> ELSE host) \o app \o message) :
       LET frame == Frame(stamp, sent, zone, host, hostname, app, message)
       IN  /\ given' = [kind |-> "frame", frame |-> frame, received |-> sent + delay]
           /\ events' = <<FrameToEvent(frame, peer, sent + delay)>>
  /\ UNCHANGED synthesis

GarbledArrives ==
  /\ Serving
  /\ \E day \in Sent, message \in Range(corpus), peer \in Peer :
       /\ given' = [kind |-> "frame", frame |-> Garbled(message), received |-> day]
       /\ events' = <<FrameToEvent(Garbled(message), peer, day)>>
  /\ UNCHANGED synthesis

RequestArrives ==
  /\ Serving
  /\ \E request \in Requests, day \in Sent :
       /\ given' = [kind |-> "request", request |-> request, received |-> day]
       /\ events' = RequestToEvents(request, peerIp, day)
  /\ UNCHANGED synthesis

\* An entry of the journal; every field may be absent.
EntryArrives ==
  /\ Serving
  /\ \E day \in Sent, own \in {None, Unreadable, 1}, realtime \in {None, 2},
        host \in Names, message \in {None} \union Range(corpus) :
       LET all == [MESSAGE |-> message, _HOSTNAME |-> host,
                   _SOURCE_REALTIME_TIMESTAMP |-> own, __REALTIME_TIMESTAMP |-> realtime]
           entry == [name \in {n \in DOMAIN all : all[n] # None} |-> all[name]]
       IN  /\ given' = [kind |-> "entry", entry |-> entry, received |-> day]
           /\ events' = <<RecordToEvent(entry, day)>>
  /\ UNCHANGED synthesis

Init ==
  /\ SynthesisInit
  /\ given = [kind |-> "nothing"]
  /\ events = <<>>

Next ==
  \/ SynthesisNext /\ UNCHANGED <<given, events>>
  \/ FrameArrives \/ GarbledArrives \/ RequestArrives \/ EntryArrives
  \/ (command \in {"failed", "refused"} \/ given.kind # "nothing") /\ UNCHANGED vars

Spec == Init /\ [][Next]_vars

-----------------------------------------------------------------------------
(* What the way owes.                                                      *)

\* A transit under half a year, either way, by the clocks of both sides.
InTransit(wrote, received) == 2 * Apart(wrote, received) < Months * MonthDays

\* What a stamp says of the time: the moment of sending, or a day on the
\* device's wall that the daemon takes for one on its own.
Claim(frame) ==
  CASE frame.stamp = None       -> None
    [] frame.stamp = "dated"    -> frame.sent
    [] frame.stamp = "yearless" -> frame.wrote - Zone

FrameReadRight(frame, event, received) ==
  /\ event.raw = frame.raw
  /\ IF frame.parses
       THEN /\ (frame.stamp = "yearless" => InTransit(frame.wrote, received))
                 => event.timestamp = Claim(frame)
            /\ frame.stamp # None => event.host = Resolve(frame.host, peerIp)
            /\ IF event.timestamp = None THEN Body(event) = frame.raw
               ELSE Header(frame.stamp, frame.host) \o Body(event) = frame.raw
       ELSE event.host = peerIp /\ Body(event) = frame.raw

\* A frame is dated as its device meant it, across New Year and leap days,
\* without a year or with one, when the daemon's zone is the device's.  Of a
\* dated frame no word of the header is clustered, of one that names no day, or
\* a day its year turned out to lack, every word is; a stamp brings the host the
\* device wrote, never the peer's port (resolve_year, body_offset, host.rs).
FramesAreReadRight ==
  given.kind = "frame" => FrameReadRight(given.frame, events[1], given.received)

\* host.rs:8: "syslog: the frame's hostname, else the peer IP".  The code does not
\* keep it: of a frame without a stamp the hostname is a guess out of the text.
HostsAreNamed ==
  given.kind = "frame" =>
    events[1].host = IF given.frame.parses THEN Resolve(given.frame.host, peerIp) ELSE peerIp

\* The records of a request, by resource, scope and number.
PlacesOf(request) ==
  UNION {UNION {{<<i, j, k>> : k \in DOMAIN request[i].scopes[j].records} :
                  j \in DOMAIN request[i].scopes} : i \in DOMAIN request}

HostsOf(attributes) ==
  {AnyValueToString(a.value) : a \in {a \in Range(attributes) : a.key = "host.name"}}

\* A resource that names no host, or an empty one, is the peer's.
KeepsContext(event, attributes, scope, body) ==
  /\ event.raw = AnyValueToString(body)
  /\ {key[2] : key \in {k \in DOMAIN event.attrs : k[1] = "resource."}}
       = {a.key : a \in Range(attributes)}
  /\ event.host \in IF HostsOf(attributes) = {} THEN {peerIp}
                    ELSE {Resolve(host, peerIp) : host \in HostsOf(attributes)}
  /\ <<"", "scope">> \in DOMAIN event.attrs => event.attrs[<<"", "scope">>] = scope
  /\ event.timestamp # 0

\* Every record of an export becomes one event, with its own body and the
\* attributes, the host and the scope of its own resource and scope, however
\* many the request carries (request_to_events, log_record_to_event).
RecordsKeepTheirContext ==
  given.kind = "request" =>
    /\ Len(events) = Cardinality(PlacesOf(given.request))
    /\ \A r \in PlacesOf(given.request) : \E event \in Range(events) :
         LET resource == given.request[r[1]]
             scope    == resource.scopes[r[2]]
         IN  KeepsContext(event, resource.attributes, scope.name, scope.records[r[3]].body)

\* No listener takes one line's data for another's or for its own, and no day a
\* device wrote for another day.
EventsAreTrue == FramesAreReadRight /\ RecordsKeepTheirContext

\* Whatever the model proposes, and however it mends: the file loads, the
\* slots it started from keep their order with the most general one last, and
\* a bundle with a synthesized slot masks every line of the corpus once and
\* for all (merge, run, Bundle::parse).
WrittenBundleIsSound ==
  /\ command # "refused"
  /\ out # <<>> =>
       LET slots == out[1].slots
       IN  /\ IsPrefix(Front(starting), slots) /\ Last(slots) = Last(starting)
           /\ slots # starting => \A line \in Range(corpus) : ~Unstable(slots, line)
           /\ \A slot \in Range(slots) \ Range(starting) : slot.why = "synthesized"
=============================================================================
