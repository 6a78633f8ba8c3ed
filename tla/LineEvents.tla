----------------------------- MODULE LineEvents -----------------------------
(***************************************************************************)
(* What the listeners make of what they receive: one Event a line.  Syslog *)
(* frames, OTLP export requests and journal entries are decoded by pure    *)
(* functions (syslog.rs, otlp.rs, journal.rs, host.rs of oarfish-ingest),  *)
(* into the Event of oarfish-core.                                         *)
(*                                                                         *)
(* A day is a number, a time zone a number of days it is ahead, and times  *)
(* of day are left out.  The calendar is the time crate's in small: a year *)
(* has Months months of MonthDays days, and the second one more in a leap  *)
(* year.  A text is a sequence of words, an offset counts them.            *)
(***************************************************************************)
EXTENDS Integers, Sequences, SequencesExt

CONSTANTS
  Months,      \* of a year
  MonthDays,   \* of a month
  LastYear,    \* bound: years are 0 .. LastYear
  Zone,        \* the time zone the daemon runs in
  None,        \* the None of every Option
  Unreadable   \* a time that does not parse

ASSUME CalendarAssumption ==
  {Months, MonthDays} \subseteq Nat \ {0, 1} /\ LastYear \in Nat \ {0} /\ Zone \in Int

-----------------------------------------------------------------------------
(* The calendar.                                                           *)

Year == 0 .. LastYear
Leap(year) == year % 4 = 0

DaysIn(year, month) ==
  IF month = 2 /\ Leap(year) THEN MonthDays + 1 ELSE MonthDays

YearStart(year) == year * Months * MonthDays + (year + 3) \div 4

IsDate(year, date) == date.day <= DaysIn(year, date.month)

Day(year, date) ==
  YearStart(year) + (date.month - 1) * MonthDays + date.day
    + (IF date.month > 2 /\ Leap(year) THEN 1 ELSE 0)

YearOf(day) == CHOOSE year \in Year : YearStart(year) < day /\ day <= YearStart(year + 1)

\* What a device without a year writes of a day.
DateOf(day) ==
  CHOOSE date \in [month : 1 .. Months, day : 1 .. MonthDays + 1] :
    IsDate(YearOf(day), date) /\ Day(YearOf(day), date) = day

Apart(a, b) == IF a < b THEN b - a ELSE a - b

-----------------------------------------------------------------------------
Word(w) == <<"word", w>>

(* Hosts.                                                                  *)

\* The ephemeral port never gets into a host.
PeerIp(peer) == <<Word(peer.ip)>>

\* An empty name names nobody.
Resolve(name, fallback) == IF name \in {None, <<>>} THEN fallback ELSE name

-----------------------------------------------------------------------------
(* Syslog.                                                                 *)

\* Mutant of ResolveYear: the year of the intake.
ResolveYearNaive(received, date) == YearOf(received)

\* RFC 3164 has no year: of the intake's and its neighbours the one that puts
\* the frame nearest to the intake, the earliest of equals.
ResolveYear(received, date) ==
  LET here        == YearOf(received)
      candidates  == {year \in here - 1 .. here + 1 : IsDate(year, date)}
      Off(year)   == Apart(Day(year, date), received)
      closest     == {year \in candidates : \A other \in candidates : Off(year) <= Off(other)}
  IN  IF candidates = {} THEN here
      ELSE CHOOSE year \in closest : \A other \in closest : year <= other

\* The source's claim, as the parser reads it.  A stamp with a year says its
\* zone too; one without is read in the daemon's zone, though resolve_year
\* compares it as if it were written in the zone of the intake's clock.  A date
\* that the resolved year lacks is no claim.
FrameTime(frame, received) ==
  CASE frame.stamp = None     -> None
    [] frame.stamp = "dated"  -> frame.sent
    [] frame.stamp = "yearless" ->
         LET date == DateOf(frame.wrote)
             year == ResolveYear(received, date)
         IN  IF IsDate(year, date) THEN Day(year, date) - Zone ELSE None

\* Mutant of BodyOffset: a frame is split whether it is dated or not.
BodyOffsetAnyway(frame, timestamp) == IF frame.appAt # None THEN frame.appAt ELSE frame.msgAt

\* Only a frame with a timestamp is split: at the app name if it has one.
BodyOffset(frame, timestamp) ==
  IF timestamp = None THEN 0
  ELSE IF frame.appAt # None THEN frame.appAt ELSE frame.msgAt

\* Malformed input is data: the bytes as they came, and a mark.
Failed(frame, peer, received) ==
  [raw |-> frame.raw, received |-> received, timestamp |-> None,
   host |-> PeerIp(peer), source |-> "syslog",
   attrs |-> [key \in {<<"", "parse">>} |-> <<Word("failed")>>], offset |-> 0]

FrameToEvent(frame, peer, received) ==
  IF ~frame.parses THEN Failed(frame, peer, received)
  ELSE LET timestamp == FrameTime(frame, received)
       IN  [raw |-> frame.raw, received |-> received, timestamp |-> timestamp,
            host |-> Resolve(frame.hostname, PeerIp(peer)), source |-> "syslog",
            attrs |-> [key \in {<<"", "protocol">>} \union {<<"", f>> : f \in DOMAIN frame.fields} |->
                         IF key[2] = "protocol" THEN frame.protocol ELSE frame.fields[key[2]]],
            offset |-> BodyOffset(frame, timestamp)]

-----------------------------------------------------------------------------
(* OTLP.                                                                   *)

\* A value as text, which arrays and maps have too; an absent one, and a
\* reference into a string table, are empty.
AnyValueToString(value) ==
  IF value = None \/ value.kind \in {"none", "strindex"} THEN <<>> ELSE value.text

\* Strings and bytes keep their bytes, and the rest is rendered.
LogRecordBody(record) == AnyValueToString(record.body)

\* Inserted in order: the last of one key stays.
Flattened(prefix, attributes) ==
  [key \in {<<prefix, a.key>> : a \in Range(attributes)} |->
     LET IsKey(a) == a.key = key[2]
     IN  AnyValueToString(attributes[SelectLastInSeq(attributes, IsKey)].value)]

\* Zero is unknown, not 1970.
NanosToTimestamp(nanos) == IF nanos = 0 THEN None ELSE nanos

\* What the record and its scope say in keys of their own.
Reserved(record, scope) ==
  LET named == [scope |-> scope, severity_text |-> record.severity, trace_id |-> record.trace]
  IN  [key \in {<<"", k>> : k \in {k \in DOMAIN named : named[k] # <<>>}} |-> named[key[2]]]

LogRecordToEvent(record, resourceAttrs, scope, peer, received) ==
  LET hostName == <<"", "host.name">>
      time     == NanosToTimestamp(record.time)
      reserved == Reserved(record, scope)
      own      == Flattened("attr.", record.attributes)
      resource == [key \in {<<"resource.", k[2]>> : k \in DOMAIN resourceAttrs} |->
                     resourceAttrs[<<"", key[2]>>]]
  IN  [raw |-> LogRecordBody(record), received |-> received,
       timestamp |-> IF time # None THEN time ELSE NanosToTimestamp(record.observed),
       host |-> Resolve(IF hostName \in DOMAIN resourceAttrs THEN resourceAttrs[hostName] ELSE None,
                        peer),
       source |-> "otlp",
       attrs |-> [key \in DOMAIN reserved \union DOMAIN own \union DOMAIN resource |->
                    CASE key[1] = ""      -> reserved[key]
                      [] key[1] = "attr." -> own[key]
                      [] OTHER            -> resource[key]],
       offset |-> 0]

\* The resource's attributes.
ResourceAttrs(request, i) == Flattened("", request[i].attributes)

\* Every record of every scope of every resource, in order.
RequestToEvents(request, peer, received) ==
  FlattenSeq([i \in DOMAIN request |->
    FlattenSeq([j \in DOMAIN request[i].scopes |->
      [k \in DOMAIN request[i].scopes[j].records |->
        LogRecordToEvent(request[i].scopes[j].records[k], ResourceAttrs(request, i),
                         request[i].scopes[j].name, peer, received)]])])

-----------------------------------------------------------------------------
(* The journal.                                                            *)

Field(record, name) == IF name \in DOMAIN record THEN record[name] ELSE None

\* A source time that does not parse is not made good by the journal's own.
EntryTime(record) ==
  LET source == Field(record, "_SOURCE_REALTIME_TIMESTAMP")
      micros == IF source # None THEN source ELSE Field(record, "__REALTIME_TIMESTAMP")
  IN  IF micros \in {None, Unreadable} THEN None ELSE micros

RecordToEvent(record, received) ==
  LET message == Field(record, "MESSAGE")
  IN  [raw |-> IF message = None THEN <<>> ELSE message, received |-> received,
       timestamp |-> EntryTime(record),
       host |-> Resolve(Field(record, "_HOSTNAME"), <<Word("localhost")>>), source |-> "journal",
       attrs |-> [key \in {<<"", k>> : k \in DOMAIN record \ {"MESSAGE"}} |-> record[key[2]]],
       offset |-> 0]

-----------------------------------------------------------------------------
\* The clustered part of an event; an offset past the end is no offset.
Body(event) ==
  IF event.offset <= Len(event.raw) THEN SubSeq(event.raw, event.offset + 1, Len(event.raw))
  ELSE event.raw
=============================================================================
