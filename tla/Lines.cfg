SPECIFICATION Spec
CONSTANTS
  a = a
  b = b
  n1 = n1
  n2 = n2
  w = w
  x = x
  dev = dev
  web = web
  db = db
  Months = 3
  MonthDays = 2
  LastYear = 6
  Zone = 1
  None = None
  Unreadable = Unreadable
  Star = Star
  Starting <- MCStarting
  Corpora <- MCCorpora
  Proposals <- MCProposals
  MaxProposals = 2
  MinOccurrences = 2
  SizeLimit = 5
  Sent <- MCSent
  Zones <- MCZones
  Delays <- MCDelays
  Names <- MCNames
  Requests <- MCRequests
INVARIANTS
  EventsAreTrue
  WrittenBundleIsSound
