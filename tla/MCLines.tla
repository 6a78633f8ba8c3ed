------------------------------- MODULE MCLines -------------------------------
(* An instance of Lines for TLC. *)
EXTENDS Lines

CONSTANTS a, b, n1, n2, w, x, dev, web, db

Pattern(texts) == [texts |-> texts, compiles |-> TRUE, groups |-> 0, size |-> 1]
Slot(name, pattern) == [name |-> name, wellNamed |-> TRUE, why |-> "curated", pattern |-> pattern]

Numbers == Pattern({<<Word(n1)>>, <<Word(n2)>>})
Num == Slot("NUM", Numbers)
Dev == Slot("DEV", Pattern({<<Word(dev)>>}))
Id  == Slot("ID", Pattern({<<Word(a)>>, <<Word(b)>>}))

MCStarting == {<<Num>>, <<Dev, Num>>}

\* Sound ones, one that only matches what masking leaves, and one of each flaw.
MCProposals ==
  {Id, [Id EXCEPT !.name = "AB", !.pattern.size = 3],
   Slot("PAIR", Pattern({<<Word(x), Placeholder("NUM")>>})),
   [Id EXCEPT !.name = "NUM"], [Id EXCEPT !.name = "MASKED"], [Id EXCEPT !.wellNamed = FALSE],
   [Id EXCEPT !.pattern.compiles = FALSE], [Id EXCEPT !.pattern.groups = 1]}

\* One that is covered, one that is not, one too thin to tell.
MCCorpora ==
  {<<<<Word(x), Word(n1)>>, <<>>, <<Word(x), Word(n2)>>>>,
   <<<<Word(w), Word(a), Word(dev)>>, <<Word(w), Word(b), Word(n2)>>, <<Word(x), Word(n1)>>>>,
   <<<<Word(w), Word(a)>>>>}

MCNames == {None, <<>>, <<Word(web)>>}
MCSent == 17 .. 34
\* Up to half a year, and so late that the years around are no leap years.
MCDelays == (-2 .. 2) \union {10}
MCZones == {0, 1}

\* Two resources of two records under two scopes, no two bodies alike.
Attribute(key, text) == [key |-> key, value |-> [kind |-> "string", text |-> text]]
AttributeLists ==
  {<<>>, <<Attribute("host.name", <<Word(web)>>)>>,
   <<Attribute("host.name", <<>>), Attribute("zone", <<Word(a)>>)>>,
   <<Attribute("host.name", <<Word(web)>>), Attribute("host.name", <<Word(db)>>)>>,
   <<Attribute("host.name", <<Word(db)>>), Attribute("host.name", <<>>)>>}
LogRecord(n, kind, time) ==
  [body |-> [kind |-> kind, text |-> [i \in 1 .. n |-> Word(a)]], time |-> time, observed |-> 3,
   attributes |-> <<Attribute("scope", <<Word(b)>>)>>, severity |-> <<>>, trace |-> <<>>]
MCRequests ==
  {<<[attributes |-> first, scopes |-> <<[name |-> <<Word(a)>>, records |-> <<LogRecord(1, "string", 0)>>],
                                         [name |-> <<>>, records |-> <<LogRecord(2, "none", 2)>>]>>],
     [attributes |-> second, scopes |-> <<[name |-> <<Word(b)>>, records |-> <<LogRecord(3, "bytes", 1), LogRecord(4, "map", 0)>>]>>]>> :
   first \in AttributeLists, second \in AttributeLists}
=============================================================================
