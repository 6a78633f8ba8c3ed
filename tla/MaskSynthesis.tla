---------------------------- MODULE MaskSynthesis ----------------------------
(***************************************************************************)
(* Mask bundles (oarfish-mask) and the command that extends one: `oarfish  *)
(* masks synthesize' finds what the bundle does not mask in a corpus, asks *)
(* a model for slots, lets it mend each rejected slot once, and writes the *)
(* merged bundle, which the daemon is then started with.                   *)
(*                                                                         *)
(* A text is a sequence of tokens, <<"word", w>> or a placeholder.  A      *)
(* pattern is the set of texts it matches whole, and whether it compiles   *)
(* alone; one that matches the empty text is left out.  A bundle is its    *)
(* slots, a file its version and its slots.                                *)
(***************************************************************************)
EXTENDS Naturals, Sequences, SequencesExt, FiniteSetsExt

CONSTANTS
  Starting,        \* bundles the command may start from
  Corpora,         \* corpora it may read
  Proposals,       \* slots the model may propose, or mend one into
  MaxProposals,    \* bound: of one answer
  MinOccurrences,  \* --min-occurrences
  SizeLimit,       \* of the compiled alternation
  Star             \* the parameter token of Drain

Supported == 1

VARIABLES
  command,    \* "asking", "weighing", "mending", "checking", "written",
              \* "failed", then the daemon's "serving" or "refused"
  starting,   \* the bundle it starts from
  corpus,     \* the lines it learns from
  proposed,   \* slots of the answer still to be weighed
  accepted,   \* slots merged so far
  dropped,    \* names of slots given up
  out         \* the file written, or <<>>

synthesis == <<command, starting, corpus, proposed, accepted, dropped, out>>

-----------------------------------------------------------------------------
(* Masking a line.                                                         *)

Placeholder(name) == <<"var", name>>
Masked(token) == token[1] = "var"

\* The lengths of the texts of a slot that stand in a line from i on.
LengthsAt(slot, line, i) == {Len(t) : t \in {t \in slot.pattern.texts : IsPrefix(t, SubSeq(line, i, Len(line)))}}

\* One pass from the left.  At each place the placeholder stands first, then
\* the slots in order, each as long as it can; what nothing matches is copied.
Template(slots, line) ==
  LET From[i \in 1 .. Len(line) + 1] ==
        LET hits == {k \in DOMAIN slots : LengthsAt(slots[k], line, i) # {}}
        IN  CASE i > Len(line) -> <<>>
              [] i <= Len(line) /\ (Masked(line[i]) \/ hits = {}) -> <<line[i]>> \o From[i + 1]
              [] OTHER ->
                   LET slot == slots[Min(hits)]
                   IN  <<Placeholder(slot.name)>> \o From[i + Max(LengthsAt(slot, line, i))]
  IN  From[1]

-----------------------------------------------------------------------------
(* What makes a bundle valid.                                              *)

ReservedSlot == "MASKED"

\* Every slot alone, its name against the ones before it; then all together.
ValidSlot(slots, k) ==
  /\ slots[k].wellNamed
  /\ slots[k].name # ReservedSlot
  /\ \A j \in 1 .. k - 1 : slots[j].name # slots[k].name
  /\ slots[k].pattern.compiles
  /\ slots[k].pattern.groups = 0

Size(slots) == FoldLeft(LAMBDA total, slot : total + slot.pattern.size, 0, slots)

Parses(file) ==
  /\ file.version = Supported
  /\ file.slots # <<>>
  /\ \A k \in DOMAIN file.slots : ValidSlot(file.slots, k)
  /\ Size(file.slots) <= SizeLimit

ToToml(slots) == [version |-> Supported, slots |-> slots]

\* Just before the last slot, the most general one.
Combined(bundle, slots) == Front(bundle) \o slots \o <<Last(bundle)>>

Merges(bundle, slots) == Parses(ToToml(Combined(bundle, slots)))

\* A bundle exists only parsed; a slot says why it is there.
ASSUME SynthesisAssumption ==
  /\ \A slots \in Starting : slots \in Seq(Range(slots)) /\ Parses(ToToml(slots))
  /\ \A slot \in Proposals : "why" \in DOMAIN slot

-----------------------------------------------------------------------------
(* What the bundle does not cover.                                         *)

\* The clusters of a throwaway Drain over the masked lines: lines of one
\* length, alike in the first token.
Clusters(lines) ==
  {SelectSeq(lines, LAMBDA l : Len(l) = Len(line) /\ Head(l) = Head(line)) : line \in Range(lines)}

TokensOf(cluster) ==
  [i \in DOMAIN Head(cluster) |->
     IF \A l \in Range(cluster) : l[i] = Head(cluster)[i] THEN Head(cluster)[i] ELSE Star]

\* A place the lines of a cluster differ in, with a value the bundle left as
\* it was, in a cluster that is large enough.
FindCandidates(bundle, lines) ==
  LET masked == [n \in DOMAIN lines |-> Template(bundle, lines[n])]
  IN  {c \in UNION {{[cluster |-> cluster, position |-> i] : i \in DOMAIN TokensOf(cluster)} :
                      cluster \in Clusters(masked)} :
         /\ Len(c.cluster) >= MinOccurrences
         /\ TokensOf(c.cluster)[c.position] = Star
         /\ \E l \in Range(c.cluster) : ~Masked(l[c.position])}

-----------------------------------------------------------------------------
(* The command.                                                            *)

\* A line that is empty is not read.
ReadCorpus(text) == SelectSeq(text, LAMBDA line : line # <<>>)

Ends(how) == command' = how

\* Nothing to ask: the report is the starting bundle as it is.  The candidates
\* are cut to --max-candidates first, which is taken to be one at least.
FindsNothing ==
  /\ command = "asking"
  /\ FindCandidates(starting, corpus) = {}
  /\ Ends("checking")
  /\ UNCHANGED <<starting, corpus, proposed, accepted, dropped, out>>

\* The one call for all candidates, answered by a list of slots.
Asks ==
  /\ command = "asking"
  /\ FindCandidates(starting, corpus) # {}
  /\ proposed' \in BoundedSeq(Proposals, MaxProposals)
  /\ Ends("weighing")
  /\ UNCHANGED <<starting, corpus, accepted, dropped, out>>

\* The provider fails or its answer is not JSON: nothing is written.
AskFails ==
  /\ command = "asking"
  /\ FindCandidates(starting, corpus) # {}
  /\ Ends("failed")
  /\ UNCHANGED <<starting, corpus, proposed, accepted, dropped, out>>

Marked(slot) == [slot EXCEPT !.why = "synthesized"]

\* The next slot joins the ones accepted if the bundle still parses.
Weighs ==
  /\ command = "weighing"
  /\ proposed # <<>>
  /\ LET slots == Append(accepted, Marked(Head(proposed)))
     IN  IF Merges(starting, slots)
           THEN accepted' = slots /\ proposed' = Tail(proposed) /\ UNCHANGED command
           ELSE Ends("mending") /\ UNCHANGED <<accepted, proposed>>
  /\ UNCHANGED <<starting, corpus, dropped, out>>

\* Mutant of Mends: the mended slot is taken as it comes.
MendsUnchecked(slot) ==
  /\ command = "mending"
  /\ accepted' = Append(accepted, Marked(slot))
  /\ proposed' = Tail(proposed)
  /\ Ends("weighing")
  /\ UNCHANGED <<starting, corpus, dropped, out>>

\* The second call, about this slot alone: a slot that parses is taken.
Mends(slot) ==
  /\ command = "mending"
  /\ Merges(starting, Append(accepted, Marked(slot)))
  /\ accepted' = Append(accepted, Marked(slot))
  /\ proposed' = Tail(proposed)
  /\ Ends("weighing")
  /\ UNCHANGED <<starting, corpus, dropped, out>>

\* The call failed, was no JSON, withdrew the slot, or it is still rejected.
Drops ==
  /\ command = "mending"
  /\ dropped' = Append(dropped, Head(proposed).name)
  /\ proposed' = Tail(proposed)
  /\ Ends("weighing")
  /\ UNCHANGED <<starting, corpus, accepted, out>>

\* A line that masking its own template changes.
Unstable(slots, line) ==
  LET once == Template(slots, line) IN Template(slots, once) # once

\* Every slot that was accepted is one too many.
Checks ==
  /\ command = "weighing"
  /\ proposed = <<>>
  /\ IF accepted # <<>> /\ \E line \in Range(corpus) : Unstable(Combined(starting, accepted), line)
       THEN /\ dropped' = dropped \o [k \in DOMAIN accepted |-> accepted[k].name]
            /\ accepted' = <<>>
       ELSE UNCHANGED <<accepted, dropped>>
  /\ Ends("checking")
  /\ UNCHANGED <<starting, corpus, proposed, out>>

Writes ==
  /\ command = "checking"
  /\ out' = <<ToToml(Combined(starting, accepted))>>
  /\ Ends("written")
  /\ UNCHANGED <<starting, corpus, proposed, accepted, dropped>>

WriteFails ==
  /\ command = "checking"
  /\ Ends("failed")
  /\ UNCHANGED <<starting, corpus, proposed, accepted, dropped, out>>

\* `oarfish --bundle': the file is loaded before anything is spawned.
DaemonLoads ==
  /\ command = "written"
  /\ Ends(IF Parses(out[1]) THEN "serving" ELSE "refused")
  /\ UNCHANGED <<starting, corpus, proposed, accepted, dropped, out>>

SynthesisInit ==
  /\ command = "asking"
  /\ starting \in Starting
  /\ corpus \in {ReadCorpus(text) : text \in Corpora}
  /\ proposed = <<>> /\ accepted = <<>> /\ dropped = <<>> /\ out = <<>>

SynthesisNext ==
  \/ FindsNothing \/ Asks \/ AskFails
  \/ Weighs \/ (\E slot \in Proposals : Mends(slot)) \/ Drops
  \/ Checks \/ Writes \/ WriteFails \/ DaemonLoads
=============================================================================
