-------------------------------- MODULE Relay --------------------------------
(***************************************************************************)
(* What the daemon promises of a line it has accepted: lines are handled   *)
(* in the order they were accepted, each once, and a stop comes only after *)
(* the last of them was handled.  A crash may lose what was in transit.    *)
(***************************************************************************)
EXTENDS Naturals, Sequences

CONSTANT Item

VARIABLES
  transit,   \* accepted and not yet handled, oldest first
  phase      \* "open", "stopped" or "crashed"

vars == <<transit, phase>>

Init == transit = <<>> /\ phase = "open"

Accept ==
  /\ phase = "open"
  /\ \E item \in Item : transit' = Append(transit, item)
  /\ UNCHANGED phase

Handle ==
  /\ phase = "open"
  /\ transit # <<>>
  /\ transit' = Tail(transit)
  /\ UNCHANGED phase

Stop ==
  /\ phase = "open"
  /\ transit = <<>>
  /\ phase' = "stopped"
  /\ UNCHANGED transit

Crash ==
  /\ phase = "open"
  /\ phase' = "crashed"
  /\ transit' = <<>>

Next == Accept \/ Handle \/ Stop \/ Crash

Spec == Init /\ [][Next]_vars /\ WF_vars(Handle)
=============================================================================
