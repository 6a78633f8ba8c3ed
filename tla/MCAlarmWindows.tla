--------------------------- MODULE MCAlarmWindows ---------------------------
(* Instances of AlarmWindows for TLC. *)
EXTENDS AlarmWindows

CONSTANTS t1, h1, h2

V(severity, actionable, contextual) ==
  [severity |-> severity, actionable |-> actionable, contextual |-> contextual]

\* Below critical: raised outright, or after a contextual check.
MCQuiet == {V(1, TRUE, FALSE), V(1, TRUE, TRUE)}
MCPlain == {V(1, TRUE, FALSE)}
MCMixed == {V(1, TRUE, TRUE), V(1, TRUE, FALSE), V(2, TRUE, FALSE), V(0, TRUE, FALSE)}

MCNoMerges == {}
MCSteady == {1}
=============================================================================
