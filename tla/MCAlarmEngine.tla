--------------------------- MODULE MCAlarmEngine ---------------------------
(* Instances of AlarmEngine for TLC. *)
EXTENDS AlarmEngineProps, TLC

\* Severities: 0 below the gate floor, 1 gated, 2 bypasses the window.
V(severity, actionable, contextual) ==
  [severity |-> severity, actionable |-> actionable, contextual |-> contextual]

MCVerdicts == {V(1, TRUE, FALSE), V(2, TRUE, TRUE)}

MCGateAndCritical == {V(2, FALSE, FALSE), V(2, TRUE, TRUE)}

CONSTANTS t1, t2, h1, h2
MCNoMerges == {}
MCMerges == {<<t2, t1>>}
MCSymmetry == Permutations(Host)
=============================================================================
