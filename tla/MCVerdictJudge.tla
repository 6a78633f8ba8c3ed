--------------------------- MODULE MCVerdictJudge ---------------------------
(* Instances of VerdictJudge for TLC. *)
EXTENDS VerdictJudgeProps, TLC

CONSTANTS t1, t2, b1, b2, m1, m2

\* No action and no property tells two templates apart.
MCSymmetry == Permutations(Template)
=============================================================================
