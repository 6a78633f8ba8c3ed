--------------------------- MODULE MCWindowTable ---------------------------
(* Instances of WindowTable for TLC. *)
EXTENDS WindowTable, TLC

CONSTANTS t1, t2, t3, h1, h2

\* Every second.
MCSteady == {1}

\* No action and no property tells two templates or two hosts apart.
MCSymmetry == Permutations(Template) \union Permutations(Host)
=============================================================================
