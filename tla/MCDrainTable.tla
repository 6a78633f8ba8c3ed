---------------------------- MODULE MCDrainTable ----------------------------
(* Instances of DrainTable for TLC. *)
EXTENDS DrainTable

CONSTANTS n1, n2, w, x, y, z, star

MCTwoThirds == <<2, 3>>
MCFloor == <<13, 20>>
MCNumeric == {n1, n2}

\* Numbers and words in front, close and unlike tails, a shorter line.
MCLines == {<<n1, y, z>>, <<n2, y, z>>, <<x, y, z>>, <<w, y, z>>,
            <<x, w, w>>, <<w, x, x>>, <<n2, y, w>>, <<n1, y>>}
=============================================================================
