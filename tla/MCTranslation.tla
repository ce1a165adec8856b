--------------------------- MODULE MCTranslation ---------------------------
(* Two vCPUs and four translatable ranges: touching, overlapping, starting *)
(* at another's last byte, and one byte long.                              *)
EXTENDS Translation, TLC
CONSTANTS v1, v2
MCVCPU == {v1, v2}
MCTb == {[loc |-> 0, last |-> 1], [loc |-> 1, last |-> 2], [loc |-> 2, last |-> 2],
         [loc |-> 0, last |-> 2]}
MCSymmetry == Permutations(MCVCPU)
=============================================================================
