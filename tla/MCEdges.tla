------------------------------ MODULE MCEdges ------------------------------
(* Instances of Edges. With one real PC the edges are the one first() can  *)
(* log and one signaled edge per block; a set limit of 1 posts a job on the *)
(* second edge. p1 is where l1 starts, p2 is where nothing (or l2) starts. *)
EXTENDS Edges, TLC
CONSTANTS v1, v2, l1, l2, p1, p2, r1
Two == {v1, v2}
One == {v1}
OneBlock == {l1}
TwoBlocks == {l1, l2}
MCPhys == {p1, p2}
OneTranslate == l1 :> p1
TwoTranslate == (l1 :> p1) @@ (l2 :> p2)
MCRealPc == {r1}
MCSymmetry == Permutations(Two)
=============================================================================
