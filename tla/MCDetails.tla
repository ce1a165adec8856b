----------------------------- MODULE MCDetails -----------------------------
(* Instructions of one byte and two, with up to two alternatives each, so that *)
(* runs start, are cut and share real PCs; a second builder writes over the     *)
(* addresses of the first, with the same layout or another.                   *)
EXTENDS Details
CONSTANT m0
MCModule == {m0}
MCCode == {<<1>>, <<2, 1>>}
SameCode(c) == {c}
AnyCode(c) == MCCode
MCShape == [m \in MCModule |-> [inlane : BOOLEAN, copy : BOOLEAN]]
MCMaxAlts == [m \in MCModule |-> 2]
=============================================================================
