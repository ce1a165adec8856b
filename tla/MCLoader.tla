------------------------------ MODULE MCLoader ------------------------------
(* Instances of Loader. b1 is the entry block (real PC 0), b2 and b4 ran, b3  *)
(* is a block that never ran; b2 has a second instruction that never ran.   *)
(* Of a real PC two bytes are stored; the low one of b4's is the PC of b2.   *)
EXTENDS Loader
CONSTANTS v1, b1, b2, b3, b4, i1, s1, e1, e2
OneVcpu == {v1}
EntryBlocks == {b1, b2, b3}
TornBlocks == {b2, b3, b4}
MCLength == [b \in Block |-> IF b = b2 THEN 2 ELSE 1]
MCExecuted == Inst \cap {<<b1, 1>>, <<b2, 1>>, <<b4, 1>>}
MCRealPc == [i \in Inst |-> CASE i = <<b2, 1>> -> 1 [] i = <<b4, 1>> -> 257 [] OTHER -> 0]
OneInterrupt == {i1}
OneState == {s1}
OneEdge == {e1}
TwoEdges == {e1, e2}
=============================================================================
