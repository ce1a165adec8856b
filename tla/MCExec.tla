------------------------------- MODULE MCExec -------------------------------
(* Instances of Exec: two vCPUs, blocks of one and two instructions, each    *)
(* run by one vCPU or (Shared) by both. Bounds are given for each vCPU.      *)
EXTENDS Exec
CONSTANTS b1, b2, b3, p1, p2, p3
TwoBlocks == {b1, b2}
ThreeBlocks == {b1, b2, b3}
MCLength == [b \in ThreeBlocks |-> IF b = b1 THEN 2 ELSE 1]
TwoLength == [b \in TwoBlocks |-> IF b = b1 THEN 2 ELSE 1]
MCStart == [b \in ThreeBlocks |-> CASE b = b1 -> p1 [] b = b2 -> p2 [] b = b3 -> p3]
TwoStart == [b \in TwoBlocks |-> IF b = b1 THEN p1 ELSE p2]
Private == [v \in {0, 1} |-> IF v = 0 THEN {b1, b2} ELSE {b3}]
Alone == [v \in {0} |-> TwoBlocks]
Shared == [v \in {0, 1} |-> TwoBlocks]
NoneBoth == [v \in {0, 1} |-> 0]
TwoZero == [v \in {0, 1} |-> IF v = 0 THEN 2 ELSE 0]
ZeroOne == [v \in {0, 1} |-> IF v = 0 THEN 0 ELSE 1]
NoneYet == [v \in {0} |-> 0]
OneEach == [v \in {0} |-> 1]
=============================================================================
