------------------------------- MODULE MCApic -------------------------------
(* Instances of Apic: APIC ids equal to indices, one start page, two    *)
(* places for the APIC page, and who touches its id register or reads its   *)
(* ICR back.                                                               *)
EXTENDS Apic
CONSTANTS base1, base2, p1
Identity2 == [v \in 0 .. 1 |-> v]
TwoBases == {base1, base2}
OnePage == {p1}
FirstTwo == {0, 1}
OnlySecond == {1}
=============================================================================
