------------------------------- MODULE MCWalk -------------------------------
(* All control-flow graphs over three addresses, each with or without a      *)
(* block. Addresses are interchangeable, so the entry is a1 or there is none. *)
EXTENDS Walk
CONSTANTS a1, a2, a3
MCAddr == {a1, a2, a3}
MCInit == WalkInit /\ entry_address \in {a1, None}
MCSpec == MCInit /\ [][WalkNext]_walkVars /\ WF_walkVars(WalkNext)
=============================================================================
