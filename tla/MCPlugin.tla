------------------------------ MODULE MCPlugin ------------------------------
(* Two vCPUs that share b1; b2 is a translation of the same address by one of *)
(* them. The log of interrupts in the file is bounded.                      *)
EXTENDS Plugin
CONSTANTS b1, b2
MCBlock == {b1, b2}
MCLength == [b \in MCBlock |-> 1]
MCStart == [b \in MCBlock |-> 0]
Shared == [v \in {0, 1} |-> IF v = 0 THEN {b1} ELSE MCBlock]
NoneYet == [v \in {0, 1} |-> 0]
ZeroOne == [v \in {0, 1} |-> IF v = 0 THEN 1 ELSE 0]
MCSpec == PluginInit /\ [][PluginNext /\ Len(saved_ints') <= 1]_pluginVars
=============================================================================
