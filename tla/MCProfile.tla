----------------------------- MODULE MCProfile -----------------------------
(* Instructions of one byte or two; the configuration names the labels and   *)
(* the last address. The bound MaxSize limits instructions, alternatives,    *)
(* references and saved instructions together, so that long builds and       *)
(* several small saves are both there.                                      *)
EXTENDS Profile
CONSTANT MaxSize
MCLens == {1, 2}
MCKinds == {"normal", "jump_to"}
Insts(m) == FoldSet(LAMBDA a, n : n + 1 + Len(m[a].discrepancies), 0, DOMAIN m)
Size == Insts(map) + Cardinality(uses) + FoldSeq(LAMBDA m, n : n + 1 + Insts(m), 0, file)
MCSpec == ProfileInit /\ [][ProfileNext /\ Size' <= MaxSize]_profileVars
=============================================================================
