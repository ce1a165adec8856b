----------------------------- MODULE MCPipeline -----------------------------
(* One vCPU; b1 and b3 are translations of the same instruction, b2 of the    *)
(* one or two after it. The bounds leave runs in which a block is entered      *)
(* again twice, or once with an idle and a resume, runs with an interrupt, and, *)
(* of b1 and the first instruction of b2, with two. A start-up signal may be   *)
(* sent by the first instruction of b2 where nothing else comes.            *)
EXTENDS Pipeline
CONSTANTS b1, b2, b3, MaxReentries, MaxAllInts
MCBlock == {b1, b2, b3}
MCLength == [b \in MCBlock |-> IF b = b2 THEN 2 ELSE 1]
OfB2 == {<<b2, 1>>}
NoInst == {}
OneLength == [b \in MCBlock |-> 1]
MCStart == [b \in MCBlock |-> IF b = b2 THEN 1 ELSE 0]
Alone == [v \in {0} |-> MCBlock]
NoneYet == [v \in {0} |-> 0]
OneEach == [v \in {0} |-> 1]
TwoEach == [v \in {0} |-> 2]
Reentries == FoldSet(LAMBDA b, n : n + Cardinality(preds[<<b, 1>>]), 0, MCBlock)
AllInts == Len(saved_ints) + Len(ints[0])
Captures == Len(vcpu_states[0])
Idled == {i \in Inst : None \in entered[i]}
Small == id[b3] = None /\ \A i \in Inst : i[2] = 2 => ~insts[i].fvalid
Signaled == signals # {} \/ signaled_edges[0] # None
Bounded == \/ AllInts = 0 /\ Captures = 0 /\ Reentries <= MaxReentries
           \/ AllInts = 0 /\ Reentries < MaxReentries
           \/ /\ AllInts <= IF Small THEN MaxAllInts ELSE 1
              /\ Captures = 0 /\ Reentries = 0 /\ Cardinality(Idled) <= 1
Quiet == AllInts = 0 /\ Captures = 0 /\ Reentries <= 1
MCSpec == PipelineInit /\ [][PipelineNext /\ (Bounded /\ (Signaled => Quiet))']_pipelineVars
=============================================================================
