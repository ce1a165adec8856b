----------------------------- MODULE MCAnalysis -----------------------------
(* Save data of a run with three blocks: the entry block of two              *)
(* instructions, the block after it, and a retranslation of the entry block. *)
(* Predecessors, logged edges and interrupts vary.                          *)
EXTENDS Analysis
I(fvalid, pc, real_pc, prev, branching, conditional) ==
  [fvalid |-> fvalid, pc |-> pc, real_pc |-> real_pc, prev_real_pc |-> prev,
   branching |-> branching, conditional |-> conditional]
First(valid, p, q) ==
  [id |-> 0, loc |-> 0, end |-> 2, fretranslated |-> TRUE,
   insts |-> <<I(TRUE, 0, 0, p, FALSE, FALSE),
               IF valid THEN I(TRUE, 1, 1, q, TRUE, TRUE) ELSE I(FALSE, 1, 0, 0, TRUE, TRUE)>>]
Second(p) ==
  [id |-> 1, loc |-> 2, end |-> 3, fretranslated |-> FALSE,
   insts |-> <<I(TRUE, 2, 2, p, TRUE, FALSE)>>]
Third(p) ==
  [id |-> 2, loc |-> 0, end |-> 2, fretranslated |-> FALSE,
   insts |-> <<I(TRUE, 0, 3, p, FALSE, FALSE), I(TRUE, 1, 4, 3, TRUE, TRUE)>>]
Interrupt == [src : {0, 1, 2}, dst_real : {2, 3}, id : 1 .. 3]
MCInput ==
  [blocks : {{First(valid, p, q), Second(r), Third(2)} :
               valid \in BOOLEAN, p \in {0, 2}, q \in {0, 3}, r \in {0, 1}},
   edge_map : SUBSET [k : {"next"}, src : {1, 2}, dst : {0, 2}],
   interrupts : {<<>>} \cup {<<i>> : i \in Interrupt}
                \cup {<<i, j>> : i \in Interrupt, j \in {k \in Interrupt : k.dst_real = 3}}]
(* The same with signaled edges and without interrupts. *)
SignalInput ==
  [blocks : {{First(TRUE, 0, 0), Second(r), Third(2)} : r \in {0, 1}},
   edge_map : SUBSET [k : {"next", "signaled"}, src : {1}, dst : {0, 2}],
   interrupts : {<<>>}]
=============================================================================
