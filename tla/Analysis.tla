------------------------------ MODULE Analysis ------------------------------
(***************************************************************************)
(* What the example program makes of the loaded data (analysis::analyze and  *)
(* init_flags in Example/main.cpp): it sorts blocks and interrupts by the    *)
(* global block id, collects the control-flow edges block by block, links    *)
(* interrupts to the newest translation of their source, and flags branches. *)
(*                                                                         *)
(* successors and predecessor get every edge together, so they are one set   *)
(* of edges here. The disassembler (capstone) is external: what it says of   *)
(* an instruction is part of the data.                                      *)
(***************************************************************************)
EXTENDS Integers, Sequences, FiniteSets, SequencesExt

CONSTANTS
  Input,  \* save data: blocks, edge_map, interrupts
  None    \* not found

(* end is the address after a block; an interrupt's src is a virtual PC, its   *)
(* id the block id that was next when it was logged.                        *)
InstData == [fvalid : BOOLEAN, pc : Nat, real_pc : Nat, prev_real_pc : Nat,
             branching : BOOLEAN, conditional : BOOLEAN]
BlockData == [id : Nat, loc : Nat, end : Nat, fretranslated : BOOLEAN,
              insts : Seq(InstData) \ {<<>>}]
EdgeData == [k : {"signaled", "next"}, src : Nat, dst : Nat]
InterruptData == [src : Nat, dst_real : Nat, id : Nat]
SaveData == [blocks : SUBSET BlockData, edge_map : SUBSET EdgeData,
             interrupts : Seq(InterruptData)]

(* One block has one id. *)
ASSUME AnalysisAssumption ==
  /\ Input \subseteq SaveData
  /\ \A in \in Input : /\ IsFiniteSet(in.blocks)
                       /\ \A b, c \in in.blocks : b.id = c.id => b = c
  /\ None \notin Nat

VARIABLES
  data,                    \* save_data
  sorted_blocks_global_id, \* blocks by id
  interrupts,              \* interrupts by id
  blk,                     \* number of blocks analysed
  ints_idx,                \* number of interrupts taken
  vaddr_pending,           \* sources of interrupts not found yet
  vaddr_to_real_pc,        \* real PC of the newest translation of an address
  edges,                   \* edges emitted
  finsts,                  \* flags of each instruction
  stage                    \* "sort", "map", "blocks", "flags", "done"

analysisVars == <<data, sorted_blocks_global_id, interrupts, blk, ints_idx,
                  vaddr_pending, vaddr_to_real_pc, edges, finsts, stage>>

(* Instructions are named by the block and their place in it. *)
Insts == UNION {{<<b, m>> : m \in DOMAIN b.insts} : b \in data.blocks}
Fields(i) == i[1].insts[i[2]]
Pcs == {Fields(i).pc : i \in Insts} \cup {data.interrupts[k].src : k \in DOMAIN data.interrupts}

AnalysisInit ==
  /\ data \in Input
  /\ sorted_blocks_global_id = <<>> /\ interrupts = <<>>
  /\ blk = 0 /\ ints_idx = 0
  /\ vaddr_pending = {}
  /\ vaddr_to_real_pc = [p \in Pcs |-> None]
  /\ edges = {} /\ finsts = {}
  /\ stage = "sort"

ById(s) == \A k \in 1 .. Len(s) - 1 : s[k].id <= s[k + 1].id
Reordered(s) == {[k \in DOMAIN s |-> s[p[k]]] : p \in SetToSeqs(DOMAIN s)}

(* Both sorts leave the order of equal ids open. *)
Sort ==
  /\ stage = "sort"
  /\ sorted_blocks_global_id' \in {s \in SetToSeqs(data.blocks) : ById(s)}
  /\ interrupts' \in {s \in Reordered(data.interrupts) : ById(s)}
  /\ stage' = "map"
  /\ UNCHANGED <<data, blk, ints_idx, vaddr_pending, vaddr_to_real_pc, edges, finsts>>

Edge(k, dst, src) == [k |-> k, dst |-> dst, src |-> src]

(* The edges the vCPUs logged, whatever their kind. *)
EmitEdgeMap ==
  /\ stage = "map"
  /\ edges' = edges \cup {Edge("next", e.dst, e.src) : e \in data.edge_map}
  /\ stage' = "blocks"
  /\ UNCHANGED <<data, sorted_blocks_global_id, interrupts, blk, ints_idx,
                 vaddr_pending, vaddr_to_real_pc, finsts>>

(* The executed instructions of b before place m. *)
Before(b, m) == {n \in 1 .. m - 1 : b.insts[n].fvalid}
Latest(S) == CHOOSE n \in S : \A k \in S : k <= n

(* Mutants, one plausible bug each: an executed instruction is always taken  *)
(* to follow the one before it, interrupts are due one block late, a branch  *)
(* counts as taken when it falls through.                                   *)
ChainedAlways(b, m) == Before(b, m) # {}
DueLater(b) == {k \in ints_idx + 1 .. Len(interrupts) : interrupts[k].id < b.id}
TakenByFalling(b, dest) == b.end = dest.loc

(* An instruction whose predecessor is the executed one before it needs no   *)
(* edge; every other one starts a run.                                      *)
Chained(b, m) == /\ Before(b, m) # {}
                 /\ b.insts[Latest(Before(b, m))].real_pc = b.insts[m].prev_real_pc
Starts(b) == {m \in DOMAIN b.insts : b.insts[m].fvalid /\ ~Chained(b, m)}

(* Interrupts logged before b was translated, none taken twice. *)
Due(b) == {k \in ints_idx + 1 .. Len(interrupts) : interrupts[k].id <= b.id}

(* One block: its runs are mapped and get edges, interrupts that waited for  *)
(* one of them are closed with an edge to itself, and the due interrupts get *)
(* an edge or wait.                                                        *)
AnalyzeBlock ==
  LET b == sorted_blocks_global_id[blk + 1]
      mapped == [p \in Pcs |->
                   LET m == {n \in Starts(b) : b.insts[n].pc = p}
                   IN IF m = {} THEN vaddr_to_real_pc[p] ELSE b.insts[Latest(m)].real_pc]
      found == {p \in vaddr_pending : mapped[p] # None}
      due == {interrupts[k] : k \in Due(b)}
      known == {i \in due : mapped[i.src] # None}
  IN /\ stage = "blocks" /\ blk < Len(sorted_blocks_global_id)
     /\ vaddr_to_real_pc' = mapped
     /\ edges' = edges
          \cup {Edge("next", b.insts[m].real_pc, b.insts[m].prev_real_pc) : m \in Starts(b)}
          \cup {Edge("signaled", mapped[p], mapped[p]) : p \in found}
          \cup {Edge("signaled", i.dst_real, mapped[i.src]) : i \in known}
     /\ vaddr_pending' = (vaddr_pending \ found) \cup {i.src : i \in due \ known}
     /\ ints_idx' = ints_idx + Cardinality(Due(b))
     /\ blk' = blk + 1
     /\ UNCHANGED <<data, sorted_blocks_global_id, interrupts, finsts, stage>>

BlocksDone ==
  /\ stage = "blocks" /\ blk = Len(sorted_blocks_global_id)
  /\ stage' = "flags"
  /\ UNCHANGED <<data, sorted_blocks_global_id, interrupts, blk, ints_idx,
                 vaddr_pending, vaddr_to_real_pc, edges, finsts>>

(* The block an edge leads to, if one starts there, and whether that is      *)
(* elsewhere than where block b ends.                                      *)
Destinations(i) ==
  {d \in data.blocks : \E e \in edges : e.src = Fields(i).real_pc
                                        /\ e.dst = d.insts[1].real_pc}
Taken(b, dest) == b.end # dest.loc

(* init_flags: the flags of what ran, and for a branch what its last edge in *)
(* the order of a hash set says.                                           *)
InitFlags ==
  LET ran(i) == i[1].insts[1].fvalid
      flag(name, S) == {<<name, i>> : i \in S}
      branches == {i \in Insts : Fields(i).branching}
      takes(i) == {Taken(i[1], d) : d \in Destinations(i)}
  IN /\ stage = "flags"
     /\ \E other \in SUBSET branches :
          /\ \A i \in branches : takes(i) # {} => (i \in other) \in takes(i)
          /\ \A i \in other : takes(i) # {}
          /\ finsts' = flag("fother_branch_edge", other)
               \cup flag("ftaken_condbranch", {i \in other : Fields(i).conditional})
               \cup flag("fentry", {i \in Insts : i[2] = 1 /\ Fields(i).real_pc = 0})
               \cup flag("fexecuted", {i \in Insts : ran(i) /\ Fields(i).fvalid})
               \cup flag("fself_modified", {i \in Insts : ran(i) /\ i[1].fretranslated})
               \cup flag("fexited", {i \in Insts : ran(i) /\ ~Fields(i).fvalid
                                                    /\ ~i[1].fretranslated})
     /\ stage' = "done"
     /\ UNCHANGED <<data, sorted_blocks_global_id, interrupts, blk, ints_idx,
                    vaddr_pending, vaddr_to_real_pc, edges>>

AnalysisNext == Sort \/ EmitEdgeMap \/ AnalyzeBlock \/ BlocksDone \/ InitFlags

AnalysisSpec == AnalysisInit /\ [][AnalysisNext]_analysisVars

-----------------------------------------------------------------------------
Analysed == stage \in {"flags", "done"}
Records == {i \in Insts : Fields(i).fvalid}
Link(i) == Edge("next", Fields(i).real_pc, Fields(i).prev_real_pc)
Logged == {Edge("next", e.dst, e.src) : e \in data.edge_map}

(* The predecessor every executed instruction recorded is either an edge or  *)
(* the executed instruction before it in its block; every logged edge is     *)
(* there; and no other "next" edge is.                                      *)
PredecessorsKept ==
  Analysed =>
    /\ \A i \in Records :
         \/ Link(i) \in edges
         \/ \E n \in Before(i[1], i[2]) :
              i[1].insts[n].real_pc = Fields(i).prev_real_pc
              /\ \A k \in n + 1 .. i[2] - 1 : ~i[1].insts[k].fvalid
    /\ Logged \subseteq edges
    /\ {e \in edges : e.k = "next"} \subseteq Logged \cup {Link(i) : i \in Records}

(* The first block translated after interrupt i was logged, and what an      *)
(* address meant then: the newest run that starts at it.                    *)
Turn(i) == {b \in data.blocks : b.id >= i.id /\ \A c \in data.blocks : c.id >= i.id => b.id <= c.id}
Sources(i, b) ==
  {j \in Insts : j[1].id <= b.id /\ j[2] \in Starts(j[1]) /\ Fields(j).pc = i.src}
Newest(S) ==
  {j \in S : \A k \in S : \/ k[1].id < j[1].id
                          \/ k[1].id = j[1].id /\ k[2] <= j[2]}

(* An interrupt whose source is known by its turn is an edge from the newest *)
(* translation of the source, however interrupts and retranslations mix; an  *)
(* edge that signals anything but itself is such an interrupt.              *)
InterruptsLinked ==
  LET all == {data.interrupts[k] : k \in DOMAIN data.interrupts}
      link == UNION {UNION {{Edge("signaled", i.dst_real, Fields(j).real_pc) :
                               j \in Newest(Sources(i, b))} : b \in Turn(i)} : i \in all}
  IN Analysed => /\ link \subseteq edges
                 /\ \A e \in edges : e.k = "signaled" => e \in link \/ e.src = e.dst

(* A branch that ran (past real PC 0) is flagged as having gone elsewhere     *)
(* than to the next instruction only if a log, a record or an interrupt says *)
(* that control went from it to a block elsewhere.                          *)
FlagsJustified ==
  stage = "done" =>
    \A i \in Records : <<"fother_branch_edge", i>> \in finsts /\ Fields(i).real_pc # 0 =>
      \E d \in data.blocks :
        /\ d.loc # i[1].end
        /\ LET to == d.insts[1].real_pc
               from == Fields(i).real_pc
           IN \/ Edge("next", to, from) \in Logged \cup {Link(j) : j \in Records}
              \/ to = from
              \/ \E k \in DOMAIN data.interrupts : data.interrupts[k].dst_real = to

(* blocks.hpp:96 says of the kind signaled "Instruction signaled to execute    *)
(* this": an edge tb::exec logged as one is one in the result.               *)
SignalsKept ==
  Analysed => \A e \in data.edge_map :
    e.k = "signaled" => Edge("signaled", e.dst, e.src) \in edges
=============================================================================
