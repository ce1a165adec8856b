------------------------------ MODULE Pipeline ------------------------------
(***************************************************************************)
(* From the guest's run to the control flow the example program makes of it:  *)
(* the plugin records (Plugin), its files are loaded, and the analysis emits  *)
(* edges (Analysis). The load is one step here: Loader.tla shows that what a  *)
(* clean exit wrote is loaded, except that of the blocks whose first          *)
(* instruction has the same real PC only one is kept.                       *)
(*                                                                         *)
(* The edges of Exec go through a buffer and a set to their file (Edges.tla); *)
(* what at_exit leaves in the buffer is the edge of the last block executed.  *)
(*                                                                         *)
(* tb::exec puts a signaled edge into the same buffer right before it moves   *)
(* it on. Which vCPUs an access to the ICR signals, and whether the block     *)
(* that starts is at the target, is left open; Apic.tla and Edges.tla have    *)
(* that detail.                                                            *)
(***************************************************************************)
EXTENDS Plugin

CONSTANT Icr \* instructions that access the ICR

ASSUME PipelineAssumption == Icr \subseteq Inst

VARIABLES
  buffered, \* edges new in the buffer of each vCPU
  signaled_edges, \* source of the pending signal of each vCPU, or None
  signals,  \* signaled edges logged
  data, sorted_blocks_global_id, interrupts, blk, ints_idx, vaddr_pending,
  vaddr_to_real_pc, found, finsts, stage  \* as in Analysis; found are its edges

programVars == <<data, sorted_blocks_global_id, interrupts, blk, ints_idx,
                 vaddr_pending, vaddr_to_real_pc, found, finsts, stage>>
edgeVars == <<buffered, signaled_edges, signals>>
pipelineVars == <<pluginVars, edgeVars, programVars>>

Program == INSTANCE Analysis WITH Input <- {}, edges <- found

NoData == [blocks |-> {}, edge_map |-> {}, interrupts |-> <<>>]

PipelineInit ==
  /\ PluginInit
  /\ buffered = [v \in VCPU |-> {}]
  /\ signaled_edges = [v \in VCPU |-> None] /\ signals = {}
  /\ data = NoData
  /\ sorted_blocks_global_id = <<>> /\ interrupts = <<>>
  /\ blk = 0 /\ ints_idx = 0
  /\ vaddr_pending = {} /\ vaddr_to_real_pc = <<>>
  /\ found = {} /\ finsts = {}
  /\ stage = "emulator"

(* tb::exec moves the buffer on, first() puts an edge into it. *)
Starts(v) == at[v].step = "out" /\ at'[v].step = "call"
Buffered(v) == IF Starts(v) THEN {} ELSE buffered[v] \cup (edges'[v] \ edges[v])

(* tb::exec takes the pending signal; if its target is the block, there is an *)
(* edge from the access to the block's virtual address.                     *)
Taken == {[dst |-> start[at'[v].block], src |-> signaled_edges[v]] :
            v \in {w \in VCPU : Starts(w) /\ signaled_edges[w] # None}}
TakeSignals ==
  /\ signaled_edges' = [v \in VCPU |-> IF Starts(v) THEN None ELSE signaled_edges[v]]
  /\ signals' \in {signals, signals \cup Taken}

Run ==
  /\ PluginNext
  /\ buffered' = [v \in VCPU |-> Buffered(v)]
  /\ TakeSignals
  /\ UNCHANGED programVars

(* An access to the ICR: add_edge notes the real PC of the instruction for    *)
(* every target.                                                           *)
Access(v, targets) ==
  /\ phase = "run" /\ at[v].step = "body" /\ At(v) \in Icr
  /\ signaled_edges' = [w \in VCPU |-> IF w \in targets THEN insts[At(v)].real_pc
                                       ELSE signaled_edges[w]]
  /\ UNCHANGED <<pluginVars, buffered, signals, programVars>>

(* A block as the program loads it. *)
LoadedInst(b, n) ==
  LET i == saved[b][n]
  IN [fvalid |-> i.fvalid, pc |-> PcOf(<<b, n>>), real_pc |-> i.real_pc,
      prev_real_pc |-> i.prev_real_pc, branching |-> FALSE, conditional |-> FALSE]
LoadedBlock(b) ==
  [id |-> id[b], loc |-> start[b], end |-> start[b] + Length[b],
   fretranslated |-> fretranslated[id[b]],
   insts |-> [n \in 1 .. Length[b] |-> LoadedInst(b, n)]]

(* block_map has one block for each real PC of a first instruction. *)
Key(b) == saved[b][1].real_pc
Keepable(S) ==
  LET all == {b \in Block : saved[b] # None}
  IN S \subseteq all /\ \A b \in all : \E c \in S : Key(c) = Key(b)
     /\ \A d \in S : Key(d) = Key(b) => d = c

(* The edges in the files. *)
OfKind(kind, es) == {[k |-> kind, dst |-> e.dst, src |-> e.src] : e \in es}
EdgeFiles == OfKind("next", UNION {edges[v] \ buffered[v] : v \in VCPU})
             \cup OfKind("signaled", signals)

(* An interrupt as the program loads it. *)
LoadedInts ==
  [n \in DOMAIN saved_ints |-> [src |-> saved_ints[n].src, id |-> saved_ints[n].id,
                                dst_real |-> saved_ints[n].dst_real]]

Load ==
  /\ stage = "emulator" /\ phase = "exited"
  /\ \E S \in SUBSET Block :
       /\ Keepable(S)
       /\ data' = [blocks |-> {LoadedBlock(b) : b \in S}, edge_map |-> EdgeFiles,
                   interrupts |-> LoadedInts]
  /\ vaddr_to_real_pc' = [p \in Program!Pcs' |-> None]
  /\ stage' = "sort"
  /\ UNCHANGED <<pluginVars, edgeVars, sorted_blocks_global_id, interrupts, blk,
                 ints_idx, vaddr_pending, found, finsts>>

Analyse == Program!AnalysisNext /\ UNCHANGED <<pluginVars, edgeVars>>

PipelineNext ==
  \/ stage = "emulator" /\ \/ Run
                           \/ \E v \in VCPU, targets \in SUBSET VCPU : Access(v, targets)
  \/ Load
  \/ Analyse

PipelineSpec == PipelineInit /\ [][PipelineNext]_pipelineVars

-----------------------------------------------------------------------------
Next(i, p) == [k |-> "next", dst |-> insts[i].real_pc, src |-> RealOf(p)]
IsLoaded(i) == \E b \in data.blocks : b.id = id[i[1]]

Happened(e) ==
  \E i \in stored : /\ insts[i].real_pc = e.dst
                    /\ \E p \in preds[i] \cup entered[i] : RealOf(p) = e.src

(* A signal of an access that ran, at the start of a translated block. *)
StartUp(e) == \E i \in stored \cap Icr, b \in Block :
                e.src = insts[i].real_pc /\ e.dst = start[b] /\ id[b] # None

(* The result is what happened, through flushes, retranslations, interrupts   *)
(* and idles. Nothing is lost: whenever an executed instruction ran again      *)
(* right after p (or after an idle), there is an edge from p, unless p is the  *)
(* instruction before it or the edge was left in the buffer at exit. Nothing   *)
(* is invented: what a "next" edge says ran one after the other did, but for   *)
(* edges from real PC 0 (see NextEdgesRan) and those of start-up signals,     *)
(* which the analysis emits as "next" edges to a virtual address.           *)
TransitionsKept ==
  /\ Program!Analysed =>
       \A i \in stored : IsLoaded(i) => \A p \in preds[i] :
         \/ Next(i, p) \in found
         \/ p = <<i[1], i[2] - 1>>
         \/ \E v \in VCPU : [dst |-> insts[i].real_pc, src |-> RealOf(p)] \in buffered[v]
  /\ \A e \in found : e.k = "next" /\ e.src # 0 => Happened(e) \/ StartUp(e)

(* An edge that signals another instruction leads to the first instruction   *)
(* of a block at the target of an interrupt, or nowhere (real PC 0), whatever *)
(* was flushed or retranslated while the interrupt was pending.             *)
InterruptTargets ==
  \A e \in found : e.k = "signaled" /\ e.src # e.dst /\ e.dst # 0 =>
    \E n \in DOMAIN saved_ints, b \in Block :
      /\ saved_ints[n].dst_real = e.dst
      /\ start[b] = saved_ints[n].dst /\ insts[<<b, 1>>].real_pc = e.dst

(* blocks.hpp:97 says of a "next" edge "Captured from instruction execution,  *)
(* jumped or fell to it".                                                  *)
NextEdgesRan == \A e \in found : e.k = "next" => Happened(e)

(* Interrupts of instructions whose block was loaded. *)
LoadedSources == {n \in DOMAIN saved_ints : /\ saved_ints[n].from # None
                                            /\ IsLoaded(saved_ints[n].from)}
SignaledFrom(i) == {e \in found : e.k = "signaled" /\ e.src = RealOf(i)}

(* main.cpp:89 of the example takes "Discontinuities based on the insts       *)
(* located at the curr block time of execution": an edge to the target that   *)
(* was resolved starts at the instruction that was interrupted, ...         *)
InterruptSources ==
  \A e \in found : e.k = "signaled" /\ e.dst # 0 =>
    \A n \in LoadedSources :
      saved_ints[n].dst_real = e.dst => e \in SignaledFrom(saved_ints[n].from)

(* ... and once the analysis has met a block translated after the interrupt,  *)
(* there is one from that address.                                         *)
ExceptionsLinked ==
  stage = "done" => \A n \in LoadedSources :
    (\E b \in data.blocks : b.id >= saved_ints[n].id)
      => \E i \in stored : PcOf(i) = saved_ints[n].src /\ SignaledFrom(i) # {}
=============================================================================
