-------------------------------- MODULE Exec --------------------------------
(***************************************************************************)
(* What the plugin records while instructions run: process::inst::first and *)
(* process::inst::inst (QEMU/src/headers/process.hpp), the numbering of     *)
(* instructions by real PC (helpers.hpp), and the discon, idle, resume and  *)
(* init callbacks and the part of tb_flush that concerns their records      *)
(* (QEMU/main.cpp).                                                        *)
(*                                                                         *)
(* A vCPU's own state (curr_pc, real_pc, its records) is touched by its     *)
(* thread alone. The instruction records belong to the translated block, and *)
(* QEMU lets every vCPU run the same block: first() and inst() are therefore *)
(* split at their accesses to the record. Edges are the set of everything    *)
(* emplaced in prevd_jumps[v]; Edges.tla says what becomes of them.         *)
(***************************************************************************)
EXTENDS Integers, Sequences, FiniteSets

CONSTANTS
  NumVcpu,    \* vCPUs are 0 .. NumVcpu - 1
  Block,      \* translated blocks
  Length,     \* number of instructions of each block
  start,      \* virtual PC each block starts at
  RunsBlock,  \* blocks each vCPU runs
  InitFirst,  \* QEMU calls init for every vCPU before any of them runs
  MaxRealPc,  \* bound on a vCPU's real_pc counter
  MaxInts,    \* bound on ints[v] between flushes, for each v
  MaxStates,  \* bound on vcpu_states[v] between flushes, for each v
  None

VCPU == 0 .. NumVcpu - 1
Pc == {start[b] : b \in Block}
Inst == UNION {{b} \X (1 .. Length[b]) : b \in Block}

ASSUME ExecAssumption ==
  /\ NumVcpu \in Nat \ {0}
  /\ Length \in [Block -> Nat \ {0}]
  /\ DOMAIN start = Block
  /\ RunsBlock \in [VCPU -> SUBSET Block]
  /\ InitFirst \in BOOLEAN
  /\ MaxRealPc \in Nat /\ MaxInts \in [VCPU -> Nat] /\ MaxStates \in [VCPU -> Nat]
  /\ None \notin Nat \cup Pc \cup Block \cup Inst

VARIABLES
  ready,        \* vCPUs whose init callback has run
  size,         \* size of the per-vCPU vectors
  real_pc,      \* next number of each vCPU
  curr_pc,      \* real PC of the last instruction of each vCPU, or None
  insts,        \* instruction records
  edges,        \* edges each vCPU logged
  fadd_real_pc, \* an interrupt waits for its real PC
  ints,         \* interrupts of each vCPU since the last flush
  vcpu_states,  \* idle/resume captures of each vCPU since the last flush
  at,           \* where each vCPU is: [step, block, n]
  idling,       \* QEMU: the vCPU is halted
  goto,         \* QEMU: virtual PC a discontinuity sent the vCPU to, or None
  stored,       \* history: instructions whose real_pc was stored
  ran,          \* history: instruction each vCPU ran last, None after an idle
  entered,      \* history: instructions (or None) that ran right before an
                \* instruction's first execution
  preds         \* history: the same for its later executions

execVars == <<ready, size, real_pc, curr_pc, insts, edges, fadd_real_pc, ints,
              vcpu_states, at, idling, goto, stored, ran, entered, preds>>
history == <<stored, ran, entered, preds>>

(* A fresh record: fvalid_prev_real_pc starts true (basic_info.hpp). *)
FreshInst == [fvalid |-> FALSE, fvalid_prev_real_pc |-> TRUE, real_pc |-> 0,
              prev_real_pc |-> 0]
Out == [step |-> "out", block |-> None, n |-> 0]

ExecInit ==
  /\ ready = {}
  /\ size = 0
  /\ real_pc = [v \in VCPU |-> 0]
  /\ curr_pc = [v \in VCPU |-> None]
  /\ insts = [i \in Inst |-> FreshInst]
  /\ edges = [v \in VCPU |-> {}]
  /\ fadd_real_pc = [v \in VCPU |-> FALSE]
  /\ ints = [v \in VCPU |-> <<>>]
  /\ vcpu_states = [v \in VCPU |-> <<>>]
  /\ at = [v \in VCPU |-> Out]
  /\ idling = [v \in VCPU |-> FALSE]
  /\ goto = [v \in VCPU |-> None]
  /\ stored = {}
  /\ ran = [v \in VCPU |-> None]
  /\ entered = [i \in Inst |-> {}]
  /\ preds = [i \in Inst |-> {}]

(* vcpus::init: the vectors grow to hold this vCPU. *)
VcpuInit(v) ==
  /\ v \notin ready
  /\ ready' = ready \cup {v}
  /\ size' = IF size <= v THEN v + 1 ELSE size
  /\ UNCHANGED <<real_pc, curr_pc, insts, edges, fadd_real_pc, ints, vcpu_states,
                 at, idling, goto, history>>

(* QEMU: a vCPU starts a block, the one a discontinuity sent it to if any. *)
Enter(v, b) ==
  /\ IF InitFirst THEN ready = VCPU ELSE v \in ready
  /\ at[v].step = "out" /\ ~idling[v]
  /\ b \in RunsBlock[v]
  /\ goto[v] \in {None, start[b]}
  /\ at' = [at EXCEPT ![v] = [step |-> "call", block |-> b, n |-> 1]]
  /\ goto' = [goto EXCEPT ![v] = None]
  /\ UNCHANGED <<ready, size, real_pc, curr_pc, insts, edges, fadd_real_pc, ints,
                 vcpu_states, idling, history>>

(* The record of the instruction v is at. *)
At(v) == <<at[v].block, at[v].n>>
OrZero(p) == IF p = None THEN 0 ELSE p
Step(v, s) == at' = [at EXCEPT ![v].step = s]

(* The callback finds the instruction new, ... *)
FindNew(v) ==
  /\ at[v].step = "call"
  /\ ~insts[At(v)].fvalid
  /\ Step(v, "mark")
  /\ UNCHANGED <<ready, size, real_pc, curr_pc, insts, edges, fadd_real_pc, ints,
                 vcpu_states, idling, goto, history>>

(* ... marks it valid, ... *)
MarkValid(v) ==
  /\ at[v].step = "mark"
  /\ insts' = [insts EXCEPT ![At(v)].fvalid = TRUE]
  /\ Step(v, "number")
  /\ entered' = [entered EXCEPT ![At(v)] = @ \cup {ran[v]}]
  /\ UNCHANGED <<ready, size, real_pc, curr_pc, edges, fadd_real_pc, ints,
                 vcpu_states, idling, goto, stored, ran, preds>>

(* A mutant: the number lacks the vCPU. *)
RealAddressAlone(v) == real_pc[v] * size

(* ... and numbers it (get_real_address): round-robin among the vCPUs. *)
RealAddress(v) == real_pc[v] * size + v

Number(v) ==
  /\ at[v].step = "number"
  /\ real_pc[v] < MaxRealPc
  /\ insts' = [insts EXCEPT ![At(v)].real_pc = RealAddress(v)]
  /\ real_pc' = [real_pc EXCEPT ![v] = @ + 1]
  /\ Step(v, "set")
  /\ stored' = stored \cup {At(v)}
  /\ UNCHANGED <<ready, size, curr_pc, edges, fadd_real_pc, ints, vcpu_states,
                 idling, goto, ran, entered, preds>>

(* Mutants, one plausible bug each: an edge only after an idle, the first    *)
(* interrupt taken for the last, curr_pc moved only if it was set, an idle   *)
(* that does not forget it. *)
ElsewhereIdle(v) == curr_pc[v] = None
PendingFirst(v) == 1
AdvanceIfSet(v) ==
  curr_pc' = [curr_pc EXCEPT ![v] = IF @ = None THEN None ELSE insts[At(v)].real_pc]
ForgetNot(v) == UNCHANGED curr_pc

(* The record does not tell how the instruction was reached this time. *)
Elsewhere(v) ==
  \/ curr_pc[v] = None
  \/ insts[At(v)].fvalid_prev_real_pc /\ curr_pc[v] # insts[At(v)].prev_real_pc

(* The last interrupt; curr_pc moves to the instruction; curr_pc is emptied. *)
Pending(v) == Len(ints[v])
Advance(v) == curr_pc' = [curr_pc EXCEPT ![v] = insts[At(v)].real_pc]
Forget(v) == curr_pc' = [curr_pc EXCEPT ![v] = None]

(* first() of a valid instruction: an edge, if it was not reached the way   *)
(* its record says.                                                        *)
FirstAgain(v) ==
  LET i == At(v)
      e == [dst |-> insts[i].real_pc, src |-> OrZero(curr_pc[v])]
  IN /\ at[v].step = "call" /\ at[v].n = 1
     /\ insts[i].fvalid
     /\ edges' = IF Elsewhere(v) THEN [edges EXCEPT ![v] = @ \cup {e}] ELSE edges
     /\ Step(v, "set")
     /\ preds' = [preds EXCEPT ![i] = @ \cup {ran[v]}]
     /\ UNCHANGED <<ready, size, real_pc, curr_pc, insts, fadd_real_pc, ints,
                    vcpu_states, idling, goto, stored, ran, entered>>

(* inst() of a valid instruction goes straight on. *)
InstAgain(v) ==
  /\ at[v].step = "call" /\ at[v].n > 1
  /\ insts[At(v)].fvalid
  /\ Step(v, "set")
  /\ preds' = [preds EXCEPT ![At(v)] = @ \cup {ran[v]}]
  /\ UNCHANGED <<ready, size, real_pc, curr_pc, insts, edges, fadd_real_pc, ints,
                 vcpu_states, idling, goto, stored, ran, entered>>

(* The rest of first(): a missing predecessor is filled in, the pending     *)
(* interrupt gets its real PC, and curr_pc moves. back() of an empty vector *)
(* is undefined: whatever lies there matches or not, and outlasts the call. *)
FirstSet(v) ==
  LET i == At(v)
      fill == ~insts[i].fvalid_prev_real_pc /\ curr_pc[v] # None
      matches == fadd_real_pc[v] /\ ints[v] # <<>> /\ ints[v][Pending(v)].dst = start[at[v].block]
      undefined == fadd_real_pc[v] /\ ints[v] = <<>>
  IN /\ at[v].step = "set" /\ at[v].n = 1
     /\ insts' = IF fill
                 THEN [insts EXCEPT ![i].prev_real_pc = curr_pc[v], ![i].fvalid_prev_real_pc = TRUE]
                 ELSE insts
     /\ ints' = IF matches
                THEN [ints EXCEPT ![v][Pending(v)].dst_real = insts[i].real_pc]
                ELSE ints
     /\ \E cleared \in BOOLEAN :
          /\ ~undefined => cleared = matches
          /\ fadd_real_pc' = [fadd_real_pc EXCEPT ![v] = @ /\ ~cleared]
     /\ Advance(v)
     /\ ran' = [ran EXCEPT ![v] = i]
     /\ Step(v, "body")
     /\ UNCHANGED <<ready, size, real_pc, edges, vcpu_states, idling, goto, stored,
                    entered, preds>>

(* The rest of inst(): the predecessor is stored and curr_pc moves. *)
InstSet(v) ==
  /\ at[v].step = "set" /\ at[v].n > 1
  /\ insts' = [insts EXCEPT ![At(v)].prev_real_pc = curr_pc[v]]
  /\ Advance(v)
  /\ ran' = [ran EXCEPT ![v] = At(v)]
  /\ Step(v, "body")
  /\ UNCHANGED <<ready, size, real_pc, edges, fadd_real_pc, ints, vcpu_states,
                 idling, goto, stored, entered, preds>>

(* QEMU: the next instruction of the block, or the end of it. *)
NextInst(v) ==
  /\ at[v].step = "body"
  /\ at' = [at EXCEPT ![v] = IF at[v].n < Length[at[v].block]
                             THEN [step |-> "call", block |-> @.block, n |-> @.n + 1]
                             ELSE Out]
  /\ UNCHANGED <<ready, size, real_pc, curr_pc, insts, edges, fadd_real_pc, ints,
                 vcpu_states, idling, goto, history>>

(* vcpus::discon: an interrupt between blocks or an exception inside one    *)
(* sends the vCPU to the block at to.                                      *)
Discon(v, to) ==
  /\ v \in ready /\ at[v].step \in {"out", "body"} /\ ~idling[v]
  /\ Len(ints[v]) < MaxInts[v]
  /\ fadd_real_pc' = [fadd_real_pc EXCEPT ![v] = TRUE]
  /\ ints' = [ints EXCEPT ![v] = Append(@, [dst |-> to, dst_real |-> 0])]
  /\ at' = [at EXCEPT ![v] = Out]
  /\ goto' = [goto EXCEPT ![v] = to]
  /\ UNCHANGED <<ready, size, real_pc, curr_pc, insts, edges, vcpu_states, idling, history>>

(* vcpus::idle and vcpus::resume capture curr_pc and forget it. *)
Capture(v, k) ==
  /\ Len(vcpu_states[v]) < MaxStates[v]
  /\ vcpu_states' = [vcpu_states EXCEPT ![v] = Append(@, [k |-> k, recent |-> curr_pc[v]])]
  /\ Forget(v)
  /\ ran' = [ran EXCEPT ![v] = None]
  /\ UNCHANGED <<stored, entered, preds>>

Idle(v) ==
  /\ v \in ready /\ at[v].step = "out" /\ ~idling[v]
  /\ Capture(v, "PAUSED")
  /\ idling' = [idling EXCEPT ![v] = TRUE]
  /\ UNCHANGED <<ready, size, real_pc, insts, edges, fadd_real_pc, ints, at, goto>>

Resume(v) ==
  /\ idling[v]
  /\ Capture(v, "RESUME")
  /\ idling' = [idling EXCEPT ![v] = FALSE]
  /\ UNCHANGED <<ready, size, real_pc, insts, edges, fadd_real_pc, ints, at, goto>>

(* tb_flush, when no vCPU is inside a block: the interrupts and captures are *)
(* written out and cleared.                                                *)
TbFlush ==
  /\ \A v \in VCPU : at[v].step = "out"
  /\ ints' = [v \in VCPU |-> <<>>]
  /\ vcpu_states' = [v \in VCPU |-> <<>>]
  /\ UNCHANGED <<ready, size, real_pc, curr_pc, insts, edges, fadd_real_pc, at,
                 idling, goto, history>>

ExecVcpu(v) ==
  \/ VcpuInit(v) \/ \E b \in Block : Enter(v, b)
  \/ FindNew(v) \/ MarkValid(v) \/ Number(v) \/ FirstAgain(v) \/ InstAgain(v)
  \/ FirstSet(v) \/ InstSet(v) \/ NextInst(v)
  \/ \E b \in RunsBlock[v] : Discon(v, start[b])
  \/ Idle(v) \/ Resume(v)

ExecNext == (\E v \in VCPU : ExecVcpu(v)) \/ TbFlush

ExecSpec == ExecInit /\ [][ExecNext]_execVars

-----------------------------------------------------------------------------
(* Type invariant. *)
ExecTypeOK ==
  /\ ready \subseteq VCPU
  /\ size \in 0 .. NumVcpu
  /\ real_pc \in [VCPU -> 0 .. MaxRealPc]
  /\ curr_pc \in [VCPU -> Nat \cup {None}]
  /\ insts \in [Inst -> [fvalid : BOOLEAN, fvalid_prev_real_pc : BOOLEAN,
                         real_pc : Nat, prev_real_pc : Nat]]
  /\ edges \in [VCPU -> SUBSET [dst : Nat, src : Nat]]
  /\ fadd_real_pc \in [VCPU -> BOOLEAN]
  /\ ints \in [VCPU -> Seq([dst : Pc, dst_real : Nat])]
  /\ vcpu_states \in [VCPU -> Seq([k : {"PAUSED", "RESUME"}, recent : Nat \cup {None}])]
  /\ at \in [VCPU -> [step : {"out", "call", "mark", "number", "set", "body"},
                      block : Block \cup {None}, n : Nat]]
  /\ idling \in [VCPU -> BOOLEAN]
  /\ goto \in [VCPU -> Pc \cup {None}]
  /\ stored \subseteq Inst
  /\ ran \in [VCPU -> Inst \cup {None}]
  /\ entered \in [Inst -> SUBSET (Inst \cup {None})]
  /\ preds \in [Inst -> SUBSET (Inst \cup {None})]

(* No two instructions get the same real PC, whichever vCPUs number them,   *)
(* provided the per-vCPU vectors have their final size from the start.      *)
RealPcsUnique ==
  \A i, j \in stored : insts[i].real_pc = insts[j].real_pc => i = j

(* inst() dereferences curr_pc without a test: idle and resume, which clear *)
(* it, never leave it empty where a non-first instruction runs.             *)
PrevIsSet ==
  \A v \in VCPU : at[v].step \in {"call", "mark", "number", "set"} /\ at[v].n > 1
                  => curr_pc[v] # None

RealOf(p) == IF p = None THEN 0 ELSE insts[p].real_pc

(* Every edge logged is one that really ran: its destination is the real PC *)
(* of an instruction, and its source ran right before it on that vCPU, or is *)
(* 0 after an idle. Needs each block to run on one vCPU only.               *)
EdgesHappened ==
  \A v \in VCPU : \A e \in edges[v] :
    \E i \in stored : insts[i].real_pc = e.dst
                       /\ \E p \in preds[i] : e.src = RealOf(p)

(* What was recorded as running before an instruction: the edges and the    *)
(* record's own field.                                                     *)
Recorded(i) == {insts[i].prev_real_pc} \cup
               {e.src : e \in {f \in UNION {edges[v] : v \in VCPU} : f.dst = insts[i].real_pc}}

(* Every way a block's first instruction was reached again is recorded.     *)
ReentryRecorded == \A b \in Block : \A p \in preds[<<b, 1>>] : RealOf(p) \in Recorded(<<b, 1>>)

(* An interrupt's real destination, once set, is the real PC of an           *)
(* instruction at the interrupt's target; and in a handler's body the last   *)
(* interrupt no longer waits.                                               *)
InterruptsResolved ==
  \A v \in VCPU :
    /\ \A n \in DOMAIN ints[v] : ints[v][n].dst_real # 0 =>
         \E b \in Block : start[b] = ints[v][n].dst
                          /\ insts[<<b, 1>>].real_pc = ints[v][n].dst_real
    /\ at[v].step = "body" /\ ints[v] # <<>> => ~fadd_real_pc[v]

(* blocks.hpp:118 promises "previous Real PC of any instruction where the    *)
(* previous real PC set before this was executed is different": also the way *)
(* a block was reached the first time. first() records that nowhere, because *)
(* fvalid_prev_real_pc starts true.                                         *)
FirstEntryRecorded == \A b \in Block : \A p \in entered[<<b, 1>>] : RealOf(p) \in Recorded(<<b, 1>>)

(* defs.hpp:84-86: a pending interrupt's real PC is filled in from the last  *)
(* one when a block executes: there is a last one. tb_flush clears the log   *)
(* but not the flag.                                                       *)
PendingHasInterrupt ==
  \A v \in VCPU : at[v].step = "set" /\ at[v].n = 1 /\ fadd_real_pc[v] => ints[v] # <<>>

(* defs.hpp:38: curr_pc is the "Curr real PC" of a vCPU, the number of the    *)
(* instruction it ran. first() and inst() mark a record valid before they      *)
(* number it, so another vCPU in the same block takes the number that was      *)
(* there before.                                                           *)
CurrPcRan ==
  \A v \in VCPU : at[v].step = "body" => curr_pc[v] = insts[ran[v]].real_pc

(* defs.hpp:29 gives each vCPU "there own vector to prevent race conditions":  *)
(* the vectors never move under a vCPU that is inside a callback. init grows   *)
(* them under tbmutex, which the callbacks do not take.                      *)
InCallback(v) == at[v].step \in {"mark", "number", "set"}
VectorsStay == [][\A v \in VCPU : InCallback(v) => size' = size]_execVars
=============================================================================
