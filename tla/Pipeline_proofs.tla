--------------------------- MODULE Pipeline_proofs ---------------------------
(***************************************************************************)
(* Proofs about Exec, Plugin and Pipeline, for every number of vCPUs and      *)
(* every finite set of blocks, whichever vCPUs share them and however often   *)
(* tb_flush comes.                                                          *)
(*                                                                         *)
(* Exec: numbers are unique, and inst() finds its curr_pc set. What the       *)
(* records say of the guest's control flow needs that no vCPU runs an         *)
(* instruction that another one is still numbering.                         *)
(*                                                                         *)
(* Plugin: what Translation_proofs shows of the block store and the first     *)
(* part of this module of the records is used, not shown again.              *)
(*                                                                         *)
(* Pipeline: the run is the plugin's and the analysis is Analysis', so that   *)
(* what is proved of both meets where the files are loaded.                  *)
(***************************************************************************)
EXTENDS Pipeline, SequenceTheorems, FiniteSetTheorems, TLAPS

USE DEF Step

(* The parts of the inductive invariant. Where each vCPU is; what types the  *)
(* cells have that first() and inst() write; that curr_pc is set from a       *)
(* block's first instruction to its end; that once a vCPU may run, the        *)
(* vectors have their final size; and that each number given is the k-th of   *)
(* one vCPU's series, for a k it has counted past.                          *)
Steps == {"out", "call", "mark", "number", "set", "body"}
Record == [fvalid : BOOLEAN, fvalid_prev_real_pc : BOOLEAN, real_pc : Nat, prev_real_pc : Nat]

PlaceInv ==
  /\ at \in [VCPU -> [step : Steps, block : Block \cup {None}, n : Nat]]
  /\ \A v \in VCPU : at[v].step # "out" =>
       at[v].block \in Block /\ at[v].n \in 1 .. Length[at[v].block]
  /\ idling \in [VCPU -> BOOLEAN]
  /\ \A v \in VCPU : idling[v] => at[v].step = "out"
CellInv ==
  /\ real_pc \in [VCPU -> Nat]
  /\ curr_pc \in [VCPU -> Nat \cup {None}]
  /\ insts \in [Inst -> Record]
  /\ stored \subseteq Inst
CurrInv ==
  \A v \in VCPU :
    at[v].step = "body" \/ (at[v].step # "out" /\ at[v].n > 1) => curr_pc[v] # None
SizeInv ==
  /\ ready \subseteq VCPU
  /\ size \in 0 .. NumVcpu
  /\ \A v \in ready : v < size
  /\ InitFirst => \A v \in VCPU : at[v].step # "out" => ready = VCPU
NumberInv ==
  \A i \in stored : \E v \in VCPU, k \in Nat :
    k < real_pc[v] /\ insts[i].real_pc = k * NumVcpu + v

RecordInv == PlaceInv /\ CellInv /\ CurrInv /\ SizeInv
NumberedInv == NumberInv /\ RealPcsUnique

-----------------------------------------------------------------------------
LEMMA AtInst ==
  ASSUME PlaceInv, NEW v \in VCPU, at[v].step # "out"
  PROVE  At(v) \in Inst
<1>1. at[v].block \in Block /\ at[v].n \in 1 .. Length[at[v].block]
  BY DEF PlaceInv
<1>. QED
  BY <1>1 DEF Inst, At

-----------------------------------------------------------------------------
(* Each vCPU stays inside its block until it leaves it. *)
LEMMA PlaceStep ==
  ASSUME RecordInv, NEW v \in VCPU, ExecVcpu(v)
  PROVE  PlaceInv'
<1> USE DEF RecordInv, PlaceInv
<1>1. CASE UNCHANGED <<at, idling>>
  BY <1>1
<1>2. ASSUME NEW s \in Steps \ {"out"}, Step(v, s), at[v].step # "out", UNCHANGED idling
      PROVE  PlaceInv'
  BY <1>2
<1>3. ASSUME NEW b \in Block, Enter(v, b) PROVE PlaceInv'
  <2>1. Length[b] \in Nat \ {0}
    BY ExecAssumption
  <2>2. /\ at' = [at EXCEPT ![v] = [step |-> "call", block |-> b, n |-> 1]]
        /\ ~idling[v] /\ UNCHANGED idling
    BY <1>3 DEF Enter
  <2>. QED
    BY <2>1, <2>2 DEF Steps
<1>4. CASE at' = [at EXCEPT ![v] = Out] /\ UNCHANGED idling
  BY <1>4 DEF Out, Steps
<1>5. CASE NextInst(v)
  <2>0. at' = [at EXCEPT ![v] = IF at[v].n < Length[at[v].block]
                                THEN [step |-> "call", block |-> at[v].block, n |-> at[v].n + 1]
                                ELSE Out]
    BY <1>5 DEF NextInst
  <2>1. CASE at[v].n < Length[at[v].block]
    <3> DEFINE r == [step |-> "call", block |-> at[v].block, n |-> at[v].n + 1]
    <3>1. at' = [at EXCEPT ![v] = r] /\ ~idling[v] /\ UNCHANGED idling
      BY <1>5, <2>0, <2>1 DEF NextInst
    <3>2. /\ at[v] \in [step : Steps, block : Block \cup {None}, n : Nat]
          /\ at[v].block \in Block /\ at[v].n \in 1 .. Length[at[v].block]
          /\ Length[at[v].block] \in Nat
      BY <1>5, ExecAssumption DEF NextInst
    <3>3. /\ r \in [step : Steps, block : Block \cup {None}, n : Nat]
          /\ r.block = at[v].block /\ r.n = at[v].n + 1
      BY <3>2 DEF Steps
    <3>4. r.n \in 1 .. Length[r.block]
      BY <2>1, <3>2, <3>3
    <3> HIDE DEF r
    <3>. QED
      BY <3>1, <3>2, <3>3, <3>4
  <2>2. CASE ~(at[v].n < Length[at[v].block])
    BY <1>4, <1>5, <2>0, <2>2 DEF NextInst
  <2>. QED
    BY <2>1, <2>2
<1>6. CASE FindNew(v) \/ MarkValid(v) \/ Number(v) \/ FirstAgain(v) \/ InstAgain(v)
           \/ FirstSet(v) \/ InstSet(v)
  BY <1>2, <1>6 DEF FindNew, MarkValid, Number, FirstAgain, InstAgain, FirstSet, InstSet, Steps
<1>7. CASE VcpuInit(v)
  BY <1>1, <1>7 DEF VcpuInit
<1>9. CASE Idle(v) \/ Resume(v)
  <2>1. at[v].step = "out" /\ at' = at /\ \E x \in BOOLEAN : idling' = [idling EXCEPT ![v] = x]
    BY <1>9 DEF Idle, Resume
  <2>. QED
    BY <2>1
<1>8. CASE \E b \in RunsBlock[v] : Discon(v, start[b])
  BY <1>4, <1>8 DEF Discon
<1>. QED
  BY <1>3, <1>5, <1>6, <1>7, <1>8, <1>9 DEF ExecVcpu

(* The callbacks store numbers in the cells. *)
LEMMA CellStep ==
  ASSUME RecordInv, NEW v \in VCPU, ExecVcpu(v)
  PROVE  CellInv'
<1> USE DEF RecordInv, CellInv
<1>1. CASE UNCHANGED <<real_pc, curr_pc, insts, stored>>
  BY <1>1
<1>2. CASE VcpuInit(v) \/ (\E b \in Block : Enter(v, b)) \/ FindNew(v) \/ FirstAgain(v)
           \/ InstAgain(v) \/ NextInst(v) \/ \E b \in RunsBlock[v] : Discon(v, start[b])
  BY <1>1, <1>2 DEF VcpuInit, Enter, FindNew, FirstAgain, InstAgain, NextInst, Discon, history
<1>3. CASE MarkValid(v)
  <2>1. At(v) \in Inst
    BY <1>3, AtInst DEF MarkValid
  <2>2. insts' = [insts EXCEPT ![At(v)].fvalid = TRUE] /\ UNCHANGED <<real_pc, curr_pc, stored>>
    BY <1>3 DEF MarkValid
  <2>. QED
    BY <2>1, <2>2 DEF Record
<1>4. CASE Number(v)
  <2>1. At(v) \in Inst
    BY <1>4, AtInst DEF Number
  <2>2. RealAddress(v) \in Nat
    <3>1. real_pc[v] \in Nat /\ size \in Nat /\ v \in Nat
      BY ExecAssumption DEF SizeInv, VCPU
    <3>. QED
      BY <3>1, SMT DEF RealAddress
  <2>3. /\ insts' = [insts EXCEPT ![At(v)].real_pc = RealAddress(v)]
        /\ real_pc' = [real_pc EXCEPT ![v] = @ + 1]
        /\ stored' = stored \cup {At(v)}
        /\ UNCHANGED curr_pc
    BY <1>4 DEF Number
  <2>. QED
    BY <2>1, <2>2, <2>3 DEF Record
<1>5. CASE FirstSet(v) \/ InstSet(v)
  <2>1. At(v) \in Inst
    BY <1>5, AtInst DEF FirstSet, InstSet
  <2>2. /\ curr_pc' = [curr_pc EXCEPT ![v] = insts[At(v)].real_pc]
        /\ UNCHANGED <<real_pc, stored>>
    BY <1>5 DEF FirstSet, InstSet, Advance
  <2>3. insts' \in [Inst -> Record]
    <3>1. CASE FirstSet(v)
      <4>1. \/ insts' = insts
            \/ /\ insts' = [insts EXCEPT ![At(v)].prev_real_pc = curr_pc[v],
                                         ![At(v)].fvalid_prev_real_pc = TRUE]
               /\ curr_pc[v] # None
        BY <3>1 DEF FirstSet
      <4>. QED
        BY <2>1, <4>1 DEF Record
    <3>2. CASE InstSet(v)
      <4>1. insts' = [insts EXCEPT ![At(v)].prev_real_pc = curr_pc[v]] /\ curr_pc[v] # None
        BY <3>2 DEF InstSet, CurrInv
      <4>. QED
        BY <2>1, <4>1 DEF Record
    <3>. QED
      BY <1>5, <3>1, <3>2
  <2>4. insts[At(v)].real_pc \in Nat
    BY <2>1 DEF Record
  <2>. QED
    BY <2>2, <2>3, <2>4
<1>6. CASE Idle(v) \/ Resume(v)
  <2>1. curr_pc' = [curr_pc EXCEPT ![v] = None] /\ UNCHANGED <<real_pc, insts, stored>>
    BY <1>6 DEF Idle, Resume, Capture, Forget
  <2>. QED
    BY <2>1
<1>. QED
  BY <1>2, <1>3, <1>4, <1>5, <1>6 DEF ExecVcpu

(* inst() needs curr_pc, and nothing empties it between a block's first       *)
(* instruction and its last: idle and resume come only between blocks.       *)
LEMMA CurrStep ==
  ASSUME RecordInv, NEW v \in VCPU, ExecVcpu(v)
  PROVE  CurrInv'
<1> USE DEF RecordInv, CurrInv
<1>0. PlaceInv'
  BY PlaceStep
<1>1. ASSUME NEW w \in VCPU, w # v PROVE at'[w] = at[w] /\ curr_pc'[w] = curr_pc[w]
  <2>1. (at' = at \/ \E x : at' = [at EXCEPT ![v] = x])
        /\ (curr_pc' = curr_pc \/ \E x : curr_pc' = [curr_pc EXCEPT ![v] = x])
    BY DEF ExecVcpu, VcpuInit, Enter, FindNew, MarkValid, Number, FirstAgain, InstAgain,
           FirstSet, InstSet, NextInst, Discon, Idle, Resume, Capture, Forget, Advance
  <2>. QED
    BY <1>1, <2>1 DEF PlaceInv, CellInv
<1> SUFFICES ASSUME at'[v].step = "body" \/ (at'[v].step # "out" /\ at'[v].n > 1)
             PROVE  curr_pc'[v] # None
  BY <1>1
<1> USE DEF PlaceInv
<1>2. CASE UNCHANGED <<at, curr_pc>>
  BY <1>2
<1>3. ASSUME NEW b \in Block, Enter(v, b) PROVE FALSE
  BY <1>3 DEF Enter
<1>4. CASE FindNew(v) \/ MarkValid(v) \/ Number(v) \/ FirstAgain(v) \/ InstAgain(v)
  <2>1. /\ at[v].step # "out" /\ at'[v].n = at[v].n /\ at'[v].step # "body"
        /\ UNCHANGED curr_pc
    BY <1>4 DEF FindNew, MarkValid, Number, FirstAgain, InstAgain
  <2>. QED
    BY <2>1
<1>5. CASE FirstSet(v) \/ InstSet(v)
  <2>1. At(v) \in Inst
    BY <1>5, AtInst DEF FirstSet, InstSet
  <2>2. curr_pc'[v] = insts[At(v)].real_pc
    BY <1>5 DEF FirstSet, InstSet, Advance, CellInv
  <2>. QED
    BY <2>1, <2>2, ExecAssumption DEF CellInv, Record
<1>6. CASE NextInst(v)
  <2>1. at[v].step = "body" /\ UNCHANGED curr_pc
    BY <1>6 DEF NextInst
  <2>. QED
    BY <2>1
<1>7. ASSUME NEW b \in RunsBlock[v], Discon(v, start[b]) PROVE FALSE
  BY <1>7 DEF Discon, Out
<1>8. CASE Idle(v) \/ Resume(v)
  BY <1>8 DEF Idle, Resume
<1>. QED
  BY <1>2, <1>3, <1>4, <1>5, <1>6, <1>7, <1>8 DEF ExecVcpu, VcpuInit

(* Once a vCPU may run, the vectors have their final size. *)
LEMMA SizeStep ==
  ASSUME RecordInv, NEW v \in VCPU, ExecVcpu(v)
  PROVE  SizeInv'
<1> USE DEF RecordInv, SizeInv, PlaceInv
<1>1. CASE VcpuInit(v)
  <2>1. size \in Nat /\ v \in Nat /\ v < NumVcpu /\ NumVcpu \in Nat
    BY ExecAssumption DEF VCPU
  <2>2. ready' = ready \cup {v} /\ size' = IF size <= v THEN v + 1 ELSE size
    BY <1>1 DEF VcpuInit
  <2>3. v \notin ready /\ at' = at
    BY <1>1 DEF VcpuInit
  <2>4. size' \in 0 .. NumVcpu /\ \A w \in ready' : w < size'
    <3>1. size' \in Nat /\ size' >= size /\ v < size' /\ size' <= NumVcpu
      BY <2>1, <2>2
    <3>2. \A w \in ready : w \in Int /\ w < size
      BY DEF VCPU
    <3>. QED
      BY <2>1, <2>2, <3>1, <3>2
  <2>. QED
    BY <2>2, <2>3, <2>4
<1>2. ASSUME NEW b \in Block, Enter(v, b) PROVE SizeInv'
  <2>1. UNCHANGED <<ready, size>> /\ (InitFirst => ready = VCPU)
    BY <1>2 DEF Enter
  <2>. QED
    BY <2>1
<1>3. ASSUME UNCHANGED <<ready, size>>, \A w \in VCPU : at'[w].step # "out" => at[w].step # "out"
      PROVE  SizeInv'
  BY <1>3
<1>4. CASE FindNew(v) \/ MarkValid(v) \/ Number(v) \/ FirstAgain(v) \/ InstAgain(v)
           \/ FirstSet(v) \/ InstSet(v) \/ NextInst(v) \/ Idle(v) \/ Resume(v)
           \/ \E b \in RunsBlock[v] : Discon(v, start[b])
  <2>1. /\ UNCHANGED <<ready, size>>
        /\ \/ at' = at
           \/ at[v].step # "out" /\ \E x : at' = [at EXCEPT ![v] = x]
           \/ at' = [at EXCEPT ![v] = Out]
    BY <1>4 DEF FindNew, MarkValid, Number, FirstAgain, InstAgain, FirstSet, InstSet,
                NextInst, Discon, Idle, Resume
  <2>. QED
    BY <1>3, <2>1 DEF Out
<1>. QED
  BY <1>1, <1>2, <1>4 DEF ExecVcpu

(* tb_flush touches none of this. *)
LEMMA FlushStep ==
  ASSUME RecordInv, TbFlush \/ UNCHANGED execVars
  PROVE  RecordInv'
<1>1. UNCHANGED <<ready, size, real_pc, curr_pc, insts, at, idling, stored>>
  BY DEF TbFlush, execVars, history
<1>. QED
  BY <1>1 DEF RecordInv, PlaceInv, CellInv, CurrInv, SizeInv

LEMMA RecordStep == RecordInv /\ [ExecNext]_execVars => RecordInv'
  BY PlaceStep, CellStep, CurrStep, SizeStep, FlushStep DEF RecordInv, ExecNext

LEMMA RecordInit == ExecInit => RecordInv
<1> SUFFICES ASSUME ExecInit PROVE RecordInv
  OBVIOUS
<1>1. PlaceInv
  BY DEF ExecInit, PlaceInv, Out, Steps
<1>2. CellInv
  BY DEF ExecInit, CellInv, Record, FreshInst
<1>3. CurrInv
  BY DEF ExecInit, CurrInv, Out
<1>4. SizeInv
  BY ExecAssumption DEF ExecInit, SizeInv, Out
<1>. QED
  BY <1>1, <1>2, <1>3, <1>4 DEF RecordInv

-----------------------------------------------------------------------------
(* inst() never dereferences an empty curr_pc: for every number of vCPUs and  *)
(* every set of blocks, shared or not, through interrupts, idles and flushes. *)
THEOREM CurrPcIsSet == ExecSpec => []PrevIsSet
<1>1. RecordInv => PrevIsSet
  BY DEF RecordInv, CurrInv, PrevIsSet
<1>. QED
  BY <1>1, RecordInit, RecordStep, PTL DEF ExecSpec

-----------------------------------------------------------------------------
(* Numbers. A multiple that is larger is larger by the stride at least. *)
LEMMA Stride == ASSUME NEW N \in Nat, NEW d \in Nat, d >= 1 PROVE d * N >= N
  BY SMT

LEMMA LaterIsLarger ==
  ASSUME NEW N \in Nat, NEW v \in 0 .. N - 1, NEW w \in 0 .. N - 1,
         NEW k \in Nat, NEW l \in Nat, k < l
  PROVE  k * N + v < l * N + w
<1>1. (l - k) * N >= N
  BY Stride
<1>2. l * N = k * N + (l - k) * N
  BY SMT
<1>. QED
  BY <1>1, <1>2, SMT

(* Two vCPUs never give the same number, and one never gives it twice. *)
LEMMA NumbersDiffer ==
  ASSUME NEW v \in VCPU, NEW w \in VCPU, NEW k \in Nat, NEW l \in Nat,
         k * NumVcpu + v = l * NumVcpu + w
  PROVE  v = w /\ k = l
<1>1. NumVcpu \in Nat /\ v \in 0 .. NumVcpu - 1 /\ w \in 0 .. NumVcpu - 1
  BY ExecAssumption DEF VCPU
<1>2. ~(k < l) /\ ~(l < k)
  <2>1. k * NumVcpu + v \in Int /\ l * NumVcpu + w \in Int
    BY <1>1, SMT
  <2>. QED
    BY <1>1, <2>1, LaterIsLarger
<1>3. k = l
  BY <1>2
<1>. QED
  BY <1>1, <1>3, SMT

(* What get_real_address gives: the next of the vCPU's series, with the final *)
(* stride.                                                                 *)
LEMMA NextNumber ==
  ASSUME InitFirst, RecordInv, NEW v \in VCPU, at[v].step # "out"
  PROVE  RealAddress(v) = real_pc[v] * NumVcpu + v
<1>1. ready = VCPU /\ size \in 0 .. NumVcpu /\ NumVcpu \in Nat \ {0}
  BY ExecAssumption DEF RecordInv, SizeInv
<1>2. NumVcpu - 1 < size
  BY <1>1 DEF RecordInv, SizeInv, VCPU
<1>3. size = NumVcpu
  BY <1>1, <1>2
<1>. QED
  BY <1>3 DEF RealAddress

LEMMA NumberStep ==
  ASSUME InitFirst, RecordInv, NumberedInv, NEW v \in VCPU, Number(v)
  PROVE  NumberedInv'
<1> DEFINE i == At(v)
<1>1. /\ insts' = [insts EXCEPT ![i].real_pc = RealAddress(v)]
      /\ real_pc' = [real_pc EXCEPT ![v] = real_pc[v] + 1]
      /\ stored' = stored \cup {i} /\ at[v].step # "out"
  BY DEF Number
<1>2. i \in Inst /\ real_pc[v] \in Nat /\ insts \in [Inst -> Record]
      /\ stored \subseteq Inst /\ real_pc \in [VCPU -> Nat]
  BY <1>1, AtInst DEF RecordInv, CellInv
<1>3. insts'[i].real_pc = real_pc[v] * NumVcpu + v
  BY <1>1, <1>2, NextNumber DEF Record
<1>4. \A j \in Inst \ {i} : insts'[j] = insts[j]
  BY <1>1, <1>2
<1>5. real_pc'[v] = real_pc[v] + 1 /\ \A w \in VCPU : real_pc[w] <= real_pc'[w]
  BY <1>1, <1>2
<1> HIDE DEF i
<1>6. NumberInv'
  <2> SUFFICES ASSUME NEW j \in stored'
               PROVE  \E w \in VCPU, k \in Nat :
                        k < real_pc'[w] /\ insts'[j].real_pc = k * NumVcpu + w
    BY DEF NumberInv
  <2>1. CASE j = i
    BY <1>2, <1>3, <1>5, <2>1
  <2>2. CASE j # i
    <3>1. j \in stored /\ insts'[j] = insts[j]
      BY <1>1, <1>2, <1>4, <2>2
    <3>2. PICK w \in VCPU, k \in Nat : k < real_pc[w] /\ insts[j].real_pc = k * NumVcpu + w
      BY <3>1 DEF NumberedInv, NumberInv
    <3>3. k < real_pc'[w]
      <4>1. real_pc[w] \in Nat /\ real_pc'[w] \in Nat /\ real_pc[w] <= real_pc'[w]
        BY <1>1, <1>2, <1>5
      <4>. QED
        BY <3>2, <4>1
    <3>. QED
      BY <3>1, <3>2, <3>3
  <2>. QED
    BY <2>1, <2>2
<1>7. ASSUME NEW j \in stored, j # i PROVE insts'[j].real_pc # insts'[i].real_pc
  <2>1. PICK w \in VCPU, k \in Nat : k < real_pc[w] /\ insts[j].real_pc = k * NumVcpu + w
    BY DEF NumberedInv, NumberInv
  <2>2. insts'[j] = insts[j]
    BY <1>2, <1>4, <1>7
  <2>3. ~(w = v /\ k = real_pc[v])
    BY <1>2, <2>1
  <2>4. k * NumVcpu + w # real_pc[v] * NumVcpu + v
    BY <1>2, <2>3, NumbersDiffer
  <2>. QED
    BY <1>3, <2>1, <2>2, <2>4
<1>8. RealPcsUnique'
  BY <1>1, <1>2, <1>4, <1>7 DEF RealPcsUnique, NumberedInv
<1>. QED
  BY <1>6, <1>8 DEF NumberedInv

LEMMA NumberedStep ==
  ASSUME InitFirst, RecordInv, NumberedInv, [ExecNext]_execVars
  PROVE  NumberedInv'
<1>1. ASSUME UNCHANGED <<real_pc, stored>>, \A i \in Inst : insts'[i].real_pc = insts[i].real_pc
      PROVE  NumberedInv'
  <2>1. stored \subseteq Inst
    BY DEF RecordInv, CellInv
  <2>. QED
    BY <1>1, <2>1 DEF NumberedInv, NumberInv, RealPcsUnique
<1>2. ASSUME NEW v \in VCPU, ExecVcpu(v), ~Number(v) PROVE NumberedInv'
  <2>1. UNCHANGED <<real_pc, stored>>
    BY <1>2 DEF ExecVcpu, VcpuInit, Enter, FindNew, MarkValid, FirstAgain, InstAgain,
           FirstSet, InstSet, NextInst, Discon, Idle, Resume, Capture, history
  <2>2. \/ insts' = insts
        \/ /\ at[v].step # "out"
           /\ \/ insts' = [insts EXCEPT ![At(v)].fvalid = TRUE]
              \/ insts' = [insts EXCEPT ![At(v)].prev_real_pc = curr_pc[v]]
              \/ insts' = [insts EXCEPT ![At(v)].prev_real_pc = curr_pc[v],
                                        ![At(v)].fvalid_prev_real_pc = TRUE]
    BY <1>2 DEF ExecVcpu, VcpuInit, Enter, FindNew, MarkValid, FirstAgain, InstAgain,
           FirstSet, InstSet, NextInst, Discon, Idle, Resume, Capture
  <2>3. insts \in [Inst -> Record]
    BY DEF RecordInv, CellInv
  <2>4. \A i \in Inst : insts'[i].real_pc = insts[i].real_pc
    BY <2>2, <2>3 DEF Record
  <2>. QED
    BY <1>1, <2>1, <2>4
<1>3. CASE TbFlush \/ UNCHANGED execVars
  BY <1>1, <1>3 DEF TbFlush, execVars, history
<1>. QED
  BY <1>2, <1>3, NumberStep DEF ExecNext

(* get_real_address never gives two instructions the same number, for every   *)
(* number of vCPUs and every set of blocks, shared or not, if all vCPUs are    *)
(* initialised before the first of them runs.                               *)
THEOREM NumbersAreUnique ==
  ASSUME InitFirst
  PROVE  ExecSpec => []RealPcsUnique
<1>1. ExecInit => RecordInv /\ NumberedInv
  BY RecordInit DEF ExecInit, NumberedInv, NumberInv, RealPcsUnique
<1>2. RecordInv /\ NumberedInv /\ [ExecNext]_execVars => RecordInv' /\ NumberedInv'
  BY RecordStep, NumberedStep
<1>3. NumberedInv => RealPcsUnique
  BY DEF NumberedInv
<1>. QED
  BY <1>1, <1>2, <1>3, PTL DEF ExecSpec

-----------------------------------------------------------------------------
(* What is recorded about instructions once they are numbered. A record is   *)
(* marked valid before it has its number, so all this needs that no vCPU is   *)
(* in an instruction that another one is still numbering: hypothesis          *)
(* RaceFree, which holds when each block runs on one vCPU only.              *)
Numbering(v) == at[v].step \in {"mark", "number"}
RaceFree ==
  \A v, w \in VCPU : v # w /\ Numbering(v) /\ at[w].step \notin {"out", "call"} => At(v) # At(w)

BlocksPrivate == \A v, w \in VCPU : v # w => RunsBlock[v] \cap RunsBlock[w] = {}

(* An instruction has its number from the time its first run gets one, and    *)
(* only instructions on their way to it are valid without one.              *)
NumberedOnce ==
  /\ \A v \in VCPU : at[v].step \in {"set", "body"} => At(v) \in stored
  /\ \A v \in VCPU : Numbering(v) => At(v) \notin stored
  /\ \A i \in Inst : insts[i].fvalid =>
       i \in stored \/ \E v \in VCPU : at[v].step = "number" /\ At(v) = i
  /\ \A i \in stored : insts[i].fvalid
  /\ \A v \in VCPU : at[v].step = "number" => insts[At(v)].fvalid

(* The predecessor of a block's first instruction is never filled in.        *)
EntryUntouched ==
  \A b \in Block : insts[<<b, 1>>].fvalid_prev_real_pc /\ insts[<<b, 1>>].prev_real_pc = 0

(* curr_pc is the number of the instruction that ran last. *)
RanInv ==
  /\ ran \in [VCPU -> stored \cup {None}]
  /\ \A v \in VCPU : curr_pc[v] = IF ran[v] = None THEN None ELSE insts[ran[v]].real_pc

(* Every edge has its two ends among the numbered instructions, ... *)
EdgeEnds ==
  /\ edges \in [VCPU -> SUBSET [dst : Nat, src : Nat]]
  /\ preds \in [Inst -> SUBSET (stored \cup {None})]
  /\ \A i \in Inst : preds[i] # {} => i \in stored
  /\ \A v \in VCPU : \A e \in edges[v] :
       \E i \in stored : insts[i].real_pc = e.dst /\ \E p \in preds[i] : e.src = RealOf(p)
RecordedInv == NumberedOnce /\ EntryUntouched /\ RanInv /\ EdgeEnds /\ ReentryRecorded

(* ... an interrupt is pending until the block it went to sets its number,     *)
(* and keeps it.                                                           *)
IntEntry == [dst : Pc, dst_real : Nat]
Waits(v) == fadd_real_pc[v] /\ ints[v] # <<>>
PendingInv ==
  /\ fadd_real_pc \in [VCPU -> BOOLEAN]
  /\ ints \in [VCPU -> Seq(IntEntry)]
  /\ goto \in [VCPU -> Pc \cup {None}]
  /\ \A v \in VCPU : Waits(v) =>
       \/ at[v].step = "out" /\ goto[v] = ints[v][Len(ints[v])].dst
       \/ /\ at[v].step \in {"call", "mark", "number", "set"} /\ at[v].n = 1
          /\ start[at[v].block] = ints[v][Len(ints[v])].dst
ResolvedInv ==
  \A v \in VCPU : \A n \in DOMAIN ints[v] : ints[v][n].dst_real # 0 =>
    \E b \in Block : /\ start[b] = ints[v][n].dst
                     /\ <<b, 1>> \in stored
                     /\ insts[<<b, 1>>].real_pc = ints[v][n].dst_real

(* A step of a vCPU moves that vCPU only, and writes only the record it is at. *)
LEMMA OthersStay ==
  ASSUME RecordInv, NEW v \in VCPU, ExecVcpu(v), NEW w \in VCPU, w # v
  PROVE  at'[w] = at[w] /\ At(w)' = At(w)
<1>1. at' = at \/ \E x : at' = [at EXCEPT ![v] = x]
  BY DEF ExecVcpu, VcpuInit, Enter, FindNew, MarkValid, Number, FirstAgain, InstAgain,
         FirstSet, InstSet, NextInst, Discon, Idle, Resume
<1>. QED
  BY <1>1 DEF RecordInv, PlaceInv, At

LEMMA RecordMoves ==
  ASSUME RecordInv, NEW v \in VCPU, ExecVcpu(v), NEW i \in Inst
  PROVE  /\ insts'[i].real_pc = insts[i].real_pc \/ (Number(v) /\ i = At(v))
         /\ insts'[i].fvalid = insts[i].fvalid \/ (MarkValid(v) /\ i = At(v))
<1>0. insts \in [Inst -> Record]
  BY DEF RecordInv, CellInv
<1>1. CASE insts' = insts
  BY <1>1
<1>2. CASE MarkValid(v)
  BY <1>0, <1>2 DEF MarkValid, Record
<1>3. CASE Number(v)
  BY <1>0, <1>3 DEF Number, Record
<1>4. CASE FirstSet(v)
  <2>1. insts' = insts \/ insts' = [insts EXCEPT ![At(v)].prev_real_pc = curr_pc[v],
                                                 ![At(v)].fvalid_prev_real_pc = TRUE]
    BY <1>4 DEF FirstSet
  <2>. QED
    BY <1>0, <2>1 DEF Record
<1>5. CASE InstSet(v)
  BY <1>0, <1>5 DEF InstSet, Record
<1>. QED
  BY <1>1, <1>2, <1>3, <1>4, <1>5
     DEF ExecVcpu, VcpuInit, Enter, FindNew, FirstAgain, InstAgain, NextInst, Discon, Idle, Resume

LEMMA StoredMoves ==
  ASSUME NEW v \in VCPU, ExecVcpu(v)
  PROVE  stored' = stored \/ (Number(v) /\ stored' = stored \cup {At(v)})
  BY DEF ExecVcpu, VcpuInit, Enter, FindNew, MarkValid, Number, FirstAgain, InstAgain,
         FirstSet, InstSet, NextInst, Discon, Idle, Resume, Capture, history

LEMMA NumberedOnceStep ==
  ASSUME RecordInv, NumberedOnce, RaceFree, RaceFree', NEW v \in VCPU, ExecVcpu(v)
  PROVE  NumberedOnce'
<1> USE DEF NumberedOnce, Numbering
<1>0. /\ at \in [VCPU -> [step : Steps, block : Block \cup {None}, n : Nat]]
      /\ stored \subseteq Inst
      /\ \A w \in VCPU : at[w].step # "out" => At(w) \in Inst
  BY AtInst DEF RecordInv, PlaceInv, CellInv
<1>1. ASSUME \A i \in Inst : insts'[i].fvalid = insts[i].fvalid, stored' = stored,
             ~Numbering(v) \/ at' = at, ~Numbering(v)' \/ at' = at,
             at'[v].step \in {"set", "body"} => At(v)' \in stored
      PROVE  NumberedOnce'
  <2>1. \A w \in VCPU : at'[w].step \in {"set", "body"} => At(w)' \in stored'
    BY <1>1, OthersStay
  <2>2. \A w \in VCPU : Numbering(w)' => Numbering(w) /\ At(w)' = At(w) /\ at'[w] = at[w]
    BY <1>1, OthersStay DEF At
  <2>3. \A w \in VCPU : Numbering(w) => at'[w] = at[w] /\ At(w)' = At(w)
    BY <1>1, OthersStay DEF At
  <2>4. \A i \in Inst : insts'[i].fvalid =>
          i \in stored' \/ \E w \in VCPU : at'[w].step = "number" /\ At(w)' = i
    BY <1>1, <2>3
  <2>5. \A w \in VCPU : at'[w].step = "number" => insts'[At(w)'].fvalid
    <3> SUFFICES ASSUME NEW w \in VCPU, at'[w].step = "number" PROVE insts'[At(w)'].fvalid
      OBVIOUS
    <3>1. at[w].step = "number" /\ At(w)' = At(w)
      BY <2>2
    <3>. QED
      BY <1>0, <1>1, <3>1
  <2>. QED
    BY <1>0, <1>1, <2>1, <2>2, <2>4, <2>5
<1>2. CASE FindNew(v)
  <2>1. /\ at[v].step = "call" /\ at'[v].step = "mark" /\ At(v)' = At(v)
        /\ ~insts[At(v)].fvalid /\ UNCHANGED <<insts, stored>>
    BY <1>0, <1>2 DEF FindNew, history, At
  <2>. QED
    BY <2>1, OthersStay
<1>3. CASE MarkValid(v)
  <2>1. /\ at[v].step = "mark" /\ at'[v].step = "number" /\ At(v)' = At(v)
        /\ insts' = [insts EXCEPT ![At(v)].fvalid = TRUE] /\ UNCHANGED stored
    BY <1>0, <1>3 DEF MarkValid, At
  <2>2. insts'[At(v)].fvalid /\ \A i \in Inst \ {At(v)} : insts'[i] = insts[i]
    BY <1>0, <2>1 DEF RecordInv, CellInv, Record
  <2>3. \A i \in Inst : insts'[i].fvalid =>
          i \in stored' \/ \E w \in VCPU : at'[w].step = "number" /\ At(w)' = i
    BY <2>1, <2>2, OthersStay
  <2>4. \A i \in stored' : insts'[i].fvalid
    BY <1>0, <2>1, <2>2
  <2>5. \A w \in VCPU : at'[w].step = "number" => insts'[At(w)'].fvalid
    <3> SUFFICES ASSUME NEW w \in VCPU, w # v, at'[w].step = "number" PROVE insts'[At(w)'].fvalid
      BY <2>1, <2>2
    <3>1. at[w].step = "number" /\ At(w)' = At(w) /\ At(w) \in Inst
      BY <1>0, OthersStay
    <3>. QED
      BY <2>2, <3>1
  <2>. QED
    BY <2>1, <2>3, <2>4, <2>5, OthersStay
<1>4. CASE Number(v)
  <2>1. /\ at[v].step = "number" /\ at'[v].step = "set" /\ At(v)' = At(v)
        /\ stored' = stored \cup {At(v)}
    BY <1>0, <1>4 DEF Number, At
  <2>2. \A i \in Inst : insts'[i].fvalid = insts[i].fvalid
    BY <1>4, RecordMoves DEF Number, MarkValid
  <2>3. \A w \in VCPU : Numbering(w)' => At(w)' \notin stored'
    <3> SUFFICES ASSUME NEW w \in VCPU, Numbering(w)' PROVE At(w)' \notin stored'
      OBVIOUS
    <3>1. w # v
      BY <2>1
    <3>2. Numbering(w) /\ At(w)' = At(w)
      BY <3>1, OthersStay
    <3>3. At(w) # At(v)
      BY <2>1, <3>1, <3>2 DEF RaceFree
    <3>. QED
      BY <2>1, <3>2, <3>3
  <2>4. \A w \in VCPU : at'[w].step \in {"set", "body"} => At(w)' \in stored'
    BY <2>1, OthersStay
  <2>5. \A i \in Inst : insts'[i].fvalid =>
          i \in stored' \/ \E w \in VCPU : at'[w].step = "number" /\ At(w)' = i
    BY <2>1, <2>2, OthersStay
  <2>6. \A i \in stored' : insts'[i].fvalid
    BY <1>0, <2>1, <2>2
  <2>7. \A w \in VCPU : at'[w].step = "number" => insts'[At(w)'].fvalid
    <3> SUFFICES ASSUME NEW w \in VCPU, at'[w].step = "number" PROVE insts'[At(w)'].fvalid
      OBVIOUS
    <3>1. at[w].step = "number" /\ At(w)' = At(w) /\ At(w) \in Inst
      BY <1>0, <2>1, OthersStay
    <3>. QED
      BY <2>2, <3>1
  <2>. QED
    BY <2>3, <2>4, <2>5, <2>6, <2>7
<1>5. CASE FirstAgain(v) \/ InstAgain(v)
  <2>1. /\ at[v].step = "call" /\ at'[v].step = "set" /\ At(v)' = At(v)
        /\ insts[At(v)].fvalid /\ UNCHANGED <<insts, stored>>
    BY <1>0, <1>5 DEF FirstAgain, InstAgain, At
  <2>2. At(v) \in stored
    <3> SUFFICES ASSUME NEW w \in VCPU, at[w].step = "number", At(w) = At(v) PROVE FALSE
      BY <1>0, <2>1
    <3>1. w # v /\ at'[w].step = "number" /\ At(w)' = At(v)'
      BY <2>1, OthersStay
    <3>. QED
      BY <2>1, <3>1 DEF RaceFree
  <2>. QED
    BY <1>1, <2>1, <2>2
<1>6. CASE FirstSet(v) \/ InstSet(v)
  <2>1. /\ at[v].step = "set" /\ at'[v].step = "body" /\ At(v)' = At(v) /\ UNCHANGED stored
    BY <1>0, <1>6 DEF FirstSet, InstSet, At
  <2>2. \A i \in Inst : insts'[i].fvalid = insts[i].fvalid
    BY <2>1, RecordMoves DEF MarkValid
  <2>. QED
    BY <1>1, <2>1, <2>2
<1>7. CASE NextInst(v) \/ (\E b \in Block : Enter(v, b)) \/ (\E b \in RunsBlock[v] : Discon(v, start[b]))
  <2>1. at[v].step \in {"out", "body"} /\ at'[v].step \in {"out", "call"} /\ UNCHANGED <<insts, stored>>
    <3>1. CASE NextInst(v)
      <4>1. CASE at[v].n < Length[at[v].block]
        BY <1>0, <3>1, <4>1 DEF NextInst, history
      <4>2. CASE ~(at[v].n < Length[at[v].block])
        BY <1>0, <3>1, <4>2 DEF NextInst, Out, history
      <4>. QED
        BY <4>1, <4>2
    <3>2. ASSUME NEW b \in Block, Enter(v, b)
          PROVE  /\ at[v].step \in {"out", "body"} /\ at'[v].step \in {"out", "call"}
                 /\ UNCHANGED <<insts, stored>>
      BY <1>0, <3>2 DEF Enter, history
    <3>3. ASSUME NEW b \in RunsBlock[v], Discon(v, start[b])
          PROVE  /\ at[v].step \in {"out", "body"} /\ at'[v].step \in {"out", "call"}
                 /\ UNCHANGED <<insts, stored>>
      BY <1>0, <3>3 DEF Discon, Out, history
    <3>. QED
      BY <1>7, <3>1, <3>2, <3>3
  <2>. QED
    BY <1>1, <2>1
<1>8. CASE VcpuInit(v) \/ Idle(v) \/ Resume(v)
  <2>1. UNCHANGED <<at, insts, stored>>
    BY <1>8 DEF VcpuInit, Idle, Resume, Capture, history
  <2>. QED
    BY <1>1, <2>1 DEF At
<1>. QED
  BY <1>2, <1>3, <1>4, <1>5, <1>6, <1>7, <1>8 DEF ExecVcpu

(* A number once given stays. *)
LEMMA RealStays ==
  ASSUME RecordInv, NumberedOnce, NEW v \in VCPU, ExecVcpu(v)
  PROVE  /\ \A i \in stored : i \in stored' /\ insts'[i].real_pc = insts[i].real_pc
         /\ \A p \in stored \cup {None} : p \in stored' \cup {None} /\ RealOf(p)' = RealOf(p)
<1>1. ASSUME NEW i \in stored PROVE i \in stored' /\ insts'[i].real_pc = insts[i].real_pc
  <2>1. i \in stored' /\ i \in Inst
    BY StoredMoves DEF RecordInv, CellInv
  <2>2. Number(v) => At(v) \notin stored
    BY DEF Number, NumberedOnce, Numbering
  <2>. QED
    BY <2>1, <2>2, RecordMoves
<1>. QED
  BY <1>1 DEF RealOf

LEMMA EntryInst == ASSUME NEW b \in Block PROVE <<b, 1>> \in Inst
<1>1. Length[b] \in Nat \ {0}
  BY ExecAssumption
<1>2. 1 \in 1 .. Length[b]
  BY <1>1
<1>. QED
  BY <1>2 DEF Inst

LEMMA EntryUntouchedStep ==
  ASSUME RecordInv, EntryUntouched, NEW v \in VCPU, ExecVcpu(v)
  PROVE  EntryUntouched'
<1> USE DEF EntryUntouched
<1> SUFFICES ASSUME NEW b \in Block
             PROVE  insts'[<<b, 1>>].fvalid_prev_real_pc /\ insts'[<<b, 1>>].prev_real_pc = 0
  OBVIOUS
<1>0. insts \in [Inst -> Record] /\ <<b, 1>> \in Inst
  BY EntryInst DEF RecordInv, CellInv
<1>1. CASE insts' = insts
  BY <1>1
<1>2. CASE MarkValid(v)
  BY <1>0, <1>2 DEF MarkValid, Record
<1>3. CASE Number(v)
  BY <1>0, <1>3 DEF Number, Record
<1>4. CASE FirstSet(v)
  <2>1. at[v].block \in Block /\ at[v].n = 1
    BY <1>4 DEF FirstSet, RecordInv, PlaceInv
  <2>2. insts[At(v)].fvalid_prev_real_pc
    BY <2>1 DEF At
  <2>3. insts' = insts
    BY <1>4, <2>2 DEF FirstSet
  <2>. QED
    BY <2>3
<1>5. CASE InstSet(v)
  <2>1. At(v) # <<b, 1>>
    BY <1>5 DEF InstSet, At
  <2>. QED
    BY <1>0, <1>5, <2>1 DEF InstSet
<1>. QED
  BY <1>1, <1>2, <1>3, <1>4, <1>5
     DEF ExecVcpu, VcpuInit, Enter, FindNew, FirstAgain, InstAgain, NextInst, Discon, Idle, Resume

LEMMA RanStep ==
  ASSUME RecordInv, NumberedOnce, RanInv, NEW v \in VCPU, ExecVcpu(v)
  PROVE  RanInv'
<1>1. CASE FirstSet(v) \/ InstSet(v)
  <2>1. /\ ran' = [ran EXCEPT ![v] = At(v)]
        /\ curr_pc' = [curr_pc EXCEPT ![v] = insts[At(v)].real_pc]
        /\ stored' = stored /\ at[v].step = "set"
    BY <1>1 DEF FirstSet, InstSet, Advance
  <2>2. At(v) \in stored /\ At(v) # None
    BY <2>1, ExecAssumption DEF NumberedOnce, RecordInv, CellInv
  <2>. QED
    BY <2>1, <2>2, RealStays DEF RanInv, RecordInv, CellInv
<1>2. CASE Idle(v) \/ Resume(v)
  <2>1. /\ ran' = [ran EXCEPT ![v] = None] /\ curr_pc' = [curr_pc EXCEPT ![v] = None]
        /\ UNCHANGED <<stored, insts>>
    BY <1>2 DEF Idle, Resume, Capture, Forget
  <2>. QED
    BY <2>1 DEF RanInv, RecordInv, CellInv
<1>3. CASE UNCHANGED <<ran, curr_pc>>
  BY <1>3, RealStays DEF RanInv
<1>. QED
  BY <1>1, <1>2, <1>3
     DEF ExecVcpu, VcpuInit, Enter, FindNew, MarkValid, Number, FirstAgain, InstAgain,
         NextInst, Discon, history

-----------------------------------------------------------------------------
LEMMA RecordedIs ==
  ASSUME NEW i, NEW x
  PROVE  x \in Recorded(i) <=>
         \/ x = insts[i].prev_real_pc
         \/ \E w \in VCPU : \E e \in edges[w] : e.dst = insts[i].real_pc /\ e.src = x
  BY DEF Recorded

(* first() of a valid record: how the instruction was reached goes into preds *)
(* and, unless its record says it already, into the edges.                  *)
LEMMA FirstAgainFacts ==
  ASSUME RecordInv, NumberedOnce, NumberedOnce', EntryUntouched, RanInv, EdgeEnds,
         NEW v \in VCPU, FirstAgain(v)
  PROVE  /\ at[v].block \in Block /\ At(v) = <<at[v].block, 1>> /\ At(v) \in stored
         /\ insts' = insts /\ stored' = stored
         /\ preds' = [preds EXCEPT ![At(v)] = @ \cup {ran[v]}]
         /\ \/ /\ edges' = edges
               /\ RealOf(ran[v]) = insts[At(v)].prev_real_pc
            \/ edges' = [edges EXCEPT ![v] = @ \cup
                            {[dst |-> insts[At(v)].real_pc, src |-> RealOf(ran[v])]}]
         /\ RealOf(ran[v]) \in Nat /\ insts[At(v)].real_pc \in Nat
<1>1. at[v].step = "call" /\ at[v].n = 1 /\ at[v].block \in Block
  BY DEF FirstAgain, RecordInv, PlaceInv
<1>2. At(v)' = At(v) /\ at'[v].step = "set"
  BY <1>1 DEF FirstAgain, RecordInv, PlaceInv, At
<1>3. insts' = insts /\ stored' = stored
  BY DEF FirstAgain
<1>4. At(v) \in stored
  BY <1>2, <1>3 DEF NumberedOnce
<1>5. insts[At(v)] \in Record
  BY <1>4 DEF RecordInv, CellInv
<1>6. RealOf(ran[v]) = OrZero(curr_pc[v]) /\ RealOf(ran[v]) \in Nat
  <2>1. CASE ran[v] = None
    BY <2>1 DEF RanInv, RealOf, OrZero
  <2>2. CASE ran[v] # None
    <3>1. ran[v] \in stored /\ curr_pc[v] = insts[ran[v]].real_pc
      BY <2>2 DEF RanInv
    <3>2. insts[ran[v]].real_pc \in Nat
      BY <3>1 DEF RecordInv, CellInv, Record
    <3>. QED
      BY <2>2, <3>1, <3>2, ExecAssumption DEF RealOf, OrZero
  <2>. QED
    BY <2>1, <2>2
<1>7. At(v) = <<at[v].block, 1>>
  BY <1>1 DEF At
<1>8. ~Elsewhere(v) => RealOf(ran[v]) = insts[At(v)].prev_real_pc
  BY <1>1, <1>6, <1>7 DEF Elsewhere, EntryUntouched, OrZero
<1>9. /\ preds' = [preds EXCEPT ![At(v)] = @ \cup {ran[v]}]
      /\ edges' = IF Elsewhere(v)
                  THEN [edges EXCEPT ![v] = @ \cup
                          {[dst |-> insts[At(v)].real_pc, src |-> OrZero(curr_pc[v])]}]
                  ELSE edges
  BY DEF FirstAgain
<1>. QED
  BY <1>1, <1>3, <1>4, <1>5, <1>6, <1>7, <1>8, <1>9 DEF Record

LEMMA EdgeEndsStep ==
  ASSUME RecordInv, NumberedOnce, NumberedOnce', EntryUntouched, RanInv, EdgeEnds,
         NEW v \in VCPU, ExecVcpu(v)
  PROVE  EdgeEnds'
<1>0. /\ edges \in [VCPU -> SUBSET [dst : Nat, src : Nat]]
      /\ preds \in [Inst -> SUBSET (stored \cup {None})]
      /\ \A i \in Inst : preds[i] # {} => i \in stored
      /\ stored \subseteq Inst /\ \A i \in stored : i \in stored'
      /\ ran[v] \in stored \cup {None}
  BY RealStays DEF EdgeEnds, RanInv, RecordInv, CellInv
<1>1. (* An edge that was there keeps its ends. *)
      ASSUME NEW w \in VCPU, NEW e \in edges[w],
             preds' = preds \/ (preds' = [preds EXCEPT ![At(v)] = @ \cup {ran[v]}])
      PROVE  \E i \in stored' : insts'[i].real_pc = e.dst /\ \E p \in preds'[i] : e.src = RealOf(p)'
  <2>0. PICK i \in stored : insts[i].real_pc = e.dst /\ \E p \in preds[i] : e.src = RealOf(p)
    BY DEF EdgeEnds
  <2>1. PICK p \in preds[i] : insts[i].real_pc = e.dst /\ e.src = RealOf(p)
    BY <2>0
  <2>2. i \in Inst /\ p \in stored \cup {None} /\ p \in preds'[i]
    BY <1>0, <1>1, <2>1
  <2>. QED
    BY <1>0, <2>1, <2>2, RealStays
<1>2. CASE FirstAgain(v)
  <2>1. /\ At(v) \in stored /\ insts' = insts /\ stored' = stored
        /\ preds' = [preds EXCEPT ![At(v)] = @ \cup {ran[v]}]
        /\ RealOf(ran[v]) \in Nat /\ insts[At(v)].real_pc \in Nat
    BY <1>2, FirstAgainFacts
  <2> DEFINE new == [dst |-> insts[At(v)].real_pc, src |-> RealOf(ran[v])]
  <2>2. edges' = edges \/ edges' = [edges EXCEPT ![v] = @ \cup {new}]
    BY <1>2, FirstAgainFacts
  <2>3. new \in [dst : Nat, src : Nat] /\ new.dst = insts[At(v)].real_pc /\ new.src = RealOf(ran[v])
    BY <2>1
  <2> HIDE DEF new
  <2>4. edges' \in [VCPU -> SUBSET [dst : Nat, src : Nat]]
    BY <1>0, <2>2, <2>3
  <2>5. /\ preds' \in [Inst -> SUBSET (stored' \cup {None})]
        /\ \A i \in Inst : preds'[i] # {} => i \in stored'
    BY <1>0, <2>1
  <2>6. ASSUME NEW w \in VCPU, NEW e \in edges'[w]
        PROVE  \E i \in stored' : insts'[i].real_pc = e.dst /\ \E p \in preds'[i] : e.src = RealOf(p)'
    <3>1. CASE e \in edges[w]
      BY <1>1, <2>1, <3>1
    <3>2. CASE e \notin edges[w]
      <4>1. e = new
        BY <1>0, <2>2, <3>2
      <4>2. ran[v] \in preds'[At(v)] /\ At(v) \in stored' /\ RealOf(ran[v])' = RealOf(ran[v]')
        BY <1>0, <2>1 DEF RealOf
      <4>3. ASSUME NEW p PROVE RealOf(p)' = RealOf(p)
        BY <2>1 DEF RealOf
      <4>. QED
        BY <2>1, <2>3, <4>1, <4>2, <4>3
    <3>. QED
      BY <3>1, <3>2
  <2>. QED
    BY <2>4, <2>5, <2>6 DEF EdgeEnds
<1>3. CASE InstAgain(v)
  <2>1. /\ edges' = edges /\ insts' = insts /\ stored' = stored
        /\ preds' = [preds EXCEPT ![At(v)] = @ \cup {ran[v]}]
        /\ at[v].step = "call"
    BY <1>3 DEF InstAgain
  <2>2. At(v)' = At(v) /\ at'[v].step = "set"
    BY <1>3, <2>1 DEF InstAgain, RecordInv, PlaceInv, At
  <2>3. At(v) \in stored
    BY <2>1, <2>2 DEF NumberedOnce
  <2>4. /\ preds' \in [Inst -> SUBSET (stored' \cup {None})]
        /\ \A i \in Inst : preds'[i] # {} => i \in stored'
    BY <1>0, <2>1, <2>3
  <2>. QED
    BY <1>0, <1>1, <2>1, <2>4 DEF EdgeEnds
<1>4. CASE UNCHANGED <<edges, preds>>
  <2>1. /\ preds' \in [Inst -> SUBSET (stored' \cup {None})]
        /\ \A i \in Inst : preds'[i] # {} => i \in stored'
    BY <1>0, <1>4
  <2>. QED
    BY <1>0, <1>1, <1>4, <2>1 DEF EdgeEnds
<1>. QED
  BY <1>2, <1>3, <1>4
     DEF ExecVcpu, VcpuInit, Enter, FindNew, MarkValid, Number, FirstSet, InstSet,
         NextInst, Discon, Idle, Resume, Capture, history

LEMMA ReentryStep ==
  ASSUME RecordInv, NumberedOnce, NumberedOnce', EntryUntouched, EntryUntouched', RanInv,
         EdgeEnds, ReentryRecorded, NEW v \in VCPU, ExecVcpu(v)
  PROVE  ReentryRecorded'
<1> SUFFICES ASSUME NEW b \in Block, NEW p \in preds'[<<b, 1>>]
             PROVE  \/ RealOf(p)' = insts'[<<b, 1>>].prev_real_pc
                    \/ \E w \in VCPU : \E e \in edges'[w] :
                         e.dst = insts'[<<b, 1>>].real_pc /\ e.src = RealOf(p)'
  <2>1. ReentryRecorded' <=> \A b \in Block : \A p \in preds'[<<b, 1>>] :
                               RealOf(p)' \in Recorded(<<b, 1>>)'
    BY DEF ReentryRecorded
  <2>2. ASSUME NEW i, NEW x, \/ x = insts'[i].prev_real_pc
                            \/ \E w \in VCPU : \E e \in edges'[w] :
                                 e.dst = insts'[i].real_pc /\ e.src = x
        PROVE  x \in Recorded(i)'
    BY <2>2 DEF Recorded
  <2>. QED
    BY <2>1, <2>2
<1> DEFINE entry == <<b, 1>>
<1>0. /\ entry \in Inst /\ edges \in [VCPU -> SUBSET [dst : Nat, src : Nat]]
      /\ preds \in [Inst -> SUBSET (stored \cup {None})]
      /\ preds[entry] # {} => entry \in stored
      /\ insts[entry].prev_real_pc = 0 /\ insts'[entry].prev_real_pc = 0
  BY EntryInst DEF EdgeEnds, EntryUntouched
<1> HIDE DEF entry
<1>1. (* What was recorded stays so. *)
      ASSUME p \in preds[entry], \A w \in VCPU : edges[w] \subseteq edges'[w]
      PROVE  \/ RealOf(p)' = insts'[entry].prev_real_pc
             \/ \E w \in VCPU : \E e \in edges'[w] : e.dst = insts'[entry].real_pc /\ e.src = RealOf(p)'
  <2>1. RealOf(p)' = RealOf(p) /\ insts'[entry].real_pc = insts[entry].real_pc
    BY <1>0, <1>1, RealStays
  <2>2. RealOf(p) \in Recorded(entry)
    BY <1>1 DEF ReentryRecorded, entry
  <2>3. \/ RealOf(p) = insts[entry].prev_real_pc
        \/ \E w \in VCPU : \E e \in edges[w] : e.dst = insts[entry].real_pc /\ e.src = RealOf(p)
    BY <2>2, RecordedIs
  <2>. QED
    BY <1>0, <1>1, <2>1, <2>3
<1>2. CASE FirstAgain(v)
  <2>1. /\ insts' = insts
        /\ preds' = [preds EXCEPT ![At(v)] = @ \cup {ran[v]}]
    BY <1>2, FirstAgainFacts
  <2> DEFINE new == [dst |-> insts[At(v)].real_pc, src |-> RealOf(ran[v])]
  <2>2. \/ edges' = edges /\ RealOf(ran[v]) = insts[At(v)].prev_real_pc
        \/ edges' = [edges EXCEPT ![v] = @ \cup {new}]
    BY <1>2, FirstAgainFacts
  <2>3. new.dst = insts[At(v)].real_pc /\ new.src = RealOf(ran[v])
    OBVIOUS
  <2> HIDE DEF new
  <2>4. \A w \in VCPU : edges[w] \subseteq edges'[w]
    BY <1>0, <2>2
  <2>5. CASE p \in preds[entry]
    BY <1>1, <2>4, <2>5 DEF entry
  <2>6. CASE p \notin preds[entry]
    <3>1. entry = At(v) /\ p = ran[v]
      BY <1>0, <2>1, <2>6 DEF entry
    <3>2. RealOf(p)' = RealOf(p)
      BY <2>1 DEF RealOf
    <3>3. CASE edges' = edges /\ RealOf(ran[v]) = insts[At(v)].prev_real_pc
      BY <2>1, <3>1, <3>2, <3>3 DEF entry
    <3>4. CASE edges' = [edges EXCEPT ![v] = @ \cup {new}]
      <4>1. new \in edges'[v]
        BY <1>0, <3>4
      <4>2. new.dst = insts'[entry].real_pc /\ new.src = RealOf(p)'
        BY <2>1, <2>3, <3>1, <3>2
      <4>. QED
        BY <4>1, <4>2 DEF entry
    <3>. QED
      BY <2>2, <3>3, <3>4
  <2>. QED
    BY <2>5, <2>6
<1>3. CASE InstAgain(v)
  <2>1. /\ edges' = edges /\ at[v].n > 1
        /\ preds' = [preds EXCEPT ![At(v)] = @ \cup {ran[v]}]
    BY <1>3 DEF InstAgain
  <2>2. At(v) # entry
    BY <2>1 DEF At, entry
  <2>. QED
    BY <1>0, <1>1, <2>1, <2>2 DEF entry
<1>4. CASE UNCHANGED <<edges, preds>>
  BY <1>1, <1>4 DEF entry
<1>. QED
  BY <1>2, <1>3, <1>4
     DEF ExecVcpu, VcpuInit, Enter, FindNew, MarkValid, Number, FirstSet, InstSet,
         NextInst, Discon, Idle, Resume, Capture, history

LEMMA RecordedStep ==
  ASSUME RecordInv, RecordedInv, RaceFree, RaceFree', [ExecNext]_execVars
  PROVE  RecordedInv'
<1>1. ASSUME NEW v \in VCPU, ExecVcpu(v) PROVE RecordedInv'
  BY <1>1, NumberedOnceStep, EntryUntouchedStep, RanStep, EdgeEndsStep, ReentryStep DEF RecordedInv
<1>2. CASE TbFlush \/ UNCHANGED execVars
  <2>1. UNCHANGED <<at, insts, stored, ran, curr_pc, edges, preds>>
    BY <1>2 DEF TbFlush, execVars, history
  <2>. QED
    <3>1. NumberedOnce' /\ EntryUntouched' /\ RanInv'
      BY <2>1 DEF RecordedInv, NumberedOnce, Numbering, At, EntryUntouched, RanInv
    <3>2. \A p : RealOf(p)' = RealOf(p)
      BY <2>1 DEF RealOf
    <3>3. \A i : Recorded(i)' = Recorded(i)
      BY <2>1 DEF Recorded
    <3>4. EdgeEnds' /\ ReentryRecorded'
      BY <2>1, <3>2, <3>3 DEF RecordedInv, EdgeEnds, ReentryRecorded
    <3>. QED
      BY <3>1, <3>4 DEF RecordedInv
<1>. QED
  BY <1>1, <1>2 DEF ExecNext

LEMMA RecordedInit == ExecInit => RecordedInv
<1> SUFFICES ASSUME ExecInit PROVE RecordedInv
  OBVIOUS
<1>1. \A i \in Inst : insts[i] = FreshInst
  BY DEF ExecInit
<1>2. NumberedOnce
  BY <1>1 DEF ExecInit, NumberedOnce, Numbering, Out, FreshInst
<1>3. EntryUntouched
  <2>1. FreshInst.fvalid_prev_real_pc /\ FreshInst.prev_real_pc = 0
    BY DEF FreshInst
  <2>2. \A b \in Block : insts[<<b, 1>>] = FreshInst
    BY <1>1, EntryInst
  <2>. QED
    BY <2>1, <2>2 DEF EntryUntouched
<1>4. RanInv
  BY DEF ExecInit, RanInv
<1>5. EdgeEnds
  BY DEF ExecInit, EdgeEnds
<1>6. ReentryRecorded
  BY EntryInst DEF ExecInit, ReentryRecorded
<1>. QED
  BY <1>2, <1>3, <1>4, <1>5, <1>6 DEF RecordedInv

(* What first() does to the log: nothing, or it sets the real PC of the last   *)
(* interrupt, which does not wait any more.                                 *)
LEMMA FirstSetLog ==
  ASSUME RecordInv, PendingInv, NEW v \in VCPU, FirstSet(v)
  PROVE  /\ fadd_real_pc' \in [VCPU -> BOOLEAN] /\ ints' \in [VCPU -> Seq(IntEntry)]
         /\ ~Waits(v)'
         /\ \A w \in VCPU : w # v => ints'[w] = ints[w] /\ fadd_real_pc'[w] = fadd_real_pc[w]
         /\ DOMAIN ints'[v] = DOMAIN ints[v]
         /\ \A n \in DOMAIN ints[v] :
              \/ ints'[v][n] = ints[v][n]
              \/ /\ ints'[v][n].dst = start[at[v].block]
                 /\ ints'[v][n].dst_real = insts[At(v)].real_pc
<1> DEFINE r == insts[At(v)].real_pc
           L == Len(ints[v])
           matches == fadd_real_pc[v] /\ ints[v] # <<>> /\ ints[v][L].dst = start[at[v].block]
<1>1. /\ at[v].step = "set" /\ At(v) \in Inst /\ r \in Nat /\ insts \in [Inst -> Record]
  BY AtInst DEF FirstSet, RecordInv, CellInv, Record
<1>2. /\ ints' = IF matches THEN [ints EXCEPT ![v][L].dst_real = r] ELSE ints
      /\ \E cleared \in BOOLEAN :
           /\ (fadd_real_pc[v] /\ ints[v] = <<>>) \/ cleared = matches
           /\ fadd_real_pc' = [fadd_real_pc EXCEPT ![v] = @ /\ ~cleared]
  BY DEF FirstSet, Pending
<1>3. /\ ints \in [VCPU -> Seq(IntEntry)] /\ ints[v] \in Seq(IntEntry)
      /\ fadd_real_pc \in [VCPU -> BOOLEAN]
  BY DEF PendingInv
<1>4. Waits(v) => matches
  BY <1>1 DEF PendingInv, Waits
<1>5. /\ fadd_real_pc' \in [VCPU -> BOOLEAN]
      /\ \A w \in VCPU : w # v => fadd_real_pc'[w] = fadd_real_pc[w]
  BY <1>2, <1>3
<1>6. CASE matches
  <2>1. L \in DOMAIN ints[v] /\ ints[v][L] \in IntEntry
    BY <1>3, <1>6, EmptySeq
  <2> DEFINE fixed == [ints[v][L] EXCEPT !.dst_real = r]
  <2>2. /\ fixed \in IntEntry /\ fixed.dst = start[at[v].block] /\ fixed.dst_real = r
    BY <1>1, <1>6, <2>1 DEF IntEntry
  <2>3. ints' = [ints EXCEPT ![v] = [ints[v] EXCEPT ![L] = fixed]]
    BY <1>2, <1>6
  <2>4. ~fadd_real_pc'[v]
    BY <1>2, <1>3, <1>6
  <2> HIDE DEF fixed, r, L, matches
  <2>5. [ints[v] EXCEPT ![L] = fixed] \in Seq(IntEntry)
    BY <1>3, <2>1, <2>2
  <2>6. ints' \in [VCPU -> Seq(IntEntry)] /\ \A w \in VCPU : w # v => ints'[w] = ints[w]
    BY <1>3, <2>3, <2>5
  <2>7. /\ DOMAIN ints'[v] = DOMAIN ints[v]
        /\ \A n \in DOMAIN ints[v] : ints'[v][n] = IF n = L THEN fixed ELSE ints[v][n]
    BY <1>3, <2>3
  <2>. QED
    BY <1>5, <2>2, <2>4, <2>6, <2>7 DEF Waits, r
<1>7. CASE ~matches
  <2>1. ints' = ints
    BY <1>2, <1>7
  <2>2. ~Waits(v)'
    BY <1>2, <1>3, <1>4, <1>7, <2>1 DEF Waits
  <2>. QED
    BY <1>3, <1>5, <2>1, <2>2
<1>. QED
  BY <1>6, <1>7

LEMMA PendingStep ==
  ASSUME RecordInv, PendingInv, NEW v \in VCPU, ExecVcpu(v)
  PROVE  PendingInv'
<1>0. /\ fadd_real_pc \in [VCPU -> BOOLEAN] /\ ints \in [VCPU -> Seq(IntEntry)]
      /\ goto \in [VCPU -> Pc \cup {None}]
      /\ at \in [VCPU -> [step : Steps, block : Block \cup {None}, n : Nat]]
  BY DEF PendingInv, RecordInv, PlaceInv
<1>1. ASSUME UNCHANGED <<fadd_real_pc, ints, goto>>,
             ~Waits(v) \/ /\ at'[v].step \in {"call", "mark", "number", "set"}
                          /\ at[v].step \in {"call", "mark", "number", "set"}
                          /\ at'[v].n = at[v].n /\ at'[v].block = at[v].block
      PROVE  PendingInv'
  <2>1. \A w \in VCPU : Waits(w)' = Waits(w)
    BY <1>1 DEF Waits
  <2>2. ASSUME NEW w \in VCPU, Waits(w)
        PROVE  \/ at'[w].step = "out" /\ goto'[w] = ints'[w][Len(ints'[w])].dst
               \/ /\ at'[w].step \in {"call", "mark", "number", "set"} /\ at'[w].n = 1
                  /\ start[at'[w].block] = ints'[w][Len(ints'[w])].dst
    BY <1>1, <2>2, OthersStay DEF PendingInv
  <2>. QED
    BY <1>0, <1>1, <2>1, <2>2 DEF PendingInv
<1>2. ASSUME NEW b \in Block, Enter(v, b) PROVE PendingInv'
  <2>1. /\ at[v].step = "out" /\ goto[v] \in {None, start[b]}
        /\ at' = [at EXCEPT ![v] = [step |-> "call", block |-> b, n |-> 1]]
        /\ goto' = [goto EXCEPT ![v] = None]
        /\ UNCHANGED <<fadd_real_pc, ints>>
    BY <1>2 DEF Enter
  <2>2. Waits(v) => start[b] = ints[v][Len(ints[v])].dst
    <3> SUFFICES ASSUME Waits(v) PROVE start[b] = ints[v][Len(ints[v])].dst
      OBVIOUS
    <3>1. goto[v] = ints[v][Len(ints[v])].dst
      BY <2>1 DEF PendingInv
    <3>2. ints[v][Len(ints[v])] \in IntEntry
      BY <1>0, EmptySeq DEF Waits
    <3>. QED
      BY <2>1, <3>1, <3>2, ExecAssumption DEF IntEntry
  <2>. QED
    BY <1>0, <2>1, <2>2, OthersStay DEF PendingInv, Waits
<1>3. CASE FindNew(v) \/ MarkValid(v) \/ Number(v) \/ FirstAgain(v) \/ InstAgain(v)
  BY <1>0, <1>1, <1>3 DEF FindNew, MarkValid, Number, FirstAgain, InstAgain
<1>4. CASE FirstSet(v)
  <2>1. goto' = goto
    BY <1>4 DEF FirstSet
  <2>2. ASSUME NEW w \in VCPU, Waits(w)'
        PROVE  \/ at'[w].step = "out" /\ goto'[w] = ints'[w][Len(ints'[w])].dst
               \/ /\ at'[w].step \in {"call", "mark", "number", "set"} /\ at'[w].n = 1
                  /\ start[at'[w].block] = ints'[w][Len(ints'[w])].dst
    <3>1. w # v /\ ints'[w] = ints[w] /\ Waits(w)
      BY <1>4, <2>2, FirstSetLog DEF Waits
    <3>. QED
      BY <2>1, <3>1, OthersStay DEF PendingInv
  <2>. QED
    BY <1>0, <1>4, <2>1, <2>2, FirstSetLog DEF PendingInv
<1>5. CASE InstSet(v) \/ NextInst(v)
  <2>1. (at[v].step = "set" /\ at[v].n > 1) \/ at[v].step = "body"
    BY <1>5 DEF InstSet, NextInst
  <2>2. ~Waits(v)
    BY <2>1 DEF PendingInv
  <2>3. UNCHANGED <<fadd_real_pc, ints, goto>>
    BY <1>5 DEF InstSet, NextInst
  <2>. QED
    BY <1>1, <2>2, <2>3
<1>6. ASSUME NEW b \in RunsBlock[v], Discon(v, start[b]) PROVE PendingInv'
  <2> DEFINE new == [dst |-> start[b], dst_real |-> 0]
  <2>1. new \in IntEntry /\ new.dst = start[b] /\ start[b] \in Pc
    <3>1. b \in Block
      BY ExecAssumption
    <3>. QED
      BY <3>1 DEF IntEntry, Pc
  <2>2. /\ fadd_real_pc' = [fadd_real_pc EXCEPT ![v] = TRUE]
        /\ ints' = [ints EXCEPT ![v] = Append(ints[v], new)]
        /\ at' = [at EXCEPT ![v] = Out] /\ goto' = [goto EXCEPT ![v] = start[b]]
    BY <1>6 DEF Discon
  <2> HIDE DEF new
  <2>3. /\ Append(ints[v], new) \in Seq(IntEntry)
        /\ Len(Append(ints[v], new)) = Len(ints[v]) + 1
        /\ Append(ints[v], new)[Len(ints[v]) + 1] = new
    BY <1>0, <2>1
  <2>4. at'[v].step = "out"
    BY <1>0, <2>2 DEF Out
  <2>5. goto'[v] = ints'[v][Len(ints'[v])].dst
    BY <1>0, <2>1, <2>2, <2>3
  <2>6. ASSUME NEW w \in VCPU, w # v
        PROVE  Waits(w)' = Waits(w) /\ ints'[w] = ints[w] /\ goto'[w] = goto[w]
    BY <1>0, <2>2, <2>6 DEF Waits
  <2>7. /\ fadd_real_pc' \in [VCPU -> BOOLEAN] /\ ints' \in [VCPU -> Seq(IntEntry)]
        /\ goto' \in [VCPU -> Pc \cup {None}]
    BY <1>0, <2>1, <2>2, <2>3
  <2>8. ASSUME NEW w \in VCPU, Waits(w)'
        PROVE  \/ at'[w].step = "out" /\ goto'[w] = ints'[w][Len(ints'[w])].dst
               \/ /\ at'[w].step \in {"call", "mark", "number", "set"} /\ at'[w].n = 1
                  /\ start[at'[w].block] = ints'[w][Len(ints'[w])].dst
    <3>1. CASE w = v
      BY <2>4, <2>5, <3>1
    <3>2. CASE w # v
      <4>1. at'[w] = at[w] /\ Waits(w)
        BY <2>6, <2>8, <3>2, OthersStay
      <4>. QED
        BY <2>6, <3>2, <4>1 DEF PendingInv
    <3>. QED
      BY <3>1, <3>2
  <2>. QED
    BY <2>7, <2>8 DEF PendingInv
<1>7. CASE VcpuInit(v) \/ Idle(v) \/ Resume(v)
  <2>1. UNCHANGED <<fadd_real_pc, ints, goto, at>>
    BY <1>7 DEF VcpuInit, Idle, Resume
  <2>2. \A w \in VCPU : Waits(w)' = Waits(w)
    BY <2>1 DEF Waits
  <2>. QED
    BY <1>0, <2>1, <2>2 DEF PendingInv
<1>. QED
  BY <1>2, <1>3, <1>4, <1>5, <1>6, <1>7 DEF ExecVcpu

LEMMA ResolvedStep ==
  ASSUME RecordInv, NumberedOnce, PendingInv, ResolvedInv, NEW v \in VCPU, ExecVcpu(v)
  PROVE  ResolvedInv'
<1>0. ints \in [VCPU -> Seq(IntEntry)]
  BY DEF PendingInv
<1>1. (* A log entry that was there keeps its block. *)
      ASSUME NEW w \in VCPU, NEW n \in DOMAIN ints[w], ints[w][n].dst_real # 0
      PROVE  \E b \in Block : /\ start[b] = ints[w][n].dst
                              /\ <<b, 1>> \in stored'
                              /\ insts'[<<b, 1>>].real_pc = ints[w][n].dst_real
  BY <1>1, RealStays DEF ResolvedInv
<1>2. CASE ints' = ints
  BY <1>1, <1>2 DEF ResolvedInv
<1>3. CASE FirstSet(v)
  <2>1. /\ at[v].block \in Block /\ At(v) = <<at[v].block, 1>> /\ At(v) \in stored
    BY <1>3 DEF FirstSet, RecordInv, PlaceInv, At, NumberedOnce
  <2>2. At(v) \in stored' /\ insts'[At(v)].real_pc = insts[At(v)].real_pc
    BY <2>1, RealStays
  <2> SUFFICES ASSUME NEW w \in VCPU, NEW n \in DOMAIN ints'[w], ints'[w][n].dst_real # 0
               PROVE  \E b \in Block : /\ start[b] = ints'[w][n].dst
                                       /\ <<b, 1>> \in stored'
                                       /\ insts'[<<b, 1>>].real_pc = ints'[w][n].dst_real
    BY DEF ResolvedInv
  <2>3. /\ n \in DOMAIN ints[w]
        /\ \/ ints'[w][n] = ints[w][n]
           \/ /\ ints'[w][n].dst = start[at[v].block]
              /\ ints'[w][n].dst_real = insts[At(v)].real_pc
    <3>1. CASE w = v
      BY <1>3, <3>1, FirstSetLog
    <3>2. CASE w # v
      BY <1>3, <3>2, FirstSetLog
    <3>. QED
      BY <3>1, <3>2
  <2>. QED
    BY <1>1, <2>1, <2>2, <2>3
<1>4. ASSUME NEW b \in RunsBlock[v], Discon(v, start[b]) PROVE ResolvedInv'
  <2> DEFINE new == [dst |-> start[b], dst_real |-> 0]
  <2>1. ints' = [ints EXCEPT ![v] = Append(ints[v], new)] /\ new.dst_real = 0
    BY <1>4 DEF Discon
  <2> HIDE DEF new
  <2>2. ASSUME NEW w \in VCPU, NEW n \in DOMAIN ints'[w], ints'[w][n].dst_real # 0
        PROVE  n \in DOMAIN ints[w] /\ ints'[w][n] = ints[w][n]
    <3>1. CASE w # v
      BY <1>0, <2>1, <2>2, <3>1
    <3>2. CASE w = v
      <4>1. ints'[v] = Append(ints[v], new) /\ ints[v] \in Seq(IntEntry)
        BY <1>0, <2>1
      <4>2. /\ Len(ints[v]) \in Nat /\ DOMAIN ints'[v] = 1 .. Len(ints[v]) + 1
            /\ DOMAIN ints[v] = 1 .. Len(ints[v])
            /\ ints'[v][Len(ints[v]) + 1] = new
            /\ \A m \in 1 .. Len(ints[v]) : ints'[v][m] = ints[v][m]
        BY <4>1
      <4>. QED
        BY <2>1, <2>2, <3>2, <4>2
    <3>. QED
      BY <3>1, <3>2
  <2> SUFFICES ASSUME NEW w \in VCPU, NEW n \in DOMAIN ints'[w], ints'[w][n].dst_real # 0
               PROVE  \E c \in Block : /\ start[c] = ints'[w][n].dst
                                       /\ <<c, 1>> \in stored'
                                       /\ insts'[<<c, 1>>].real_pc = ints'[w][n].dst_real
    BY DEF ResolvedInv
  <2>3. n \in DOMAIN ints[w] /\ ints'[w][n] = ints[w][n]
    BY <2>2
  <2>. QED
    BY <1>1, <2>3
<1>5. \/ ints' = ints \/ FirstSet(v) \/ \E b \in RunsBlock[v] : Discon(v, start[b])
  BY DEF ExecVcpu, VcpuInit, Enter, FindNew, MarkValid, Number, FirstAgain, InstAgain, InstSet,
         NextInst, Idle, Resume
<1>. QED
  BY <1>2, <1>3, <1>4, <1>5

(* tb_flush empties the log. *)
LEMMA LogFlushed ==
  ASSUME PendingInv, ResolvedInv, TbFlush \/ UNCHANGED execVars
  PROVE  PendingInv' /\ ResolvedInv'
<1>1. CASE TbFlush
  <2>1. ints' = [v \in VCPU |-> <<>>] /\ UNCHANGED <<fadd_real_pc, goto, at>>
    BY <1>1 DEF TbFlush
  <2>2. \A v \in VCPU : ints'[v] = <<>> /\ ~Waits(v)'
    BY <2>1 DEF Waits
  <2>3. ints' \in [VCPU -> Seq(IntEntry)]
    BY <2>1
  <2>. QED
    BY <2>1, <2>2, <2>3 DEF PendingInv, ResolvedInv
<1>2. CASE UNCHANGED execVars
  <2>1. UNCHANGED <<ints, fadd_real_pc, goto, at, stored, insts>>
    BY <1>2 DEF execVars, history
  <2>2. \A v \in VCPU : Waits(v)' = Waits(v)
    BY <2>1 DEF Waits
  <2>3. PendingInv'
    BY <2>1, <2>2 DEF PendingInv
  <2>4. ResolvedInv'
    BY <2>1 DEF ResolvedInv
  <2>. QED
    BY <2>3, <2>4
<1>. QED
  BY <1>1, <1>2

LEMMA LogInit == ExecInit => PendingInv /\ ResolvedInv
<1> SUFFICES ASSUME ExecInit PROVE PendingInv /\ ResolvedInv
  OBVIOUS
<1>1. ints = [v \in VCPU |-> <<>>] /\ fadd_real_pc = [v \in VCPU |-> FALSE]
      /\ goto = [v \in VCPU |-> None]
  BY DEF ExecInit
<1>2. ints \in [VCPU -> Seq(IntEntry)] /\ \A v \in VCPU : ints[v] = <<>> /\ ~Waits(v)
  BY <1>1 DEF Waits
<1>. QED
  BY <1>1, <1>2 DEF PendingInv, ResolvedInv

-----------------------------------------------------------------------------
LEMMA AllStep ==
  ASSUME RecordInv, RecordedInv, PendingInv, ResolvedInv, RaceFree, RaceFree',
         [ExecNext]_execVars
  PROVE  RecordInv' /\ RecordedInv' /\ PendingInv' /\ ResolvedInv'
<1>1. RecordInv' /\ RecordedInv'
  BY RecordStep, RecordedStep
<1>2. PendingInv' /\ ResolvedInv'
  BY PendingStep, ResolvedStep, LogFlushed DEF ExecNext, RecordedInv
<1>. QED
  BY <1>1, <1>2

LEMMA RecordsHold ==
  ExecSpec /\ []RaceFree => [](RecordInv /\ RecordedInv /\ PendingInv /\ ResolvedInv)
<1>1. ExecInit => RecordInv /\ RecordedInv /\ PendingInv /\ ResolvedInv
  BY RecordInit, RecordedInit, LogInit
<1>2. /\ RecordInv /\ RecordedInv /\ PendingInv /\ ResolvedInv /\ RaceFree /\ RaceFree'
      /\ [ExecNext]_execVars
      => RecordInv' /\ RecordedInv' /\ PendingInv' /\ ResolvedInv'
  BY AllStep
<1>. QED
  BY <1>1, <1>2, PTL DEF ExecSpec

(* Every edge that first() logs is one that ran, whatever the blocks, vCPUs,   *)
(* interrupts and flushes, as long as no vCPU runs an instruction that another *)
(* one is still numbering.                                                  *)
THEOREM LoggedEdgesHappened == ExecSpec /\ []RaceFree => []EdgesHappened
<1>1. RecordedInv => EdgesHappened
  BY DEF RecordedInv, EdgeEnds, EdgesHappened
<1>. QED
  BY <1>1, RecordsHold, PTL

(* Every later way a block's first instruction was reached is in its record or *)
(* in the edges, under the same hypothesis.                                 *)
THEOREM ReentriesAreRecorded == ExecSpec /\ []RaceFree => []ReentryRecorded
<1>1. RecordedInv => ReentryRecorded
  BY DEF RecordedInv
<1>. QED
  BY <1>1, RecordsHold, PTL

(* The block an interrupt goes to gives it its real PC, and the interrupt never *)
(* waits longer than that block's first instruction, though tb_flush may empty  *)
(* the log while it waits.                                                  *)
THEOREM InterruptsAreResolved == ExecSpec /\ []RaceFree => []InterruptsResolved
<1>1. PendingInv /\ ResolvedInv => InterruptsResolved
  BY DEF PendingInv, ResolvedInv, Waits, InterruptsResolved
<1>. QED
  BY <1>1, RecordsHold, PTL

-----------------------------------------------------------------------------
(* Blocks that each run on one vCPU only are never run while being numbered.   *)
RunsInv == \A v \in VCPU : at[v].step # "out" => at[v].block \in RunsBlock[v]

LEMMA RunsStep ==
  ASSUME RecordInv, RunsInv, [ExecNext]_execVars
  PROVE  RunsInv'
<1>0. at \in [VCPU -> [step : Steps, block : Block \cup {None}, n : Nat]]
  BY DEF RecordInv, PlaceInv
<1>1. ASSUME NEW v \in VCPU, ExecVcpu(v) PROVE RunsInv'
  <2>1. CASE \E b \in Block : Enter(v, b)
    BY <1>0, <2>1 DEF RunsInv, Enter
  <2>2. CASE NextInst(v)
    <3>1. at[v].step = "body" /\ (at'[v].block = at[v].block \/ at'[v].step = "out")
      <4>1. CASE at[v].n < Length[at[v].block]
        BY <1>0, <2>2, <4>1 DEF NextInst
      <4>2. CASE ~(at[v].n < Length[at[v].block])
        BY <1>0, <2>2, <4>2 DEF NextInst, Out
      <4>. QED
        BY <4>1, <4>2
    <3>. QED
      BY <1>1, <3>1, OthersStay DEF RunsInv
  <2>3. CASE FindNew(v) \/ MarkValid(v) \/ Number(v) \/ FirstAgain(v) \/ InstAgain(v)
             \/ FirstSet(v) \/ InstSet(v)
    <3>1. at[v].step # "out" /\ at'[v].block = at[v].block
      BY <1>0, <2>3 DEF FindNew, MarkValid, Number, FirstAgain, InstAgain, FirstSet, InstSet
    <3>. QED
      BY <1>1, <3>1, OthersStay DEF RunsInv
  <2>4. CASE VcpuInit(v) \/ Idle(v) \/ Resume(v)
    BY <2>4 DEF VcpuInit, Idle, Resume, RunsInv
  <2>5. CASE \E b \in RunsBlock[v] : Discon(v, start[b])
    <3>1. at'[v].step = "out"
      BY <1>0, <2>5 DEF Discon, Out
    <3>. QED
      BY <1>1, <3>1, OthersStay DEF RunsInv
  <2>. QED
    BY <1>1, <2>1, <2>2, <2>3, <2>4, <2>5 DEF ExecVcpu
<1>2. CASE TbFlush \/ UNCHANGED execVars
  BY <1>2 DEF TbFlush, execVars, RunsInv
<1>. QED
  BY <1>1, <1>2 DEF ExecNext

(* The hypothesis of the three theorems above holds when no block is shared.   *)
THEOREM PrivateBlocksAreRaceFree ==
  ASSUME BlocksPrivate
  PROVE  ExecSpec => []RaceFree
<1>1. ExecInit => RecordInv /\ RunsInv
  BY RecordInit DEF ExecInit, RunsInv, Out
<1>2. RecordInv /\ RunsInv /\ [ExecNext]_execVars => RecordInv' /\ RunsInv'
  BY RecordStep, RunsStep
<1>3. RecordInv /\ RunsInv => RaceFree
  BY DEF RunsInv, RaceFree, BlocksPrivate, Numbering, At
<1>. QED
  BY <1>1, <1>2, <1>3, PTL DEF ExecSpec

-----------------------------------------------------------------------------
(* The block store of the plugin is Translation's. *)
StoreProofs == INSTANCE Translation_proofs WITH
                 Tb <- Spans,
                 MaxBlocks <- Cardinality(Block),
                 NoBlock <- None,
                 NoTb <- None,
                 tb <- SpanOf,
                 running <- InBlock

(* The plugin's instance of the store satisfies what Translation assumes. *)
LEMMA StoreAssumptions ==
  /\ StoreProofs!TbAssumption /\ StoreProofs!MaxBlocksAssumption
  /\ StoreProofs!NoBlockAssumption /\ StoreProofs!NoTbAssumption
<1>1. StoreProofs!TbAssumption
  <2>1. \A b \in Block : start[b] \in Nat /\ Length[b] \in Nat \ {0}
    BY PluginAssumption, ExecAssumption
  <2>2. \A b \in Block : start[b] + Length[b] - 1 \in Nat
                         /\ start[b] <= start[b] + Length[b] - 1
    BY <2>1
  <2>. QED
    BY <2>1, <2>2 DEF StoreProofs!TbAssumption, Spans, Span
<1>2. StoreProofs!MaxBlocksAssumption
  BY PluginAssumption, FS_CardinalityType DEF StoreProofs!MaxBlocksAssumption
<1>3. StoreProofs!NoBlockAssumption
  BY ExecAssumption DEF StoreProofs!NoBlockAssumption
<1>4. StoreProofs!NoTbAssumption
  BY PluginAssumption DEF StoreProofs!NoTbAssumption, Spans
<1>. QED
  BY <1>1, <1>2, <1>3, <1>4

(* The two instances are one. *)
LEMMA SameSets ==
  /\ Store!Addr = StoreProofs!Addr /\ Store!BlockId = StoreProofs!BlockId
  /\ Store!Mapped = StoreProofs!Mapped /\ Store!Alive = StoreProofs!Alive
  /\ Store!InUse = StoreProofs!InUse /\ Store!vars = StoreProofs!vars
  BY DEF Store!Addr, StoreProofs!Addr, Store!BlockId, StoreProofs!BlockId,
         Store!Mapped, StoreProofs!Mapped, Store!Alive, StoreProofs!Alive,
         Store!InUse, StoreProofs!InUse, Store!vars, StoreProofs!vars

LEMMA SameInit == Store!Init <=> StoreProofs!Init
  BY SameSets DEF Store!Init, StoreProofs!Init

LEMMA SameTrans ==
  \A v, t, keep : Store!Trans(v, t, keep) <=> StoreProofs!Trans(v, t, keep)
  BY DEF Store!Trans, StoreProofs!Trans, Store!Evicted, StoreProofs!Evicted,
         Store!Segment, StoreProofs!Segment, Store!Covered, StoreProofs!Covered,
         Store!Home, StoreProofs!Home, Store!Addr, StoreProofs!Addr,
         Store!BlockId, StoreProofs!BlockId

LEMMA SameOthers ==
  /\ Store!TbFlush <=> StoreProofs!TbFlush
  /\ Store!AtExit <=> StoreProofs!AtExit
  /\ \A v, i : Store!Exec(v, i) <=> StoreProofs!Exec(v, i)
  /\ \A v : Store!LeaveTb(v) <=> StoreProofs!LeaveTb(v)
  /\ \A a : Store!Invalidate(a) <=> StoreProofs!Invalidate(a)
<1>1. Store!TbFlush <=> StoreProofs!TbFlush
  BY DEF Store!TbFlush, StoreProofs!TbFlush, Store!Flushed, StoreProofs!Flushed,
         Store!BlockId, StoreProofs!BlockId
<1>2. Store!AtExit <=> StoreProofs!AtExit
  <2>1. \A S : Store!Cardinality(S) = StoreProofs!Cardinality(S)
    BY DEF Store!Cardinality, StoreProofs!Cardinality
  <2>. QED
    BY <2>1 DEF Store!AtExit, StoreProofs!AtExit, Store!Flushed, StoreProofs!Flushed,
                Store!Addr, StoreProofs!Addr, Store!BlockId, StoreProofs!BlockId
<1>3. \A v, i : Store!Exec(v, i) <=> StoreProofs!Exec(v, i)
  BY DEF Store!Exec, StoreProofs!Exec
<1>4. \A v : Store!LeaveTb(v) <=> StoreProofs!LeaveTb(v)
  BY DEF Store!LeaveTb, StoreProofs!LeaveTb
<1>5. \A a : Store!Invalidate(a) <=> StoreProofs!Invalidate(a)
  BY DEF Store!Invalidate, StoreProofs!Invalidate
<1>. QED
  BY <1>1, <1>2, <1>3, <1>4, <1>5

LEMMA SameNext == Store!Next <=> StoreProofs!Next
  BY SameSets, SameTrans, SameOthers DEF Store!Next, StoreProofs!Next

-----------------------------------------------------------------------------
(* The inductive invariant: those of the two parts, and what joins them. An   *)
(* id is given once, and only to a block that was translated; a vCPU is only  *)
(* inside such a block; a block in the file was written and has not changed   *)
(* since; an interrupt's id is above that of the block it came from.          *)
IdInv ==
  /\ id \in [Block -> Nat \cup {None}]
  /\ \A b \in Block : id[b] # None => id[b] < global_block_id
  /\ \A b, c \in Block : id[b] # None /\ id[b] = id[c] => b = c
InsideInv == \A v \in VCPU : at[v].step # "out" => id[at[v].block] # None
FileInv ==
  \A b \in Block : saved[b] # None =>
    id[b] # None /\ written[id[b]] > 0 /\ saved[b] = Snapshot(b)
LogInv ==
  /\ curr_ids \in [VCPU -> Seq([src : Nat, id : Nat, from : Inst \cup {None}])]
  /\ IdsCoverSource

PluginInv == RecordInv /\ StoreProofs!StoreInv /\ IdInv /\ InsideInv /\ FileInv /\ LogInv

LEMMA NoneFacts == None \notin Nat /\ None \notin Block
  BY ExecAssumption

(* Every step of the plugin is one of Exec, or leaves its variables alone. *)
LEMMA ExecPart == PluginNext => [ExecNext]_execVars
<1> SUFFICES ASSUME PluginNext PROVE ExecNext \/ UNCHANGED execVars
  OBVIOUS
<1>1. ASSUME NEW v \in VCPU, NEW b \in Block, NEW keep \in BOOLEAN, Translate(v, b, keep)
      PROVE  UNCHANGED execVars
  BY <1>1 DEF Translate
<1>2. ASSUME NEW v \in VCPU, NEW b \in Block, Start(v, b) PROVE ExecNext
  BY <1>2 DEF Start, ExecNext, ExecVcpu
<1>3. ASSUME NEW v \in VCPU, Callbacks(v) PROVE ExecNext
  BY <1>3 DEF Callbacks, ExecNext, ExecVcpu
<1>4. ASSUME NEW v \in VCPU, NEW i \in Inst, NEW b \in RunsBlock[v],
             Interrupt(v, PcOf(i), start[b])
      PROVE  ExecNext
  BY <1>4 DEF Interrupt, ExecNext, ExecVcpu
<1>5. CASE Flush
  BY <1>5 DEF Flush, ExecNext
<1>6. CASE Exit
  BY <1>6 DEF Exit
<1>7. ASSUME NEW a \in Store!Addr, Invalidate(a) PROVE UNCHANGED execVars
  BY <1>7 DEF Invalidate
<1>. QED
  BY <1>1, <1>2, <1>3, <1>4, <1>5, <1>6, <1>7 DEF PluginNext

(* What the callbacks of one vCPU do to where it is, as the store sees it. *)
LEMMA CallbackPlace ==
  ASSUME PluginInv, NEW v \in VCPU,
         Callbacks(v) \/ \E src, to : Interrupt(v, src, to)
  PROVE  /\ \/ at' = at
            \/ at[v].step # "out" /\ \E s \in Steps \ {"out"}, n \in Nat :
                 at' = [at EXCEPT ![v] = [step |-> s, block |-> at[v].block, n |-> n]]
            \/ at' = [at EXCEPT ![v] = Out]
         /\ UNCHANGED <<storeVars, fileVars>>
<1>1. PlaceInv
  BY DEF PluginInv, RecordInv
<1>2. UNCHANGED <<storeVars, fileVars>>
  BY DEF Callbacks, Interrupt
<1>3. ASSUME NEW s \in Steps \ {"out"}, at[v].step # "out", at' = [at EXCEPT ![v].step = s]
      PROVE  \E n \in Nat : at' = [at EXCEPT ![v] = [step |-> s, block |-> at[v].block, n |-> n]]
  <2>1. at[v] \in [step : Steps, block : Block \cup {None}, n : Nat]
    BY <1>1 DEF PlaceInv
  <2>2. [at[v] EXCEPT !.step = s] = [step |-> s, block |-> at[v].block, n |-> at[v].n]
    BY <2>1
  <2>3. at[v].n \in Nat
    BY <2>1
  <2>4. at' = [at EXCEPT ![v] = [step |-> s, block |-> at[v].block, n |-> at[v].n]]
    BY <1>3, <2>2
  <2>. QED
    BY <2>3, <2>4
<1>4. CASE FindNew(v) \/ MarkValid(v) \/ Number(v) \/ FirstAgain(v) \/ InstAgain(v)
           \/ FirstSet(v) \/ InstSet(v)
  <2>1. /\ at[v].step # "out"
        /\ \/ at' = [at EXCEPT ![v].step = "mark"] \/ at' = [at EXCEPT ![v].step = "number"]
           \/ at' = [at EXCEPT ![v].step = "set"] \/ at' = [at EXCEPT ![v].step = "body"]
    BY <1>4 DEF FindNew, MarkValid, Number, FirstAgain, InstAgain, FirstSet, InstSet, Step
  <2>2. {"mark", "number", "set", "body"} \subseteq Steps \ {"out"}
    BY DEF Steps
  <2>. QED
    BY <1>2, <1>3, <2>1, <2>2
<1>5. CASE NextInst(v)
  <2> DEFINE n == at[v].n + 1
  <2>1. /\ at[v].step # "out" /\ at[v].n \in Nat
        /\ \/ at' = [at EXCEPT ![v] = [step |-> "call", block |-> at[v].block, n |-> n]]
           \/ at' = [at EXCEPT ![v] = Out]
    BY <1>1, <1>5 DEF NextInst, PlaceInv
  <2>2. n \in Nat /\ "call" \in Steps \ {"out"}
    BY <2>1 DEF Steps
  <2> HIDE DEF n
  <2>. QED
    BY <1>2, <2>1, <2>2
<1>6. CASE at' = at \/ at' = [at EXCEPT ![v] = Out]
  BY <1>2, <1>6
<1>. QED
  BY <1>4, <1>5, <1>6 DEF Callbacks, Interrupt, VcpuInit, Idle, Resume, Discon

(* Every step of the plugin is one of the block store, or leaves its variables *)
(* alone: the callbacks keep a vCPU inside its block or let it out.          *)
LEMMA StorePart ==
  ASSUME PluginInv, PluginNext
  PROVE  StoreProofs!Next \/ UNCHANGED StoreProofs!vars
<1>1. ASSUME NEW v \in VCPU, NEW b \in Block, NEW keep \in BOOLEAN, Translate(v, b, keep)
      PROVE  StoreProofs!Next
  <2>1. StoreProofs!Trans(v, Span(b), keep) /\ Span(b) \in Spans
    BY <1>1, SameTrans DEF Translate, Spans
  <2>. QED
    BY <2>1 DEF StoreProofs!Next
<1>2. ASSUME NEW v \in VCPU, NEW b \in Block, Start(v, b) PROVE StoreProofs!Next
  <2>1. StoreProofs!Exec(v, id[b])
    BY <1>2, SameOthers DEF Start
  <2>2. id[b] \in cached
    BY <2>1 DEF StoreProofs!Exec
  <2>. QED
    BY <2>1, <2>2 DEF StoreProofs!Next
<1>3. ASSUME NEW v \in VCPU, Callbacks(v) \/ \E src, to : Interrupt(v, src, to)
      PROVE  StoreProofs!Next \/ UNCHANGED StoreProofs!vars
  <2>1. UNCHANGED storeVars /\ UNCHANGED <<id, SpanOf>>
    <3>1. UNCHANGED storeVars
      BY <1>3, CallbackPlace
    <3>. QED
      BY <3>1 DEF storeVars, SpanOf, Translated
  <2>2. at \in [VCPU -> [step : Steps, block : Block \cup {None}, n : Nat]]
    BY DEF PluginInv, RecordInv, PlaceInv
  <2>3. CASE UNCHANGED InBlock
    BY <2>1, <2>3 DEF storeVars, StoreProofs!vars
  <2>4. CASE at' = at
    BY <2>1, <2>3, <2>4 DEF InBlock
  <2>5. ASSUME at[v].step # "out", NEW s \in Steps \ {"out"}, NEW n \in Nat,
               at' = [at EXCEPT ![v] = [step |-> s, block |-> at[v].block, n |-> n]]
        PROVE  UNCHANGED InBlock
    BY <2>1, <2>2, <2>5 DEF InBlock
  <2>6. CASE at' = [at EXCEPT ![v] = Out] /\ at[v].step = "out"
    BY <2>1, <2>2, <2>3, <2>6 DEF InBlock, Out
  <2>7. CASE at' = [at EXCEPT ![v] = Out] /\ at[v].step # "out"
    <3>1. InBlock' = [InBlock EXCEPT ![v] = None]
      BY <2>1, <2>2, <2>7 DEF InBlock, Out
    <3>2. InBlock[v] # None
      BY <2>7 DEF InBlock, PluginInv, InsideInv
    <3>3. StoreProofs!LeaveTb(v)
      BY <2>1, <3>1, <3>2 DEF StoreProofs!LeaveTb, storeVars
    <3>. QED
      BY <3>3 DEF StoreProofs!Next
  <2>. QED
    BY <1>3, <2>3, <2>4, <2>5, <2>6, <2>7, CallbackPlace
<1>4. CASE Flush
  BY <1>4, SameOthers DEF Flush, StoreProofs!Next
<1>5. CASE Exit
  BY <1>5, SameOthers DEF Exit, StoreProofs!Next
<1>6. ASSUME NEW a \in Store!Addr, Invalidate(a) PROVE StoreProofs!Next
  BY <1>6, SameOthers, SameSets DEF Invalidate, StoreProofs!Next
<1>. QED
  BY <1>1, <1>2, <1>3, <1>4, <1>5, <1>6 DEF PluginNext
-----------------------------------------------------------------------------
(* The block store keeps its own invariant. *)
LEMMA StoreStep ==
  ASSUME PluginInv, PluginNext \/ UNCHANGED pluginVars
  PROVE  StoreProofs!StoreInv'
<1>1. StoreProofs!StoreInv
  BY DEF PluginInv
<1>2. StoreProofs!Next \/ UNCHANGED StoreProofs!vars
  <2>1. CASE PluginNext
    BY <2>1, StorePart
  <2>2. CASE UNCHANGED pluginVars
    BY <2>2 DEF pluginVars, execVars, storeVars, StoreProofs!vars, SpanOf, Translated, InBlock
  <2>. QED
    BY <2>1, <2>2
<1>3. StoreProofs!TypeOK'
  BY <1>1, <1>2, StoreAssumptions, StoreProofs!TypeStep
<1>4. StoreProofs!MapInv'
  BY <1>1, <1>2, StoreAssumptions, StoreProofs!MapStep
<1>5. StoreProofs!OneHome' /\ StoreProofs!FreshInv'
  BY <1>1, <1>2, StoreAssumptions, StoreProofs!HomeStep
<1>6. StoreProofs!UseInv'
  BY <1>1, <1>2, StoreAssumptions, StoreProofs!UseStep
<1>. QED
  BY <1>3, <1>4, <1>5, <1>6 DEF StoreProofs!StoreInv

(* The facts of the store that the records rest on: a block's id is one of    *)
(* the store's, and a block that a vCPU is inside was not written yet.        *)
LEMMA StoreFacts ==
  ASSUME PluginInv
  PROVE  /\ global_block_id \in Nat
         /\ \A b \in Block : id[b] # None => id[b] \in StoreProofs!BlockId
         /\ \A i \in StoreProofs!BlockId : written[i] \in Nat /\ block_graveyard[i] \in Nat
         /\ \A v \in VCPU : at[v].step # "out" =>
              /\ at[v].block \in Block /\ id[at[v].block] \in StoreProofs!InUse
              /\ written[id[at[v].block]] = 0
<1>1. StoreProofs!TypeOK /\ StoreProofs!UseInv
  BY DEF PluginInv, StoreProofs!StoreInv
<1>2. global_block_id \in 0 .. Cardinality(Block) /\ Cardinality(Block) \in Nat
  BY <1>1, PluginAssumption, FS_CardinalityType DEF StoreProofs!TypeOK
<1>3. \A b \in Block : id[b] # None => id[b] \in StoreProofs!BlockId
  <2> SUFFICES ASSUME NEW b \in Block, id[b] # None PROVE id[b] \in StoreProofs!BlockId
    OBVIOUS
  <2>1. id[b] \in Nat /\ id[b] < global_block_id
    BY DEF PluginInv, IdInv
  <2>. QED
    BY <1>2, <2>1 DEF StoreProofs!BlockId
<1>4. \A i \in StoreProofs!BlockId : written[i] \in Nat /\ block_graveyard[i] \in Nat
  BY <1>1 DEF StoreProofs!TypeOK
<1>5. ASSUME NEW v \in VCPU, at[v].step # "out"
      PROVE  /\ at[v].block \in Block /\ id[at[v].block] \in StoreProofs!InUse
             /\ written[id[at[v].block]] = 0
  <2>1. at[v].block \in Block /\ id[at[v].block] # None
    BY <1>5 DEF PluginInv, RecordInv, PlaceInv, InsideInv
  <2>2. InBlock[v] = id[at[v].block]
    BY <1>5 DEF InBlock
  <2>3. id[at[v].block] \in StoreProofs!InUse
    BY <2>1, <2>2 DEF StoreProofs!InUse
  <2>. QED
    BY <1>1, <2>1, <2>3 DEF StoreProofs!UseInv
<1>. QED
  BY <1>2, <1>3, <1>4, <1>5

(* What a translation does to the ids. *)
LEMMA TranslateIds ==
  ASSUME NEW v \in VCPU, NEW b \in Block, NEW keep \in BOOLEAN, Translate(v, b, keep)
  PROVE  /\ b \in Block /\ id[b] = None
         /\ id' = [id EXCEPT ![b] = global_block_id]
         /\ global_block_id' = global_block_id + 1
         /\ UNCHANGED <<execVars, written, curr_ids>>
  BY DEF Translate, Store!Trans

(* The other steps leave the ids alone. *)
LEMMA OtherIds ==
  ASSUME PluginInv, PluginNext,
         ~\E v \in VCPU, b \in Block, keep \in BOOLEAN : Translate(v, b, keep)
  PROVE  UNCHANGED <<id, global_block_id>>
  BY DEF PluginNext, Start, Callbacks, Interrupt, Flush, Exit, Invalidate, storeVars,
         Store!Exec, Store!TbFlush, Store!AtExit, Store!Invalidate

LEMMA IdStep ==
  ASSUME PluginInv, PluginNext \/ UNCHANGED pluginVars
  PROVE  IdInv'
<1>1. IdInv /\ global_block_id \in Nat
  BY StoreFacts DEF PluginInv
<1>2. ASSUME NEW v \in VCPU, NEW b \in Block, NEW keep \in BOOLEAN, Translate(v, b, keep)
      PROVE  IdInv'
  BY <1>1, <1>2, TranslateIds, NoneFacts DEF IdInv
<1>3. CASE UNCHANGED <<id, global_block_id>>
  BY <1>1, <1>3 DEF IdInv
<1>. QED
  BY <1>2, <1>3, OtherIds DEF pluginVars, storeVars

LEMMA InsideStep ==
  ASSUME PluginInv, PluginNext \/ UNCHANGED pluginVars
  PROVE  InsideInv'
<1>1. /\ InsideInv /\ PlaceInv /\ id \in [Block -> Nat \cup {None}]
      /\ global_block_id \in Nat
  BY StoreFacts DEF PluginInv, RecordInv, IdInv
<1>2. ASSUME NEW v \in VCPU, NEW b \in Block, NEW keep \in BOOLEAN, Translate(v, b, keep)
      PROVE  InsideInv'
  <2>1. \A c \in Block : id[c] # None => id'[c] # None
    BY <1>1, <1>2, TranslateIds, NoneFacts
  <2>2. UNCHANGED at
    BY <1>2, TranslateIds DEF execVars
  <2>. QED
    BY <1>1, <2>1, <2>2 DEF InsideInv, PlaceInv
<1>3. ASSUME NEW v \in VCPU, NEW b \in Block, Start(v, b) PROVE InsideInv'
  <2>1. /\ at' = [at EXCEPT ![v] = [step |-> "call", block |-> b, n |-> 1]]
        /\ id[b] # None /\ UNCHANGED id
    BY <1>3 DEF Start, Enter
  <2>. QED
    BY <1>1, <2>1 DEF InsideInv, PlaceInv
<1>4. ASSUME NEW v \in VCPU, Callbacks(v) \/ \E src, to : Interrupt(v, src, to)
      PROVE  InsideInv'
  <2>1. UNCHANGED id
    BY <1>4, CallbackPlace DEF storeVars
  <2>2. \/ at' = at
        \/ at[v].step # "out" /\ \E s \in Steps \ {"out"}, n \in Nat :
             at' = [at EXCEPT ![v] = [step |-> s, block |-> at[v].block, n |-> n]]
        \/ at' = [at EXCEPT ![v] = Out]
    BY <1>4, CallbackPlace
  <2>3. Out.step = "out"
    BY DEF Out
  <2>. QED
    BY <1>1, <2>1, <2>2, <2>3 DEF InsideInv, PlaceInv
<1>5. CASE UNCHANGED <<id, at>>
  BY <1>1, <1>5 DEF InsideInv
<1>6. CASE Flush \/ Exit \/ (\E a \in Store!Addr : Invalidate(a)) \/ UNCHANGED pluginVars
  BY <1>5, <1>6 DEF Flush, TbFlush, Exit, Invalidate, pluginVars, storeVars, execVars
<1>. QED
  BY <1>2, <1>3, <1>4, <1>6 DEF PluginNext

(* A step writes only to the record of an instruction some vCPU is at. *)
LEMMA RecordsTouched ==
  ASSUME PluginInv, NEW v \in VCPU,
         Callbacks(v) \/ \E src, to : Interrupt(v, src, to)
  PROVE  \A j \in Inst : insts'[j] # insts[j] => at[v].step # "out" /\ j = At(v)
<1>1. insts \in [Inst -> Record]
  BY DEF PluginInv, RecordInv, CellInv
<1>2. \/ insts' = insts
      \/ at[v].step # "out" /\ (\/ insts' = [insts EXCEPT ![At(v)].fvalid = TRUE]
                                \/ insts' = [insts EXCEPT ![At(v)].real_pc = RealAddress(v)]
                                \/ insts' = [insts EXCEPT ![At(v)].prev_real_pc = curr_pc[v]]
                                \/ insts' = [insts EXCEPT ![At(v)].prev_real_pc = curr_pc[v],
                                                          ![At(v)].fvalid_prev_real_pc = TRUE])
  BY DEF Callbacks, Interrupt, VcpuInit, FindNew, MarkValid, Number, FirstAgain, InstAgain,
         FirstSet, InstSet, NextInst, Idle, Resume, Discon
<1>. QED
  BY <1>1, <1>2

(* What is in the file stays there, as it is. *)
LEMMA SavedStays ==
  ASSUME PluginInv, SaveBlocks, UNCHANGED insts,
         \A b \in Block : saved[b] # None => id'[b] = id[b] /\ written'[id[b]] > 0
  PROVE  FileInv'
<1> SUFFICES ASSUME NEW b \in Block, saved'[b] # None
             PROVE  id'[b] # None /\ written'[id'[b]] > 0 /\ saved'[b] = Snapshot(b)'
  BY DEF FileInv
<1>1. Snapshot(b)' = Snapshot(b)
  BY DEF Snapshot
<1>2. CASE saved[b] = None
  BY <1>1, <1>2 DEF SaveBlocks, WrittenBy
<1>3. CASE saved[b] # None
  BY <1>1, <1>3 DEF SaveBlocks, PluginInv, FileInv
<1>. QED
  BY <1>2, <1>3

LEMMA FileStep ==
  ASSUME PluginInv, PluginNext \/ UNCHANGED pluginVars
  PROVE  FileInv'
<1>1. \A b \in Block : saved[b] # None =>
        /\ id[b] \in StoreProofs!BlockId /\ written[id[b]] > 0
        /\ written[id[b]] \in Nat /\ block_graveyard[id[b]] \in Nat
  BY StoreFacts DEF PluginInv, FileInv
<1>2. ASSUME NEW v \in VCPU, NEW b \in Block, NEW keep \in BOOLEAN, Translate(v, b, keep)
      PROVE  FileInv'
  <2>1. SaveBlocks
    BY <1>2 DEF Translate
  <2>2. \A c \in Block : saved[c] # None => id[c] # None
    BY DEF PluginInv, FileInv
  <2>3. UNCHANGED <<insts, written>> /\ id[b] = None /\ id' = [id EXCEPT ![b] = global_block_id]
    BY <1>2, TranslateIds DEF execVars
  <2>4. id \in [Block -> Nat \cup {None}]
    BY DEF PluginInv, IdInv
  <2>. QED
    BY <1>1, <2>1, <2>2, <2>3, <2>4, SavedStays
<1>3. ASSUME NEW v \in VCPU, Callbacks(v) \/ \E src, to : Interrupt(v, src, to)
      PROVE  FileInv'
  <2>1. UNCHANGED <<id, written, saved>>
    BY <1>3, CallbackPlace DEF storeVars, fileVars
  <2>2. ASSUME NEW b \in Block, saved[b] # None PROVE Snapshot(b)' = Snapshot(b)
    <3>1. at[v].step = "out" \/ at[v].block # b
      BY <1>1, <2>2, StoreFacts
    <3>2. \A n \in 1 .. Length[b] : <<b, n>> \in Inst
      BY <2>2 DEF Inst
    <3>3. \A n \in 1 .. Length[b] : insts'[<<b, n>>] = insts[<<b, n>>]
      BY <1>3, <3>1, <3>2, RecordsTouched DEF At
    <3>. QED
      BY <3>3 DEF Snapshot
  <2>. QED
    BY <2>1, <2>2 DEF FileInv, PluginInv
<1>4. CASE Flush
  <2>1. SaveBlocks /\ UNCHANGED <<insts, id>>
    BY <1>4 DEF Flush, TbFlush
  <2>2. \A i \in StoreProofs!BlockId : written'[i] = written[i] + block_graveyard[i]
    BY <1>4, SameSets DEF Flush, Store!TbFlush, Store!Flushed
  <2>. QED
    BY <1>1, <2>1, <2>2, SavedStays
<1>5. CASE Exit
  <2>1. SaveBlocks /\ UNCHANGED <<insts, id>>
    BY <1>5 DEF Exit, execVars
  <2>2. \A i \in StoreProofs!BlockId :
          StoreProofs!Cardinality({a \in StoreProofs!Addr : blocks[a] = i}) \in Nat
    <3>1. StoreProofs!MapInv
      BY DEF PluginInv, StoreProofs!StoreInv
    <3>. QED
      BY <3>1, StoreAssumptions, StoreProofs!EntryCount
  <2>3. \A i \in StoreProofs!BlockId :
          written'[i] = written[i] + block_graveyard[i]
                        + StoreProofs!Cardinality({a \in StoreProofs!Addr : blocks[a] = i})
    BY <1>5, SameOthers DEF Exit, StoreProofs!AtExit, StoreProofs!Flushed
  <2>4. \A i \in StoreProofs!BlockId : \E k \in Nat : written'[i] = written[i] + block_graveyard[i] + k
    BY <2>2, <2>3
  <2>. QED
    BY <1>1, <2>1, <2>4, SavedStays
<1>6. CASE UNCHANGED <<insts, id, written, saved>>
  BY <1>6 DEF FileInv, Snapshot, PluginInv
<1>7. ASSUME NEW v \in VCPU, NEW b \in Block, Start(v, b) PROVE FileInv'
  BY <1>6, <1>7 DEF Start, Enter, Store!Exec, fileVars
<1>8. ASSUME NEW a \in Store!Addr, Invalidate(a) PROVE FileInv'
  BY <1>6, <1>8 DEF Invalidate, Store!Invalidate, fileVars, execVars
<1>9. CASE UNCHANGED pluginVars
  BY <1>6, <1>9 DEF pluginVars, execVars, storeVars, fileVars
<1>. QED
  BY <1>2, <1>3, <1>4, <1>5, <1>7, <1>8, <1>9 DEF PluginNext

(* What one vCPU's log promises, given the ids of the blocks. *)
LogEntry == [src : Nat, id : Nat, from : Inst \cup {None}]
Covers(c) == c.from # None => id[c.from[1]] # None /\ id[c.from[1]] < c.id

LEMMA LogStep ==
  ASSUME PluginInv, PluginNext \/ UNCHANGED pluginVars
  PROVE  LogInv'
<1>1. /\ curr_ids \in [VCPU -> Seq(LogEntry)]
      /\ \A v \in VCPU : \A n \in DOMAIN curr_ids[v] : Covers(curr_ids[v][n])
  BY DEF PluginInv, LogInv, IdsCoverSource, LogEntry, Covers
<1>2. ASSUME curr_ids' \in [VCPU -> Seq(LogEntry)],
             \A v \in VCPU : \A n \in DOMAIN curr_ids'[v] :
               LET c == curr_ids'[v][n]
               IN c.from # None => id'[c.from[1]] # None /\ id'[c.from[1]] < c.id
      PROVE  LogInv'
  BY <1>2 DEF LogInv, IdsCoverSource, LogEntry
<1>3. CASE UNCHANGED <<curr_ids, id>>
  BY <1>1, <1>2, <1>3 DEF Covers
<1>4. ASSUME NEW v \in VCPU, NEW b \in Block, NEW keep \in BOOLEAN, Translate(v, b, keep)
      PROVE  LogInv'
  <2>1. UNCHANGED curr_ids /\ id[b] = None /\ id' = [id EXCEPT ![b] = global_block_id]
    BY <1>4, TranslateIds
  <2>2. id \in [Block -> Nat \cup {None}]
    BY DEF PluginInv, IdInv
  <2>3. \A c \in Block : id[c] # None => id'[c] = id[c]
    BY <2>1, <2>2
  <2>4. \A w \in VCPU : \A n \in DOMAIN curr_ids[w] :
          curr_ids[w][n] \in LogEntry /\ Covers(curr_ids[w][n])
    BY <1>1
  <2>5. \A c \in LogEntry : c.from # None => c.from[1] \in Block
    BY DEF LogEntry, Inst
  <2>. QED
    BY <1>1, <1>2, <2>1, <2>3, <2>4, <2>5 DEF Covers
<1>5. ASSUME NEW v \in VCPU, NEW i \in Inst, NEW b \in RunsBlock[v],
             Interrupt(v, PcOf(i), start[b])
      PROVE  LogInv'
  <2> DEFINE f == IF at[v].step = "body" THEN At(v) ELSE None
             e == [src |-> PcOf(i), id |-> global_block_id, from |-> f]
  <2>1. curr_ids' = [curr_ids EXCEPT ![v] = Append(curr_ids[v], e)] /\ UNCHANGED id
    BY <1>5 DEF Interrupt, CurrId, storeVars
  <2>2. f \in Inst \cup {None} /\ PcOf(i) \in Nat /\ global_block_id \in Nat
    <3>1. PlaceInv
      BY DEF PluginInv, RecordInv
    <3>2. f \in Inst \cup {None}
      BY <3>1, AtInst
    <3>3. PcOf(i) \in Nat
      <4>1. PICK c \in Block : i \in {c} \X (1 .. Length[c])
        BY DEF Inst
      <4>2. i[1] = c /\ i[2] \in Nat \ {0} /\ start[c] \in Nat
        BY <4>1, PluginAssumption, ExecAssumption
      <4>. QED
        BY <4>2 DEF PcOf
    <3>. QED
      BY <3>2, <3>3, StoreFacts
  <2>3. e \in LogEntry
    BY <2>2 DEF LogEntry
  <2>4. Covers(e)
    <3> SUFFICES ASSUME at[v].step = "body"
                 PROVE  id[At(v)[1]] # None /\ id[At(v)[1]] < global_block_id
      BY DEF Covers
    <3>1. at[v].block \in Block /\ id[at[v].block] # None /\ At(v)[1] = at[v].block
      BY StoreFacts DEF PluginInv, InsideInv, At
    <3>. QED
      BY <3>1 DEF PluginInv, IdInv
  <2> HIDE DEF e
  <2>5. /\ Append(curr_ids[v], e) \in Seq(LogEntry)
        /\ \A n \in DOMAIN Append(curr_ids[v], e) : Covers(Append(curr_ids[v], e)[n])
    <3>1. curr_ids[v] \in Seq(LogEntry) /\ \A n \in DOMAIN curr_ids[v] : Covers(curr_ids[v][n])
      BY <1>1
    <3> DEFINE s == curr_ids[v]
    <3>2. \A n \in DOMAIN Append(s, e) : Append(s, e)[n] = e \/ (n \in DOMAIN s /\ Append(s, e)[n] = s[n])
      BY <2>3, <3>1
    <3>3. Append(s, e) \in Seq(LogEntry)
      BY <2>3, <3>1
    <3>. QED
      BY <2>4, <3>1, <3>2, <3>3
  <2>6. /\ curr_ids' \in [VCPU -> Seq(LogEntry)]
        /\ \A w \in VCPU : \A n \in DOMAIN curr_ids'[w] : Covers(curr_ids'[w][n])
    BY <1>1, <2>1, <2>5
  <2>. QED
    BY <1>2, <2>1, <2>6 DEF Covers
<1>6. CASE Flush
  <2>1. curr_ids' = [v \in VCPU |-> <<>>]
    BY <1>6 DEF Flush
  <2>. QED
    BY <1>2, <2>1
<1>7. CASE \/ \E v \in VCPU, b \in Block : Start(v, b)
           \/ \E v \in VCPU : Callbacks(v)
           \/ Exit \/ (\E a \in Store!Addr : Invalidate(a)) \/ UNCHANGED pluginVars
  BY <1>3, <1>7 DEF Start, Callbacks, Exit, Invalidate, pluginVars, storeVars
<1>. QED
  BY <1>4, <1>5, <1>6, <1>7 DEF PluginNext

LEMMA PluginStep == PluginInv /\ [PluginNext]_pluginVars => PluginInv'
<1> SUFFICES ASSUME PluginInv, PluginNext \/ UNCHANGED pluginVars PROVE PluginInv'
  OBVIOUS
<1>1. [ExecNext]_execVars
  BY ExecPart DEF pluginVars
<1>2. RecordInv'
  BY <1>1, RecordStep DEF PluginInv
<1>. QED
  BY <1>2, StoreStep, IdStep, InsideStep, FileStep, LogStep DEF PluginInv

LEMMA PluginInitInv == PluginInit => PluginInv
<1> SUFFICES ASSUME PluginInit PROVE PluginInv
  OBVIOUS
<1>1. RecordInv
  BY RecordInit DEF PluginInit
<1>2. StoreProofs!StoreInv
  BY SameInit, StoreAssumptions, StoreProofs!StoreInit DEF PluginInit
<1>3. IdInv
  BY DEF PluginInit, IdInv
<1>4. InsideInv
  BY DEF PluginInit, ExecInit, InsideInv, Out
<1>5. FileInv
  BY DEF PluginInit, FileInv
<1>6. LogInv
  BY DEF PluginInit, LogInv, IdsCoverSource
<1>. QED
  BY <1>1, <1>2, <1>3, <1>4, <1>5, <1>6 DEF PluginInv

LEMMA PluginInvariant == PluginSpec => []PluginInv
  BY PluginInitInv, PluginStep, PTL DEF PluginSpec

-----------------------------------------------------------------------------
(* The plugin's block store behaves as Translation says, so that all that is  *)
(* proved of Translation holds of the plugin.                               *)
THEOREM PluginKeepsStore == PluginSpec => StoreKept
<1>1. PluginInit => Store!Init
  BY DEF PluginInit
<1>2. PluginInv /\ [PluginNext]_pluginVars => [Store!Next]_(Store!vars)
  <2>1. ASSUME UNCHANGED pluginVars PROVE UNCHANGED Store!vars
    BY <2>1 DEF pluginVars, execVars, storeVars, Store!vars, SpanOf, Translated, InBlock
  <2>2. ASSUME PluginInv, PluginNext PROVE Store!Next \/ UNCHANGED Store!vars
    BY <2>2, StorePart, SameNext DEF Store!vars, StoreProofs!vars
  <2>. QED
    BY <2>1, <2>2
<1>. QED
  BY <1>1, <1>2, PluginInvariant, PTL DEF PluginSpec, StoreKept, Store!Spec

(* The records of a block that a vCPU is inside are alive and not saved yet. *)
THEOREM RecordsStayAlive == PluginSpec => []RecordsAlive
<1>1. PluginInv => RecordsAlive
  <2> SUFFICES ASSUME PluginInv PROVE RecordsAlive
    OBVIOUS
  <2>1. \A i \in StoreProofs!InUse : i \in StoreProofs!Alive
    <3> SUFFICES ASSUME NEW i \in StoreProofs!InUse PROVE i \in StoreProofs!Alive
      OBVIOUS
    <3>1. i \in StoreProofs!Issued /\ i \in StoreProofs!BlockId /\ written[i] = 0
      <4>1. i \in StoreProofs!Issued /\ written[i] = 0
        BY DEF PluginInv, StoreProofs!StoreInv, StoreProofs!UseInv
      <4>2. global_block_id \in 0 .. Cardinality(Block) /\ Cardinality(Block) \in Nat
        BY PluginAssumption, FS_CardinalityType
        DEF PluginInv, StoreProofs!StoreInv, StoreProofs!TypeOK
      <4>. QED
        BY <4>1, <4>2 DEF StoreProofs!Issued, StoreProofs!BlockId
    <3>2. i \in StoreProofs!Mapped \/ block_graveyard[i] > 0
      BY <3>1 DEF PluginInv, StoreProofs!StoreInv, StoreProofs!OneHome, StoreProofs!TypeOK
    <3>. QED
      BY <3>1, <3>2 DEF StoreProofs!Alive
  <2>2. Store!NoUseAfterFree
    BY <2>1, SameSets DEF Store!NoUseAfterFree
  <2>. QED
    BY <2>1, <2>2, StoreFacts, SameSets DEF RecordsAlive
<1>. QED
  BY <1>1, PluginInvariant, PTL

(* No callback changes a block that is in the save file. *)
THEOREM SavedBlocksAreFinal == PluginSpec => []SavedIsFinal
<1>1. PluginInv => SavedIsFinal
  BY DEF PluginInv, FileInv, SavedIsFinal
<1>. QED
  BY <1>1, PluginInvariant, PTL

(* The id of an interrupt is above the id of the block it came from. *)
THEOREM IdsAreLarge == PluginSpec => []IdsCoverSource
<1>1. PluginInv => IdsCoverSource
  BY DEF PluginInv, LogInv
<1>. QED
  BY <1>1, PluginInvariant, PTL

(* Inside the plugin, too, inst() never finds curr_pc empty, and with all      *)
(* vCPUs initialised first no number is given twice: a plugin's step is one    *)
(* of Exec.                                                                *)
THEOREM PluginKeepsRecords == PluginSpec => ExecSpec
<1>1. PluginInit => ExecInit
  BY DEF PluginInit
<1>2. [PluginNext]_pluginVars => [ExecNext]_execVars
  BY ExecPart DEF pluginVars
<1>. QED
  BY <1>1, <1>2, PTL DEF PluginSpec, ExecSpec

-----------------------------------------------------------------------------
(* How each instruction was reached: within a block from the one before it,   *)
(* and what a record calls the predecessor did run right before.            *)
PathInv ==
  /\ entered \in [Inst -> SUBSET (stored \cup {None})]
  /\ \A v \in VCPU :
       /\ at[v].step = "body" => ran[v] = At(v)
       /\ at[v].step \in {"call", "mark", "number", "set"} /\ at[v].n > 1 =>
            ran[v] = <<at[v].block, at[v].n - 1>>
       /\ at[v].step \in {"number", "set"} /\ at[v].n > 1 =>
            ran[v] \in preds[At(v)] \cup entered[At(v)]
  /\ \A i \in Inst : i[2] > 1 => preds[i] \subseteq {<<i[1], i[2] - 1>>}
  /\ \A i \in Inst : insts[i].prev_real_pc # 0 =>
       \E p \in preds[i] \cup entered[i] : RealOf(p) = insts[i].prev_real_pc

(* What was seen before an instruction is only added to. *)
LEMMA WaysStay ==
  ASSUME RanInv, EdgeEnds, PathInv, NEW v \in VCPU, ExecVcpu(v)
  PROVE  /\ \/ preds' = preds
            \/ /\ FirstAgain(v) \/ InstAgain(v)
               /\ preds' = [preds EXCEPT ![At(v)] = @ \cup {ran[v]}]
         /\ \/ entered' = entered
            \/ MarkValid(v) /\ entered' = [entered EXCEPT ![At(v)] = @ \cup {ran[v]}]
         /\ \A i \in Inst : preds[i] \subseteq preds'[i] /\ entered[i] \subseteq entered'[i]
         /\ \A w \in VCPU : w # v => ran'[w] = ran[w]
<1>0. /\ entered \in [Inst -> SUBSET (stored \cup {None})]
      /\ preds \in [Inst -> SUBSET (stored \cup {None})]
      /\ ran \in [VCPU -> stored \cup {None}]
  BY DEF PathInv, EdgeEnds, RanInv
<1>1. \/ preds' = preds
      \/ /\ FirstAgain(v) \/ InstAgain(v)
         /\ preds' = [preds EXCEPT ![At(v)] = @ \cup {ran[v]}]
  BY DEF ExecVcpu, VcpuInit, Enter, FindNew, MarkValid, Number, FirstAgain, InstAgain,
         FirstSet, InstSet, NextInst, Discon, Idle, Resume, Capture, history
<1>2. \/ entered' = entered
      \/ MarkValid(v) /\ entered' = [entered EXCEPT ![At(v)] = @ \cup {ran[v]}]
  BY DEF ExecVcpu, VcpuInit, Enter, FindNew, MarkValid, Number, FirstAgain, InstAgain,
         FirstSet, InstSet, NextInst, Discon, Idle, Resume, Capture, history
<1>3. ran' = ran \/ \E x : ran' = [ran EXCEPT ![v] = x]
  BY DEF ExecVcpu, VcpuInit, Enter, FindNew, MarkValid, Number, FirstAgain, InstAgain,
         FirstSet, InstSet, NextInst, Discon, Idle, Resume, Capture, history
<1>4. \A w \in VCPU : w # v => ran'[w] = ran[w]
  BY <1>0, <1>3
<1>5. \A i \in Inst : preds[i] \subseteq preds'[i] /\ entered[i] \subseteq entered'[i]
  BY <1>0, <1>1, <1>2
<1>. QED
  BY <1>1, <1>2, <1>4, <1>5

(* Where each vCPU was before, and what its steps add to the ways. *)
LEMMA PathPlaces ==
  ASSUME RecordInv, RecordedInv, PathInv, NEW v \in VCPU, ExecVcpu(v)
  PROVE  \A w \in VCPU :
           /\ at'[w].step = "body" => ran'[w] = At(w)'
           /\ at'[w].step \in {"call", "mark", "number", "set"} /\ at'[w].n > 1 =>
                ran'[w] = <<at'[w].block, at'[w].n - 1>>
           /\ at'[w].step \in {"number", "set"} /\ at'[w].n > 1 =>
                ran'[w] \in preds'[At(w)'] \cup entered'[At(w)']
<1>0. /\ RanInv /\ EdgeEnds
      /\ at \in [VCPU -> [step : Steps, block : Block \cup {None}, n : Nat]]
      /\ ran \in [VCPU -> stored \cup {None}]
      /\ entered \in [Inst -> SUBSET (stored \cup {None})]
      /\ preds \in [Inst -> SUBSET (stored \cup {None})]
  BY DEF RecordInv, PlaceInv, RecordedInv, RanInv, PathInv, EdgeEnds
<1>1. ASSUME NEW w \in VCPU, w # v
      PROVE  /\ at'[w].step = "body" => ran'[w] = At(w)'
             /\ at'[w].step \in {"call", "mark", "number", "set"} /\ at'[w].n > 1 =>
                  ran'[w] = <<at'[w].block, at'[w].n - 1>>
             /\ at'[w].step \in {"number", "set"} /\ at'[w].n > 1 =>
                  ran'[w] \in preds'[At(w)'] \cup entered'[At(w)']
  <2>1. at'[w] = at[w] /\ At(w)' = At(w) /\ ran'[w] = ran[w]
    BY <1>0, <1>1, OthersStay, WaysStay
  <2>2. at[w].step # "out" => At(w) \in Inst
    BY AtInst DEF RecordInv
  <2>. QED
    BY <1>0, <2>1, <2>2, WaysStay DEF PathInv
<1>2. ASSUME ran'[v] = ran[v], at[v].step \in {"call", "mark", "number"},
             at'[v].block = at[v].block, at'[v].n = at[v].n,
             at'[v].step \in {"mark", "number", "set"},
             \/ at'[v].step = "mark"
             \/ at[v].step = "number"
             \/ ran[v] \in preds'[At(v)] \cup entered'[At(v)]
      PROVE  /\ at'[v].step = "body" => ran'[v] = At(v)'
             /\ at'[v].step \in {"call", "mark", "number", "set"} /\ at'[v].n > 1 =>
                  ran'[v] = <<at'[v].block, at'[v].n - 1>>
             /\ at'[v].step \in {"number", "set"} /\ at'[v].n > 1 =>
                  ran'[v] \in preds'[At(v)'] \cup entered'[At(v)']
  <2>1. At(v)' = At(v) /\ At(v) \in Inst
    BY <1>2, AtInst DEF At, RecordInv
  <2>2. at[v].step = "number" /\ at[v].n > 1 => ran[v] \in preds'[At(v)] \cup entered'[At(v)]
    BY <1>0, <2>1, WaysStay DEF PathInv
  <2>. QED
    BY <1>2, <2>1, <2>2 DEF PathInv
<1>3. CASE FindNew(v)
  BY <1>0, <1>1, <1>2, <1>3 DEF FindNew, history
<1>4. CASE MarkValid(v)
  <2>1. At(v) \in Inst
    BY <1>4, AtInst DEF MarkValid, RecordInv
  <2>2. ran[v] \in entered'[At(v)]
    BY <1>0, <1>4, <2>1 DEF MarkValid
  <2>. QED
    BY <1>0, <1>1, <1>2, <1>4, <2>2 DEF MarkValid
<1>5. CASE Number(v)
  BY <1>0, <1>1, <1>2, <1>5 DEF Number
<1>6. CASE FirstAgain(v) \/ InstAgain(v)
  <2>1. At(v) \in Inst
    BY <1>6, AtInst DEF FirstAgain, InstAgain, RecordInv
  <2>2. /\ ran' = ran /\ at[v].step = "call"
        /\ at' = [at EXCEPT ![v].step = "set"]
        /\ preds' = [preds EXCEPT ![At(v)] = @ \cup {ran[v]}]
    BY <1>6 DEF FirstAgain, InstAgain
  <2>3. ran[v] \in preds'[At(v)]
    BY <1>0, <2>1, <2>2
  <2>. QED
    BY <1>0, <1>1, <1>2, <2>2, <2>3
<1>7. CASE FirstSet(v) \/ InstSet(v)
  <2>1. /\ ran' = [ran EXCEPT ![v] = At(v)] /\ at' = [at EXCEPT ![v].step = "body"]
    BY <1>7 DEF FirstSet, InstSet
  <2>2. at'[v].step = "body" /\ At(v)' = At(v) /\ ran'[v] = At(v)
    BY <1>0, <2>1 DEF At
  <2>. QED
    BY <1>1, <2>2
<1>8. CASE NextInst(v)
  <2>1. at[v].step = "body" /\ ran' = ran /\ ran[v] = At(v)
    BY <1>8 DEF NextInst, history, PathInv
  <2>2. CASE at[v].n < Length[at[v].block]
    <3>1. at'[v] = [step |-> "call", block |-> at[v].block, n |-> at[v].n + 1]
      BY <1>0, <1>8, <2>2 DEF NextInst
    <3>2. at[v].n \in Nat /\ (at[v].n + 1) - 1 = at[v].n
      BY <1>0
    <3>3. /\ at'[v].step = "call" /\ at'[v].block = at[v].block /\ at'[v].n = at[v].n + 1
          /\ ran'[v] = <<at[v].block, at[v].n>>
      BY <2>1, <3>1 DEF At
    <3>4. ran'[v] = <<at'[v].block, at'[v].n - 1>>
      BY <3>2, <3>3
    <3>. QED
      BY <1>1, <3>3, <3>4
  <2>3. CASE ~(at[v].n < Length[at[v].block])
    <3>1. at'[v].step = "out"
      BY <1>0, <1>8, <2>3 DEF NextInst, Out
    <3>. QED
      BY <1>1, <3>1
  <2>. QED
    BY <2>2, <2>3
<1>9. ASSUME NEW b \in Block, Enter(v, b) PROVE at'[v].step = "call" /\ at'[v].n = 1
  BY <1>0, <1>9 DEF Enter
<1>10. ASSUME NEW b \in RunsBlock[v], Discon(v, start[b]) PROVE at'[v].step = "out"
  BY <1>0, <1>10 DEF Discon, Out
<1>11. CASE Idle(v) \/ Resume(v)
  <2>1. at[v].step = "out" /\ at' = at
    <3>1. idling[v] => at[v].step = "out"
      BY DEF RecordInv, PlaceInv
    <3>. QED
      BY <1>11, <3>1 DEF Idle, Resume
  <2>. QED
    BY <1>1, <2>1
<1>12. CASE VcpuInit(v)
  <2>1. UNCHANGED <<at, ran, preds, entered>>
    BY <1>12 DEF VcpuInit, history
  <2>. QED
    BY <2>1 DEF PathInv, At
<1>. QED
  BY <1>1, <1>3, <1>4, <1>5, <1>6, <1>7, <1>8, <1>9, <1>10, <1>11, <1>12 DEF ExecVcpu

(* The predecessors of an instruction that is not the first of its block. *)
LEMMA PathWays ==
  ASSUME RecordInv, RecordedInv, PathInv, NEW v \in VCPU, ExecVcpu(v)
  PROVE  /\ entered' \in [Inst -> SUBSET (stored' \cup {None})]
         /\ \A i \in Inst : i[2] > 1 => preds'[i] \subseteq {<<i[1], i[2] - 1>>}
<1>0. /\ RanInv /\ EdgeEnds /\ NumberedOnce
      /\ ran \in [VCPU -> stored \cup {None}]
      /\ entered \in [Inst -> SUBSET (stored \cup {None})]
      /\ preds \in [Inst -> SUBSET (stored \cup {None})]
      /\ \A i \in stored : i \in stored'
  BY RealStays DEF RecordedInv, RanInv, PathInv, EdgeEnds
<1>1. entered' \in [Inst -> SUBSET (stored' \cup {None})]
  <2>1. entered' = entered \/ entered' = [entered EXCEPT ![At(v)] = @ \cup {ran[v]}]
    BY <1>0, WaysStay
  <2>. QED
    BY <1>0, <2>1
<1>2. ASSUME NEW i \in Inst, i[2] > 1 PROVE preds'[i] \subseteq {<<i[1], i[2] - 1>>}
  <2>1. preds[i] \subseteq {<<i[1], i[2] - 1>>}
    BY <1>2 DEF PathInv
  <2>2. CASE preds' = preds
    BY <2>1, <2>2
  <2>3. CASE /\ FirstAgain(v) \/ InstAgain(v)
             /\ preds' = [preds EXCEPT ![At(v)] = @ \cup {ran[v]}]
    <3>1. CASE i # At(v)
      BY <1>0, <2>1, <2>3, <3>1
    <3>2. CASE i = At(v)
      <4>1. at[v].block = i[1] /\ at[v].n = i[2] /\ at[v].step = "call"
        BY <2>3, <3>2 DEF At, FirstAgain, InstAgain
      <4>2. ran[v] = <<i[1], i[2] - 1>>
        BY <1>2, <4>1 DEF PathInv
      <4>. QED
        BY <1>0, <2>1, <2>3, <3>2, <4>2
    <3>. QED
      BY <3>1, <3>2
  <2>. QED
    BY <1>0, <2>2, <2>3, WaysStay
<1>. QED
  BY <1>1, <1>2

(* What a record names as its predecessor ran right before. *)
LEMMA PathRecords ==
  ASSUME RecordInv, RecordedInv, PathInv, NEW v \in VCPU, ExecVcpu(v),
         NEW i \in Inst, insts'[i].prev_real_pc # 0
  PROVE  \E p \in preds'[i] \cup entered'[i] : RealOf(p)' = insts'[i].prev_real_pc
<1>0. /\ RanInv /\ EdgeEnds /\ NumberedOnce /\ EntryUntouched
      /\ insts \in [Inst -> Record]
      /\ entered \in [Inst -> SUBSET (stored \cup {None})]
      /\ preds \in [Inst -> SUBSET (stored \cup {None})]
      /\ \A p \in stored \cup {None} : RealOf(p)' = RealOf(p)
  BY RealStays DEF RecordedInv, RecordInv, CellInv, RanInv, PathInv, EdgeEnds
<1>1. CASE insts'[i].prev_real_pc = insts[i].prev_real_pc
  <2>1. PICK p \in preds[i] \cup entered[i] : RealOf(p) = insts[i].prev_real_pc
    BY <1>1 DEF PathInv
  <2>2. p \in stored \cup {None} /\ p \in preds'[i] \cup entered'[i]
    BY <1>0, WaysStay
  <2>. QED
    BY <1>0, <1>1, <2>1, <2>2
<1>2. CASE InstSet(v)
  <2>1. /\ at[v].step = "set" /\ at[v].n > 1 /\ At(v) \in Inst
        /\ insts' = [insts EXCEPT ![At(v)].prev_real_pc = curr_pc[v]]
    BY <1>2, AtInst DEF InstSet, RecordInv
  <2>2. CASE i # At(v)
    BY <1>0, <1>1, <2>1, <2>2
  <2>3. CASE i = At(v)
    <3>1. insts'[i].prev_real_pc = curr_pc[v]
      BY <1>0, <2>1, <2>3 DEF Record
    <3>2. curr_pc[v] # None
      BY <2>1 DEF RecordInv, CurrInv
    <3>3. ran[v] # None /\ curr_pc[v] = RealOf(ran[v]) /\ ran[v] \in stored \cup {None}
      BY <1>0, <3>2 DEF RanInv, RealOf
    <3>4. ran[v] \in preds[i] \cup entered[i]
      BY <2>1, <2>3 DEF PathInv
    <3>5. ran[v] \in preds'[i] \cup entered'[i]
      BY <1>0, <3>4, WaysStay
    <3>. QED
      BY <1>0, <3>1, <3>3, <3>5
  <2>. QED
    BY <2>2, <2>3
<1>3. CASE ~InstSet(v)
  <2>1. CASE FirstSet(v)
    <3>1. at[v].block \in Block /\ At(v) = <<at[v].block, 1>>
      BY <2>1 DEF FirstSet, RecordInv, PlaceInv, At
    <3>2. insts[At(v)].fvalid_prev_real_pc
      BY <1>0, <3>1 DEF EntryUntouched
    <3>3. insts' = insts
      BY <2>1, <3>2 DEF FirstSet
    <3>. QED
      BY <1>1, <3>3
  <2>2. CASE MarkValid(v)
    BY <1>0, <1>1, <2>2 DEF MarkValid, Record
  <2>3. CASE Number(v)
    BY <1>0, <1>1, <2>3 DEF Number, Record
  <2>4. CASE insts' = insts
    BY <1>1, <2>4
  <2>. QED
    BY <1>3, <2>1, <2>2, <2>3, <2>4
       DEF ExecVcpu, VcpuInit, Enter, FindNew, FirstAgain, InstAgain, NextInst, Discon, Idle, Resume
<1>. QED
  BY <1>2, <1>3

LEMMA PathStep ==
  ASSUME RecordInv, RecordedInv, PathInv, [ExecNext]_execVars
  PROVE  PathInv'
<1>1. ASSUME NEW v \in VCPU, ExecVcpu(v) PROVE PathInv'
  BY <1>1, PathPlaces, PathWays, PathRecords DEF PathInv
<1>2. CASE TbFlush \/ UNCHANGED execVars
  <2>1. UNCHANGED <<at, insts, stored, ran, entered, preds>>
    BY <1>2 DEF TbFlush, execVars, history
  <2>. QED
    BY <2>1 DEF PathInv, At, RealOf
<1>. QED
  BY <1>1, <1>2 DEF ExecNext

LEMMA PathInit == ExecInit => PathInv
<1> SUFFICES ASSUME ExecInit PROVE PathInv
  OBVIOUS
<1>1. \A i \in Inst : insts[i].prev_real_pc = 0
  BY DEF ExecInit, FreshInst
<1>2. \A v \in VCPU : at[v].step = "out"
  BY DEF ExecInit, Out
<1>. QED
  BY <1>1, <1>2 DEF ExecInit, PathInv

AllRecords == RecordInv /\ RecordedInv /\ PendingInv /\ ResolvedInv /\ PathInv

LEMMA AllRecordsHold == ExecSpec /\ []RaceFree => []AllRecords
<1>1. ExecInit => AllRecords
  BY RecordInit, RecordedInit, LogInit, PathInit DEF AllRecords
<1>2. AllRecords /\ RaceFree /\ RaceFree' /\ [ExecNext]_execVars => AllRecords'
  BY AllStep, PathStep DEF AllRecords
<1>. QED
  BY <1>1, <1>2, PTL DEF ExecSpec

-----------------------------------------------------------------------------
(* The guest's run is the plugin's: loading and analysing leave it alone. *)
THEOREM PipelineKeepsPlugin == PipelineSpec => PluginSpec
<1>1. PipelineInit => PluginInit
  BY DEF PipelineInit
<1>2. [PipelineNext]_pipelineVars => [PluginNext]_pluginVars
  BY DEF PipelineNext, Run, Access, Load, Analyse, pipelineVars
<1>. QED
  BY <1>1, <1>2, PTL DEF PipelineSpec, PluginSpec

LEMMA PipelineRecords == PipelineSpec /\ []RaceFree => []AllRecords /\ []PluginInv
  BY PipelineKeepsPlugin, PluginKeepsRecords, PluginInvariant, AllRecordsHold, PTL

(* at_exit comes when no vCPU is inside a block, and nothing after it. *)
ExitInv == phase = "exited" => \A v \in VCPU : at[v].step = "out"

LEMMA NothingAfterExit ==
  ASSUME PluginNext
  PROVE  phase = "run"
  BY DEF PluginNext, Translate, Start, Callbacks, Interrupt, Flush, Exit, Invalidate,
         Store!Trans, Store!Exec, Store!TbFlush, Store!AtExit, Store!Invalidate

LEMMA ExitStep ==
  ASSUME PluginInv, ExitInv, [PluginNext]_pluginVars
  PROVE  ExitInv'
<1>1. CASE UNCHANGED pluginVars
  BY <1>1 DEF ExitInv, pluginVars, execVars, storeVars
<1>2. CASE Exit
  <2>1. \A v \in VCPU : InBlock[v] = None
    BY <1>2 DEF Exit, Store!AtExit
  <2>2. \A v \in VCPU : at[v].step = "out"
    BY <2>1 DEF InBlock, PluginInv, InsideInv
  <2>. QED
    BY <1>2, <2>2 DEF Exit, execVars, ExitInv
<1>3. CASE PluginNext /\ ~Exit
  <2>1. phase = "run"
    BY <1>3, NothingAfterExit
  <2>2. phase' = "run"
    BY <1>3, <2>1 DEF PluginNext, Translate, Start, Callbacks, Interrupt, Flush, Invalidate,
         Store!Trans, Store!Exec, Store!TbFlush, Store!Invalidate, storeVars
  <2>. QED
    BY <2>2 DEF ExitInv
<1>. QED
  BY <1>1, <1>2, <1>3

-----------------------------------------------------------------------------
(* The interrupts in the file. *)
SavedEntry == [src : Nat, id : Nat, from : Inst \cup {None}, dst : Pc, dst_real : Nat]
Resolved(e) == e.dst_real # 0 =>
  \E b \in Block : /\ start[b] = e.dst
                   /\ <<b, 1>> \in stored
                   /\ insts[<<b, 1>>].real_pc = e.dst_real
GoodInt == {e \in SavedEntry : Resolved(e)}
SavedInv ==
  /\ saved_ints \in Seq(GoodInt)
  /\ \A v \in VCPU : Len(curr_ids[v]) = Len(ints[v])

(* Numbers, and what was resolved, stay so. *)
LEMMA NumbersStay ==
  ASSUME AllRecords, [ExecNext]_execVars
  PROVE  \A i \in stored : i \in stored' /\ insts'[i].real_pc = insts[i].real_pc
<1>1. CASE \E v \in VCPU : ExecVcpu(v)
  BY <1>1, RealStays DEF AllRecords, RecordedInv
<1>2. CASE TbFlush \/ UNCHANGED execVars
  BY <1>2 DEF TbFlush, execVars, history
<1>. QED
  BY <1>1, <1>2 DEF ExecNext

LEMMA ResolvedStays ==
  ASSUME AllRecords, [ExecNext]_execVars
  PROVE  GoodInt \subseteq GoodInt'
  BY NumbersStay DEF GoodInt, Resolved, SavedEntry

(* The two halves of the log have the same length. *)
LEMMA HalvesStep ==
  ASSUME AllRecords, PluginInv, SavedInv, [PluginNext]_pluginVars
  PROVE  \A v \in VCPU : Len(curr_ids'[v]) = Len(ints'[v])
<1>0. /\ curr_ids \in [VCPU -> Seq([src : Nat, id : Nat, from : Inst \cup {None}])]
      /\ ints \in [VCPU -> Seq(IntEntry)]
      /\ \A v \in VCPU : Len(curr_ids[v]) = Len(ints[v])
  BY DEF PluginInv, LogInv, AllRecords, PendingInv, SavedInv
<1>1. CASE UNCHANGED <<curr_ids, ints>>
  BY <1>0, <1>1
<1>2. CASE Flush
  BY <1>2 DEF Flush, TbFlush
<1>3. ASSUME NEW v \in VCPU, NEW i \in Inst, NEW b \in RunsBlock[v],
             Interrupt(v, PcOf(i), start[b])
      PROVE  \A w \in VCPU : Len(curr_ids'[w]) = Len(ints'[w])
  <2>1. \E x, y : /\ curr_ids' = [curr_ids EXCEPT ![v] = Append(curr_ids[v], x)]
                  /\ ints' = [ints EXCEPT ![v] = Append(ints[v], y)]
    BY <1>3 DEF Interrupt, Discon
  <2>2. PICK x, y : /\ curr_ids' = [curr_ids EXCEPT ![v] = Append(curr_ids[v], x)]
                    /\ ints' = [ints EXCEPT ![v] = Append(ints[v], y)]
    BY <2>1
  <2>3. /\ Len(Append(curr_ids[v], x)) = Len(curr_ids[v]) + 1
        /\ Len(Append(ints[v], y)) = Len(ints[v]) + 1
    BY <1>0
  <2>. QED
    BY <1>0, <2>2, <2>3
<1>4. ASSUME NEW v \in VCPU, Callbacks(v) PROVE \A w \in VCPU : Len(curr_ids'[w]) = Len(ints'[w])
  <2>1. UNCHANGED curr_ids
    BY <1>4 DEF Callbacks
  <2>2. CASE FirstSet(v)
    <3>1. /\ \A w \in VCPU : w # v => ints'[w] = ints[w]
          /\ DOMAIN ints'[v] = DOMAIN ints[v] /\ ints' \in [VCPU -> Seq(IntEntry)]
      BY <2>2, FirstSetLog DEF AllRecords
    <3>2. Len(ints'[v]) = Len(ints[v])
      BY <1>0, <3>1
    <3>. QED
      BY <1>0, <2>1, <3>1, <3>2
  <2>3. CASE ints' = ints
    BY <1>1, <2>1, <2>3
  <2>. QED
    BY <1>4, <2>2, <2>3 DEF Callbacks, VcpuInit, FindNew, MarkValid, Number, FirstAgain,
         InstAgain, InstSet, NextInst, Idle, Resume
<1>5. CASE \/ \E v \in VCPU, b \in Block : Start(v, b) \/ \E keep \in BOOLEAN : Translate(v, b, keep)
           \/ Exit \/ (\E a \in Store!Addr : Invalidate(a)) \/ UNCHANGED pluginVars
  BY <1>1, <1>5 DEF Start, Enter, Translate, Exit, Invalidate, pluginVars, execVars
<1>. QED
  BY <1>2, <1>3, <1>4, <1>5 DEF PluginNext

-----------------------------------------------------------------------------
(* The analysis of whatever the program can load: what Analysis_proofs shows  *)
(* of it is used here, not shown again.                                     *)
Saves == {d \in Program!SaveData : /\ IsFiniteSet(d.blocks)
                                   /\ \A b, c \in d.blocks : b.id = c.id => b = c}
AP == INSTANCE Analysis_proofs WITH Input <- Saves, edges <- found

LEMMA SavesAssumption == AP!AnalysisAssumption
<1>1. Saves \subseteq AP!SaveData
  BY DEF Saves, Program!SaveData, AP!SaveData, Program!BlockData, AP!BlockData,
         Program!EdgeData, AP!EdgeData, Program!InterruptData, AP!InterruptData,
         Program!InstData, AP!InstData
<1>2. \A S : IsFiniteSet(S) <=> AP!IsFiniteSet(S)
  BY DEF IsFiniteSet, AP!IsFiniteSet
<1>3. None \notin Nat
  BY ExecAssumption
<1>. QED
  BY <1>1, <1>2, <1>3 DEF AP!AnalysisAssumption, Saves

(* The two instances are one. *)
LEMMA SameAnalysis == [Program!AnalysisNext]_programVars => [AP!AnalysisNext]_(AP!analysisVars)
<1>1. Program!Pcs = AP!Pcs /\ Program!Insts = AP!Insts /\ \A i : Program!Fields(i) = AP!Fields(i)
  BY DEF Program!Pcs, AP!Pcs, Program!Insts, AP!Insts, Program!Fields, AP!Fields
<1>2. \A k, d, s : Program!Edge(k, d, s) = AP!Edge(k, d, s)
  BY DEF Program!Edge, AP!Edge
<1>3. \A b : Program!Starts(b) = AP!Starts(b)
  BY DEF Program!Starts, AP!Starts, Program!Chained, AP!Chained, Program!Before, AP!Before,
         Program!Latest, AP!Latest
<1>4. Program!Sort => AP!Sort
  <2>1. \A S : Program!SetToSeqs(S) = AP!SetToSeqs(S)
    BY DEF Program!SetToSeqs, AP!SetToSeqs, Program!Cardinality, AP!Cardinality
  <2>2. \A s : Program!Reordered(s) = AP!Reordered(s) /\ (Program!ById(s) <=> AP!ById(s))
    BY <2>1 DEF Program!Reordered, AP!Reordered, Program!ById, AP!ById
  <2>. QED
    BY <2>1, <2>2 DEF Program!Sort, AP!Sort
<1>5. Program!EmitEdgeMap => AP!EmitEdgeMap
  BY <1>2 DEF Program!EmitEdgeMap, AP!EmitEdgeMap
<1>6. Program!AnalyzeBlock => AP!AnalyzeBlock
  BY DEF Program!AnalyzeBlock, AP!AnalyzeBlock, Program!Due, AP!Due, Program!Latest, AP!Latest,
         Program!Cardinality, AP!Cardinality, Program!Pcs, AP!Pcs, Program!Insts, AP!Insts,
         Program!Fields, AP!Fields, Program!Starts, AP!Starts, Program!Chained, AP!Chained,
         Program!Before, AP!Before, Program!Edge, AP!Edge
<1>7. Program!BlocksDone => AP!BlocksDone
  BY DEF Program!BlocksDone, AP!BlocksDone
<1>8. Program!InitFlags => AP!InitFlags
  BY <1>1 DEF Program!InitFlags, AP!InitFlags, Program!Destinations, AP!Destinations,
         Program!Taken, AP!Taken, Program!Insts, AP!Insts, Program!Fields, AP!Fields
<1>. QED
  BY <1>4, <1>5, <1>6, <1>7, <1>8
     DEF Program!AnalysisNext, AP!AnalysisNext, programVars, AP!analysisVars

-----------------------------------------------------------------------------
(* Sequences of sequences: what they are made of, and how two are joined. *)
Vec(S) == Seq(S)
Parts(S) == Seq(Seq(S))

LEMMA PartsAre ==
  ASSUME NEW S, NEW s \in Parts(S)
  PROVE  /\ Len(s) \in Nat /\ DOMAIN s = 1 .. Len(s)
         /\ \A i \in 1 .. Len(s) : s[i] \in Vec(S)
  BY LenProperties, ElementOfSeq DEF Parts, Vec

LEMMA Concat ==
  ASSUME NEW S, NEW a \in Vec(S), NEW b \in Vec(S)
  PROVE  a \o b \in Vec(S) /\ <<>> \o a = a /\ a \o <<>> = a /\ <<>> \in Vec(S)
  BY ConcatProperties, ConcatEmptySeq, EmptySeq DEF Vec

(* The parts joined one by one. *)
Joins(S, s) ==
  {f \in [0 .. Len(s) -> Vec(S)] : /\ f[0] = <<>>
                                   /\ \A i \in 0 .. Len(s) - 1 : f[i + 1] = f[i] \o s[i + 1]}

(* FlattenSeq gives the last of them. *)
LEMMA FlattenAt ==
  ASSUME NEW S, NEW s \in Parts(S), NEW f \in Joins(S, s)
  PROVE  FlattenSeq(s) = f[Len(s)]
<1> DEFINE n == Len(s)
           flat == CHOOSE g : g = [i \in 1 .. n |-> IF i = 1 THEN s[i] ELSE g[i - 1] \o s[i]]
<1>0. /\ n \in Nat /\ f \in [0 .. n -> Vec(S)] /\ f[0] = <<>>
      /\ \A i \in 0 .. n - 1 : f[i + 1] = f[i] \o s[i + 1]
      /\ \A i \in 1 .. n : s[i] \in Vec(S)
  BY PartsAre DEF Joins
<1>1. n = 0 => FlattenSeq(s) = f[n]
  <2>1. n = 0 => s = <<>>
    BY EmptySeq DEF Parts
  <2> QED
    BY <1>0, <2>1 DEF FlattenSeq
<1>2. ASSUME n # 0 PROVE FlattenSeq(s) = f[n]
  <2> DEFINE h == [i \in 1 .. n |-> f[i]]
  <2>1. h = [i \in 1 .. n |-> IF i = 1 THEN s[i] ELSE h[i - 1] \o s[i]]
    <3>1. ASSUME NEW i \in 1 .. n PROVE f[i] = IF i = 1 THEN s[i] ELSE h[i - 1] \o s[i]
      <4>1. i - 1 \in 0 .. n - 1 /\ (i - 1) + 1 = i
        BY <1>0
      <4>2. f[i] = f[i - 1] \o s[i] /\ s[i] \in Vec(S)
        BY <1>0, <4>1
      <4>3. CASE i = 1
        <5>1. f[i] = <<>> \o s[i]
          <6>1. i - 1 = 0
            BY <4>3
          <6> QED
            BY <1>0, <4>2, <6>1
        <5> QED
          BY <4>2, <4>3, <5>1, Concat
      <4>4. CASE i # 1
        <5>1. i - 1 \in 1 .. n
          BY <1>0, <4>4
        <5>2. h[i - 1] = f[i - 1]
          BY <5>1
        <5> QED
          BY <4>2, <4>4, <5>2
      <4> QED
        BY <4>3, <4>4
    <3> QED
      BY <3>1
  <2> HIDE DEF h
  <2>2. flat = [i \in 1 .. n |-> IF i = 1 THEN s[i] ELSE flat[i - 1] \o s[i]]
    BY <2>1
  <2>3. FlattenSeq(s) = flat[n]
    BY <1>2 DEF FlattenSeq
  <2> HIDE DEF flat
  <2>4. flat[1] = s[1] /\ \A i \in 1 .. n - 1 : flat[i + 1] = flat[i] \o s[i + 1]
    <3>1. \A i \in 1 .. n : flat[i] = IF i = 1 THEN s[i] ELSE flat[i - 1] \o s[i]
      BY <2>2
    <3>2. ASSUME NEW i \in 1 .. n - 1 PROVE flat[i + 1] = flat[i] \o s[i + 1]
      <4>1. i + 1 \in 1 .. n /\ i + 1 # 1 /\ (i + 1) - 1 = i
        BY <1>0
      <4> QED
        BY <3>1, <4>1, Zenon
    <3>3. 1 \in 1 .. n
      BY <1>0, <1>2
    <3> QED
      BY <3>1, <3>2, <3>3
  <2> DEFINE T == {i \in Nat : i + 1 \in 1 .. n => flat[i + 1] = f[i + 1]}
  <2>5. Nat \subseteq T
    <3>1. 0 \in T
      <4>1. 0 \in 0 .. n - 1 /\ 1 \in 1 .. n /\ 0 + 1 = 1
        BY <1>0, <1>2
      <4>2. f[1] = <<>> \o s[1] /\ s[1] \in Vec(S)
        BY <1>0, <4>1
      <4>3. f[1] = s[1]
        BY <4>2, Concat
      <4> QED
        BY <2>4, <4>1, <4>3
    <3>2. ASSUME NEW i \in Nat, i \in T PROVE i + 1 \in T
      <4> SUFFICES ASSUME (i + 1) + 1 \in 1 .. n PROVE flat[(i + 1) + 1] = f[(i + 1) + 1]
        OBVIOUS
      <4>1. i + 1 \in 0 .. n - 1 /\ i + 1 \in 1 .. n - 1 /\ i + 1 \in 1 .. n
        BY <1>0
      <4>2. flat[i + 1] = f[i + 1]
        BY <3>2, <4>1
      <4>3. f[(i + 1) + 1] = f[i + 1] \o s[(i + 1) + 1]
        BY <1>0, <4>1, Zenon
      <4>4. flat[(i + 1) + 1] = flat[i + 1] \o s[(i + 1) + 1]
        BY <2>4, <4>1, Zenon
      <4> QED
        BY <4>2, <4>3, <4>4
    <3> HIDE DEF T
    <3> QED
      BY <3>1, <3>2, SavesAssumption, AP!NumberInduction
  <2>6. n - 1 \in Nat /\ (n - 1) + 1 = n /\ n \in 1 .. n
    BY <1>0, <1>2
  <2>7. flat[n] = f[n]
    <3>1. (n - 1) + 1 \in 1 .. n => flat[(n - 1) + 1] = f[(n - 1) + 1]
      BY <2>5, <2>6
    <3> QED
      BY <2>6, <3>1
  <2> QED
    BY <2>3, <2>7
<1> QED
  BY <1>1, <1>2

LEMMA JoinsExist == ASSUME NEW S, NEW s \in Parts(S) PROVE \E f : f \in Joins(S, s)
<1> DEFINE J(n) == {f \in [0 .. n -> Vec(S)] :
                      f[0] = <<>> /\ \A i \in 0 .. n - 1 : f[i + 1] = f[i] \o s[i + 1]}
           T == {n \in Nat : n <= Len(s) => J(n) # {}}
<1>0. Len(s) \in Nat /\ \A i \in 1 .. Len(s) : s[i] \in Vec(S)
  BY PartsAre
<1>1. 0 \in T
  <2>1. <<>> \in Vec(S)
    BY EmptySeq DEF Vec
  <2>2. [i \in 0 .. 0 |-> <<>>] \in J(0)
    BY <2>1
  <2> QED
    BY <2>2
<1>2. ASSUME NEW n \in Nat, n \in T PROVE n + 1 \in T
  <2> HIDE DEF J
  <2> SUFFICES ASSUME n + 1 <= Len(s) PROVE J(n + 1) # {}
    OBVIOUS
  <2>1. J(n) # {}
    <3>1. n <= Len(s)
      BY <1>0
    <3> QED
      BY <1>2, <3>1
  <2> USE DEF J
  <2>2. PICK f \in [0 .. n -> Vec(S)] :
          f[0] = <<>> /\ \A i \in 0 .. n - 1 : f[i + 1] = f[i] \o s[i + 1]
    BY <2>1
  <2> DEFINE g == [i \in 0 .. n + 1 |-> IF i = n + 1 THEN f[n] \o s[n + 1] ELSE f[i]]
  <2>3. f[n] \in Vec(S) /\ s[n + 1] \in Vec(S)
    BY <1>0, <2>2
  <2>4. f[n] \o s[n + 1] \in Vec(S)
    BY <2>3, Concat
  <2>5. g \in [0 .. n + 1 -> Vec(S)] /\ g[0] = <<>>
    BY <2>2, <2>4
  <2>6. ASSUME NEW i \in 0 .. n PROVE g[i + 1] = g[i] \o s[i + 1]
    <3>0. i \in 0 .. n + 1 /\ i + 1 \in 0 .. n + 1 /\ i # n + 1 /\ g[i] = f[i]
      OBVIOUS
    <3>1. CASE i = n
      BY <3>0, <3>1
    <3>2. CASE i # n
      <4>1. i \in 0 .. n - 1 /\ i + 1 # n + 1
        BY <3>2
      <4>2. g[i + 1] = f[i + 1]
        BY <3>0, <4>1
      <4>3. f[i + 1] = f[i] \o s[i + 1]
        BY <2>2, <4>1
      <4> QED
        BY <3>0, <4>2, <4>3
    <3> QED
      BY <3>1, <3>2
  <2> HIDE DEF g
  <2>7. (n + 1) - 1 = n
    OBVIOUS
  <2>8. g \in J(n + 1)
    BY <2>5, <2>6, <2>7
  <2> QED
    BY <2>8
<1> HIDE DEF J
<1>3. Len(s) \in T
  <2> HIDE DEF T
  <2> QED
    BY <1>0, <1>1, <1>2, SavesAssumption, AP!NumberInduction
<1>4. J(Len(s)) # {}
  BY <1>0, <1>3
<1> QED
  BY <1>4 DEF J, Joins

(* What follows of FlattenSeq: its type, how it grows, what is in it. *)
LEMMA FlattenType ==
  ASSUME NEW S, NEW s \in Parts(S)
  PROVE  FlattenSeq(s) \in Vec(S)
<1>1. PICK f : f \in Joins(S, s)
  BY JoinsExist
<1>2. f[Len(s)] \in Vec(S)
  <2>1. Len(s) \in 0 .. Len(s)
    BY PartsAre
  <2> QED
    BY <1>1, <2>1 DEF Joins
<1> QED
  BY <1>1, <1>2, FlattenAt

-----------------------------------------------------------------------------
(* What a vCPU's log holds when it is written. *)
LEMMA LoggedIs ==
  ASSUME AllRecords, PluginInv, SavedInv, NEW v \in VCPU
  PROVE  Logged(v) \in Vec(GoodInt)
<1>1. /\ ints[v] \in Seq(IntEntry) /\ curr_ids[v] \in Seq(LogEntry)
      /\ Len(curr_ids[v]) = Len(ints[v])
  BY DEF AllRecords, PendingInv, PluginInv, LogInv, LogEntry, SavedInv
<1>2. Len(ints[v]) \in Nat /\ DOMAIN ints[v] = 1 .. Len(ints[v])
  BY <1>1
<1>3. ASSUME NEW n \in DOMAIN ints[v] PROVE Logged(v)[n] \in GoodInt
  <2>1. ints[v][n] \in IntEntry /\ curr_ids[v][n] \in LogEntry
    BY <1>1, <1>2
  <2> DEFINE e == [src |-> curr_ids[v][n].src, id |-> curr_ids[v][n].id,
                   from |-> curr_ids[v][n].from,
                   dst |-> ints[v][n].dst, dst_real |-> ints[v][n].dst_real]
  <2>2. Logged(v)[n] = e
    BY DEF Logged
  <2>3. e \in SavedEntry
    BY <2>1 DEF SavedEntry, IntEntry, LogEntry
  <2>4. e.dst = ints[v][n].dst /\ e.dst_real = ints[v][n].dst_real
    OBVIOUS
  <2> HIDE DEF e
  <2>5. Resolved(e)
    BY <2>4 DEF Resolved, AllRecords, ResolvedInv
  <2>. QED
    BY <2>2, <2>3, <2>5 DEF GoodInt
<1>4. Logged(v) = [n \in 1 .. Len(ints[v]) |-> Logged(v)[n]]
  BY <1>2 DEF Logged
<1>. QED
  BY <1>2, <1>3, <1>4 DEF Vec

LEMMA AllLoggedIs ==
  ASSUME AllRecords, PluginInv, SavedInv
  PROVE  AllLogged \in Vec(GoodInt)
<1> DEFINE s == [n \in 1 .. NumVcpu |-> Logged(n - 1)]
<1>1. NumVcpu \in Nat /\ \A n \in 1 .. NumVcpu : n - 1 \in VCPU
  BY ExecAssumption DEF VCPU
<1>2. \A n \in 1 .. NumVcpu : Logged(n - 1) \in Vec(GoodInt)
  BY <1>1, LoggedIs
<1>3. s \in Seq(Vec(GoodInt))
  BY <1>1, <1>2
<1>4. s \in Parts(GoodInt)
  BY <1>3 DEF Parts, Vec
<1> HIDE DEF s
<1>5. FlattenSeq(s) \in Vec(GoodInt)
  BY <1>4, FlattenType
<1>. QED
  BY <1>5 DEF AllLogged, s

LEMMA SavedStep ==
  ASSUME AllRecords, PluginInv, SavedInv, [PluginNext]_pluginVars
  PROVE  SavedInv'
<1>1. \A v \in VCPU : Len(curr_ids'[v]) = Len(ints'[v])
  BY HalvesStep
<1>2. saved_ints' \in Vec(GoodInt)
  <2>1. saved_ints \in Vec(GoodInt)
    BY DEF SavedInv, Vec
  <2>2. saved_ints' = saved_ints \/ saved_ints' = saved_ints \o AllLogged
    BY DEF PluginNext, Translate, Start, Callbacks, Interrupt, Flush, Exit, Invalidate,
           pluginVars, fileVars
  <2>. QED
    BY <2>1, <2>2, AllLoggedIs, Concat
<1>3. GoodInt \subseteq GoodInt'
  BY ResolvedStays, ExecPart DEF pluginVars
<1>4. saved_ints' \in Seq(GoodInt')
  <2>1. saved_ints' \in Seq(GoodInt)
    BY <1>2 DEF Vec
  <2> DEFINE A == GoodInt
             B == GoodInt'
  <2> HIDE DEF A, B
  <2>2. A \subseteq B /\ saved_ints' \in Seq(A)
    BY <1>3, <2>1 DEF A, B
  <2>3. saved_ints' \in Seq(B)
    BY <2>2
  <2>. QED
    BY <2>3 DEF B
<1>. QED
  BY <1>1, <1>4 DEF SavedInv

LEMMA FilesHold == PluginSpec /\ []AllRecords => []ExitInv /\ []SavedInv
<1>1. PluginInit => ExitInv /\ SavedInv
  <2> SUFFICES ASSUME PluginInit PROVE ExitInv /\ SavedInv
    OBVIOUS
  <2>1. phase = "run"
    BY DEF PluginInit, Store!Init
  <2>2. saved_ints \in Seq(GoodInt)
    BY DEF PluginInit
  <2>3. \A v \in VCPU : curr_ids[v] = <<>> /\ ints[v] = <<>>
    BY DEF PluginInit, ExecInit
  <2>. QED
    BY <2>1, <2>2, <2>3 DEF ExitInv, SavedInv
<1>2. PluginInv /\ ExitInv /\ [PluginNext]_pluginVars => ExitInv'
  BY ExitStep
<1>3. AllRecords /\ PluginInv /\ SavedInv /\ [PluginNext]_pluginVars => SavedInv'
  BY SavedStep
<1>. QED
  BY <1>1, <1>2, <1>3, PluginInvariant, PTL DEF PluginSpec

-----------------------------------------------------------------------------
(* Start-up signals: what is pending, or was logged, comes from an access      *)
(* that ran, and what was logged leads to the start of a translated block.    *)
Sent(n) == \E i \in stored \cap Icr : insts[i].real_pc = n
SignalInv ==
  /\ \A v \in VCPU : signaled_edges[v] # None => Sent(signaled_edges[v])
  /\ \A e \in signals : Sent(e.src) /\ \E b \in Block : e.dst = start[b] /\ id[b] # None

LEMMA SignalStep ==
  ASSUME AllRecords, PluginInv, SignalInv, [PipelineNext]_pipelineVars
  PROVE  SignalInv'
<1>1. [PluginNext]_pluginVars
  BY DEF PipelineNext, Run, Access, Load, Analyse, pipelineVars
<1>2. \A n : Sent(n) => \E i \in stored' \cap Icr : insts'[i].real_pc = n
  <2>1. \A i \in stored : i \in stored' /\ insts'[i].real_pc = insts[i].real_pc
    BY <1>1, NumbersStay, ExecPart DEF pluginVars
  <2>. QED
    BY <2>1 DEF Sent
<1>3. \A b \in Block : id[b] # None => id'[b] # None
  <2>1. ASSUME NEW v \in VCPU, NEW b \in Block, NEW keep \in BOOLEAN, Translate(v, b, keep)
        PROVE  \A c \in Block : id[c] # None => id'[c] # None
    BY <2>1, TranslateIds, StoreFacts, NoneFacts DEF PluginInv, IdInv
  <2>2. CASE UNCHANGED id
    BY <2>2
  <2>. QED
    BY <1>1, <2>1, <2>2, OtherIds DEF pluginVars, storeVars
<1>4. \A e \in signals : (\E i \in stored' \cap Icr : insts'[i].real_pc = e.src) /\ \E b \in Block : e.dst = start[b] /\ id'[b] # None
  BY <1>2, <1>3 DEF SignalInv
<1>5. CASE Run
  <2>1. PluginInv'
    BY <1>1, PluginStep
  <2>2. ASSUME NEW v \in VCPU, Starts(v)
        PROVE  at'[v].block \in Block /\ id'[at'[v].block] # None
    BY <2>1, <2>2 DEF Starts, PluginInv, InsideInv, RecordInv, PlaceInv
  <2>3. ASSUME NEW v \in VCPU, signaled_edges'[v] # None
        PROVE  \E i \in stored' \cap Icr : insts'[i].real_pc = signaled_edges'[v]
    <3>1. signaled_edges'[v] = signaled_edges[v]
      BY <1>5, <2>3 DEF Run, TakeSignals
    <3>2. Sent(signaled_edges[v])
      BY <2>3, <3>1 DEF SignalInv
    <3>. QED
      BY <1>2, <3>1, <3>2
  <2>4. ASSUME NEW e \in Taken
        PROVE  (\E i \in stored' \cap Icr : insts'[i].real_pc = e.src) /\ \E b \in Block : e.dst = start[b] /\ id'[b] # None
    <3>1. PICK v \in VCPU : /\ Starts(v) /\ signaled_edges[v] # None
                            /\ e = [dst |-> start[at'[v].block], src |-> signaled_edges[v]]
      BY <2>4 DEF Taken
    <3>2. Sent(e.src)
      BY <3>1 DEF SignalInv
    <3>. QED
      BY <1>2, <2>2, <3>1, <3>2
  <2>5. signals' \subseteq signals \cup Taken
    BY <1>5 DEF Run, TakeSignals
  <2>. QED
    BY <1>4, <2>3, <2>4, <2>5 DEF SignalInv, Sent
<1>6. ASSUME NEW v \in VCPU, NEW targets \in SUBSET VCPU, Access(v, targets) PROVE SignalInv'
  <2>1. Sent(insts[At(v)].real_pc)
    <3>1. At(v) \in stored \cap Icr
      BY <1>6 DEF Access, AllRecords, RecordedInv, NumberedOnce
    <3>. QED
      BY <3>1 DEF Sent
  <2>2. \A w \in VCPU : signaled_edges'[w] = insts[At(v)].real_pc \/ signaled_edges'[w] = signaled_edges[w]
    BY <1>6 DEF Access
  <2>3. \A w \in VCPU : signaled_edges'[w] # None => Sent(signaled_edges'[w])
    BY <2>1, <2>2 DEF SignalInv
  <2>4. UNCHANGED <<stored, insts, signals>>
    BY <1>6 DEF Access, pluginVars, execVars, history
  <2>. QED
    BY <1>4, <2>3, <2>4 DEF SignalInv, Sent
<1>7. CASE Load \/ Analyse \/ UNCHANGED pipelineVars
  <2>1. UNCHANGED <<signaled_edges, signals, stored, insts>>
    BY <1>7 DEF Load, Analyse, pipelineVars, edgeVars, pluginVars, execVars, history
  <2>. QED
    BY <1>4, <2>1 DEF SignalInv, Sent
<1>. QED
  BY <1>5, <1>6, <1>7 DEF PipelineNext

-----------------------------------------------------------------------------
(* What the program loads. *)
LEMMA LoadedRecord ==
  ASSUME PluginInv, NEW b \in Block, saved[b] # None, NEW n \in 1 .. Length[b]
  PROVE  /\ <<b, n>> \in Inst /\ insts[<<b, n>>] \in Record
         /\ LoadedInst(b, n) \in AP!InstData
         /\ LoadedInst(b, n).fvalid = insts[<<b, n>>].fvalid
         /\ LoadedInst(b, n).real_pc = insts[<<b, n>>].real_pc
         /\ LoadedInst(b, n).prev_real_pc = insts[<<b, n>>].prev_real_pc
<1>1. <<b, n>> \in Inst
  BY DEF Inst
<1>2. insts[<<b, n>>] \in Record
  BY <1>1 DEF PluginInv, RecordInv, CellInv
<1>3. saved[b][n] = insts[<<b, n>>]
  BY DEF PluginInv, FileInv, Snapshot
<1>4. PcOf(<<b, n>>) \in Nat
  <2>1. start[b] \in Nat /\ n \in Nat \ {0}
    BY PluginAssumption, ExecAssumption
  <2>2. start[b] + n - 1 \in Nat
    BY <2>1
  <2>. QED
    BY <2>2 DEF PcOf
<1>. QED
  BY <1>1, <1>2, <1>3, <1>4 DEF LoadedInst, Record, AP!InstData

LEMMA LoadedBlockIs ==
  ASSUME PluginInv, NEW b \in Block, saved[b] # None
  PROVE  /\ LoadedBlock(b) \in AP!BlockData
         /\ LoadedBlock(b).id = id[b] /\ id[b] # None
         /\ DOMAIN LoadedBlock(b).insts = 1 .. Length[b]
         /\ \A n \in 1 .. Length[b] : LoadedBlock(b).insts[n] = LoadedInst(b, n)
<1>1. id[b] \in Nat /\ id[b] # None /\ start[b] \in Nat /\ Length[b] \in Nat \ {0}
  BY PluginAssumption, ExecAssumption DEF PluginInv, FileInv, IdInv
<1>2. fretranslated[id[b]] \in BOOLEAN
  <2>1. id[b] \in StoreProofs!BlockId
    BY <1>1, StoreFacts
  <2>. QED
    BY <2>1 DEF PluginInv, StoreProofs!StoreInv, StoreProofs!TypeOK
<1> DEFINE s == [n \in 1 .. Length[b] |-> LoadedInst(b, n)]
<1>3. s \in Seq(AP!InstData) /\ s # <<>> /\ DOMAIN s = 1 .. Length[b]
  <2>1. \A n \in 1 .. Length[b] : LoadedInst(b, n) \in AP!InstData
    BY LoadedRecord
  <2>2. s \in Seq(AP!InstData)
    BY <1>1, <2>1
  <2>3. 1 \in DOMAIN s
    BY <1>1
  <2>. QED
    BY <2>2, <2>3
<1>4. \A n \in 1 .. Length[b] : s[n] = LoadedInst(b, n)
  OBVIOUS
<1> HIDE DEF s
<1>5. LoadedBlock(b) = [id |-> id[b], loc |-> start[b], end |-> start[b] + Length[b],
                        fretranslated |-> fretranslated[id[b]], insts |-> s]
  BY DEF LoadedBlock, s
<1>6. start[b] + Length[b] \in Nat
  BY <1>1
<1>. QED
  BY <1>1, <1>2, <1>3, <1>4, <1>5, <1>6 DEF AP!BlockData

LEMMA LoadedIntsAre ==
  ASSUME SavedInv
  PROVE  /\ LoadedInts \in Seq(AP!InterruptData)
         /\ DOMAIN LoadedInts = DOMAIN saved_ints
         /\ \A n \in DOMAIN saved_ints :
              saved_ints[n] \in GoodInt /\ LoadedInts[n].dst_real = saved_ints[n].dst_real
<1>1. /\ Len(saved_ints) \in Nat /\ DOMAIN saved_ints = 1 .. Len(saved_ints)
      /\ \A n \in DOMAIN saved_ints : saved_ints[n] \in GoodInt
  BY DEF SavedInv
<1>2. \A n \in DOMAIN saved_ints : LoadedInts[n] = [src |-> saved_ints[n].src, id |-> saved_ints[n].id,
                                                    dst_real |-> saved_ints[n].dst_real]
  BY DEF LoadedInts
<1>3. ASSUME NEW n \in DOMAIN saved_ints PROVE LoadedInts[n] \in AP!InterruptData
  <2>1. saved_ints[n] \in SavedEntry
    BY <1>1 DEF GoodInt
  <2>2. saved_ints[n].src \in Nat /\ saved_ints[n].id \in Nat /\ saved_ints[n].dst_real \in Nat
    BY <2>1 DEF SavedEntry
  <2>3. \A x, y, z \in Nat : [src |-> x, id |-> y, dst_real |-> z] \in AP!InterruptData
    BY DEF AP!InterruptData
  <2>4. [src |-> saved_ints[n].src, id |-> saved_ints[n].id, dst_real |-> saved_ints[n].dst_real]
          \in AP!InterruptData
    BY <2>2, <2>3
  <2>. QED
    BY <1>2, <2>4
<1>4. LoadedInts = [n \in 1 .. Len(saved_ints) |-> LoadedInts[n]]
  BY <1>1 DEF LoadedInts
<1>5. LoadedInts \in Seq(AP!InterruptData)
  BY <1>1, <1>3, <1>4
<1>. QED
  BY <1>1, <1>2, <1>5 DEF LoadedInts

LEMMA EdgeFilesAre == ASSUME AllRecords, SignalInv PROVE EdgeFiles \subseteq AP!EdgeData
<1>1. \A v \in VCPU : \A e \in edges[v] : e.dst \in Nat /\ e.src \in Nat
  BY DEF AllRecords, RecordedInv, EdgeEnds
<1>2. ASSUME NEW e \in signals PROVE e.dst \in Nat /\ e.src \in Nat
  <2>1. \A i \in stored : insts[i].real_pc \in Nat
    BY DEF AllRecords, RecordInv, CellInv, Record
  <2>. QED
    BY <2>1, PluginAssumption DEF SignalInv, Sent
<1>. QED
  BY <1>1, <1>2 DEF EdgeFiles, OfKind, AP!EdgeData

(* It is a save the analysis accepts. *)
LoadedData(S) == [blocks |-> {LoadedBlock(b) : b \in S}, edge_map |-> EdgeFiles,
                  interrupts |-> LoadedInts]

LEMMA LoadedIsInput ==
  ASSUME PluginInv, AllRecords, SavedInv, SignalInv, NEW S \in SUBSET Block, Keepable(S)
  PROVE  LoadedData(S) \in Saves
<1> DEFINE B == {LoadedBlock(b) : b \in S}
<1>1. \A b \in S : b \in Block /\ saved[b] # None
  BY DEF Keepable
<1>2. B \subseteq AP!BlockData
  BY <1>1, LoadedBlockIs
<1>3. IsFiniteSet(B)
  <2> DEFINE f == [b \in S |-> LoadedBlock(b)]
  <2>1. f \in Surjection(S, B)
    BY DEF Surjection
  <2>2. IsFiniteSet(S)
    BY PluginAssumption, FS_Subset
  <2> HIDE DEF f, B
  <2>. QED
    BY <2>1, <2>2, FS_Surjection
<1>4. \A x, y \in B : x.id = y.id => x = y
  BY <1>1, LoadedBlockIs DEF PluginInv, IdInv
<1> HIDE DEF B
<1>5. [blocks |-> B, edge_map |-> EdgeFiles, interrupts |-> LoadedInts] \in AP!SaveData
  BY <1>2, EdgeFilesAre, LoadedIntsAre DEF AP!SaveData
<1>6. AP!SaveData = Program!SaveData
  BY DEF Program!SaveData, AP!SaveData, Program!BlockData, AP!BlockData,
         Program!EdgeData, AP!EdgeData, Program!InterruptData, AP!InterruptData,
         Program!InstData, AP!InstData
<1>. QED
  BY <1>3, <1>4, <1>5, <1>6 DEF Saves, LoadedData, B

-----------------------------------------------------------------------------
(* The program: it starts empty; once it has loaded, its data is what the      *)
(* files of the ended run hold, and its analysis keeps its own invariant.     *)
Empty == /\ sorted_blocks_global_id = <<>> /\ interrupts = <<>>
         /\ blk = 0 /\ ints_idx = 0 /\ vaddr_pending = {}
         /\ found = {} /\ finsts = {}
Loaded == /\ phase = "exited"
          /\ \E S \in SUBSET Block : Keepable(S) /\ data = LoadedData(S)
          /\ AP!AnalysisInv
ProgramInv == IF stage = "emulator" THEN Empty ELSE Loaded

LEMMA AnalysisStep == AP!AnalysisInv /\ [AP!AnalysisNext]_(AP!analysisVars) => AP!AnalysisInv'
  BY SavesAssumption, AP!SortStep, AP!EmitStep, AP!AnalyzeStep, AP!FlagsStep, AP!OtherStep
  DEF AP!AnalysisNext

LEMMA AnalysisStarts == AP!AnalysisInit => AP!AnalysisInv
  BY SavesAssumption, AP!AnalysisInitial

LEMMA SamePcs == Program!Pcs = AP!Pcs
  BY DEF Program!Pcs, AP!Pcs, Program!Insts, AP!Insts, Program!Fields, AP!Fields

(* What is loaded does not change any more. *)
LEMMA LoadedStays ==
  ASSUME UNCHANGED <<pluginVars, edgeVars>>
  PROVE  \A S : LoadedData(S)' = LoadedData(S) /\ (Keepable(S)' <=> Keepable(S))
<1>1. UNCHANGED <<saved, saved_ints, edges, id, fretranslated>>
  BY DEF pluginVars, execVars, storeVars, fileVars
<1>2. /\ EdgeFiles' = EdgeFiles /\ LoadedInts' = LoadedInts
      /\ \A b : LoadedBlock(b)' = LoadedBlock(b) /\ Key(b)' = Key(b)
  BY <1>1 DEF EdgeFiles, OfKind, edgeVars, LoadedInts, LoadedBlock, LoadedInst, Key
<1>. QED
  BY <1>1, <1>2 DEF LoadedData, Keepable

LEMMA ProgramStep ==
  ASSUME PluginInv, AllRecords, SavedInv, SignalInv, ProgramInv, [PipelineNext]_pipelineVars
  PROVE  ProgramInv'
<1>1. CASE stage = "emulator" /\ (Run \/ \E v \in VCPU, targets \in SUBSET VCPU : Access(v, targets))
  BY <1>1 DEF Run, Access, programVars, ProgramInv, Empty
<1>2. CASE Load
  <2>1. /\ stage = "emulator" /\ phase = "exited" /\ stage' = "sort"
        /\ UNCHANGED <<pluginVars, edgeVars, sorted_blocks_global_id, interrupts, blk,
                       ints_idx, vaddr_pending, found, finsts>>
        /\ vaddr_to_real_pc' = [p \in Program!Pcs' |-> None]
    BY <1>2 DEF Load
  <2>2. PICK S \in SUBSET Block : Keepable(S) /\ data' = LoadedData(S)
    BY <1>2 DEF Load, LoadedData
  <2>3. data' \in Saves
    BY <2>2, LoadedIsInput
  <2>4. (Program!Pcs = AP!Pcs)'
    BY SamePcs, PTL
  <2>5. Saves' = Saves
    BY DEF Saves, Program!SaveData, Program!BlockData, Program!EdgeData, Program!InterruptData,
           Program!InstData
  <2>6. AP!AnalysisInit'
    BY <2>1, <2>3, <2>4, <2>5 DEF AP!AnalysisInit, ProgramInv, Empty
  <2>7. AP!AnalysisInv'
    BY <2>6, AnalysisStarts, PTL
  <2>8. phase' = "exited"
    BY <2>1 DEF pluginVars, storeVars
  <2>9. Keepable(S)' /\ data' = LoadedData(S)'
    BY <2>1, <2>2, LoadedStays
  <2>. QED
    BY <2>1, <2>7, <2>8, <2>9 DEF ProgramInv, Loaded
<1>3. CASE Analyse \/ UNCHANGED pipelineVars
  <2>1. UNCHANGED <<pluginVars, edgeVars>> /\ [Program!AnalysisNext]_programVars
    BY <1>3 DEF Analyse, pipelineVars
  <2>2. CASE UNCHANGED programVars
    <3>1. CASE stage = "emulator"
      BY <2>2, <3>1 DEF ProgramInv, Empty, programVars
    <3>2. CASE stage # "emulator"
      <4>1. stage' # "emulator" /\ data' = data
        BY <2>2, <3>2 DEF programVars
      <4>2. AP!AnalysisInv'
        BY <2>2, <3>2, AnalysisStep DEF ProgramInv, Loaded, programVars, AP!analysisVars
      <4>3. phase' = phase
        BY <2>1 DEF pluginVars, storeVars
      <4>. QED
        BY <2>1, <3>2, <4>1, <4>2, <4>3, LoadedStays DEF ProgramInv, Loaded
    <3>. QED
      BY <3>1, <3>2
  <2>3. CASE Program!AnalysisNext
    <3>1. /\ stage \in {"sort", "map", "blocks", "flags"}
          /\ stage' \in {"map", "blocks", "flags", "done"} /\ data' = data
      BY <2>3 DEF Program!AnalysisNext, Program!Sort, Program!EmitEdgeMap, Program!AnalyzeBlock,
                  Program!BlocksDone, Program!InitFlags
    <3>2. AP!AnalysisInv'
      BY <2>1, <3>1, SameAnalysis, AnalysisStep DEF ProgramInv, Loaded
    <3>3. phase' = phase
      BY <2>1 DEF pluginVars, storeVars
    <3>. QED
      BY <2>1, <3>1, <3>2, <3>3, LoadedStays DEF ProgramInv, Loaded
  <2>. QED
    BY <2>1, <2>2, <2>3
<1>. QED
  BY <1>1, <1>2, <1>3 DEF PipelineNext

LEMMA ProgramHolds ==
  PipelineSpec /\ []RaceFree =>
    []AllRecords /\ []PluginInv /\ []ExitInv /\ []SavedInv /\ []SignalInv /\ []ProgramInv
<1>1. PipelineInit => ProgramInv /\ SignalInv
  BY DEF PipelineInit, ProgramInv, Empty, SignalInv
<1>2. PluginInv /\ AllRecords /\ SavedInv /\ SignalInv /\ ProgramInv /\ [PipelineNext]_pipelineVars
        => ProgramInv'
  BY ProgramStep
<1>3. PluginInv /\ AllRecords /\ SignalInv /\ [PipelineNext]_pipelineVars => SignalInv'
  BY SignalStep
<1>. QED
  BY <1>1, <1>2, <1>3, PipelineRecords, PipelineKeepsPlugin, FilesHold, PTL DEF PipelineSpec

-----------------------------------------------------------------------------
(* The instructions of the loaded data are those of the loaded blocks, with    *)
(* the records the guest's run left; an executed one has its number.          *)
LEMMA LoadedInstsAre ==
  ASSUME PluginInv, AllRecords, ExitInv, Loaded,
         NEW S \in SUBSET Block, Keepable(S), data = LoadedData(S)
  PROVE  /\ \A b \in S : b \in Block /\ saved[b] # None
         /\ \A b \in S : \A n \in 1 .. Length[b] :
              /\ <<LoadedBlock(b), n>> \in AP!Insts
              /\ AP!Fields(<<LoadedBlock(b), n>>) = LoadedInst(b, n)
         /\ \A j \in AP!Insts : \E b \in S : \E n \in 1 .. Length[b] :
              /\ j = <<LoadedBlock(b), n>> /\ AP!Fields(j) = LoadedInst(b, n)
              /\ <<b, n>> \in Inst
              /\ AP!Fields(j).fvalid => <<b, n>> \in stored
<1>1. \A b \in S : b \in Block /\ saved[b] # None
  BY DEF Keepable
<1>2. data.blocks = {LoadedBlock(b) : b \in S} /\ data \in Saves
  BY DEF LoadedData, Loaded, AP!AnalysisInv, AP!AnalysisTypeOK
<1>3. \A b \in S : /\ DOMAIN LoadedBlock(b).insts = 1 .. Length[b]
                   /\ \A n \in 1 .. Length[b] : LoadedBlock(b).insts[n] = LoadedInst(b, n)
  BY <1>1, LoadedBlockIs
<1>4. ASSUME NEW b \in S, NEW n \in 1 .. Length[b]
      PROVE  /\ <<LoadedBlock(b), n>> \in AP!Insts
             /\ AP!Fields(<<LoadedBlock(b), n>>) = LoadedInst(b, n)
  BY <1>2, <1>3, SavesAssumption, AP!InstsAre DEF AP!Fields
<1>5. ASSUME NEW b \in S, NEW n \in 1 .. Length[b]
      PROVE  <<b, n>> \in Inst /\ (LoadedInst(b, n).fvalid => <<b, n>> \in stored)
  <2>1. <<b, n>> \in Inst /\ LoadedInst(b, n).fvalid = insts[<<b, n>>].fvalid
    BY <1>1, LoadedRecord
  <2>2. \A v \in VCPU : at[v].step = "out"
    BY DEF ExitInv, Loaded
  <2>3. insts[<<b, n>>].fvalid => <<b, n>> \in stored
    BY <2>1, <2>2 DEF AllRecords, RecordedInv, NumberedOnce
  <2>. QED
    BY <2>1, <2>3
<1>6. ASSUME NEW j \in AP!Insts
      PROVE  \E b \in S : \E n \in 1 .. Length[b] : j = <<LoadedBlock(b), n>>
  <2>1. j[1] \in data.blocks /\ j[2] \in DOMAIN j[1].insts /\ j = <<j[1], j[2]>>
    BY <1>2, SavesAssumption, AP!InstsAre
  <2>2. PICK b \in S : j[1] = LoadedBlock(b)
    BY <1>2, <2>1
  <2>. QED
    BY <1>3, <2>1, <2>2
<1>. QED
  BY <1>1, <1>4, <1>5, <1>6

(* The edges of the result, by where they come from. *)
LEMMA NextEdges ==
  ASSUME AP!AnalysisInv, NEW e \in found, e.k = "next"
  PROVE  \/ \E x \in data.edge_map : e = [k |-> "next", dst |-> x.dst, src |-> x.src]
         \/ \E j \in AP!Insts : AP!Fields(j).fvalid /\ e = AP!Link(j)
<1>1. stage \notin {"sort", "map"} /\ data \in Saves
  BY DEF AP!AnalysisInv, AP!StageInv, AP!AnalysisTypeOK
<1>2. {x \in found : x.k = "next"} =
        AP!Logged \cup {AP!Link(i) : i \in {j \in AP!Insts : j[1] \in AP!Done /\ j[2] \in AP!Starts(j[1])}}
  BY <1>1 DEF AP!AnalysisInv, AP!NextInv
<1>3. \A j \in AP!Insts : j[2] \in AP!Starts(j[1]) => AP!Fields(j).fvalid
  BY DEF AP!Starts, AP!Fields
<1>. QED
  BY <1>2, <1>3 DEF AP!Logged, AP!Edge

LEMMA SignaledEdges ==
  ASSUME AP!AnalysisInv, NEW e \in found, e.k = "signaled", e.src # e.dst
  PROVE  \E n \in DOMAIN data.interrupts : data.interrupts[n].dst_real = e.dst
<1>1. PICK i \in AP!Interrupts : e \in AP!LinkOf(i)
  BY DEF AP!AnalysisInv, AP!SignalInv
<1>2. e.dst = i.dst_real
  BY <1>1 DEF AP!LinkOf, AP!Edge
<1>. QED
  BY <1>1, <1>2 DEF AP!Interrupts

(* Once analysed, what was logged and what each block's first instruction      *)
(* recorded is in the result.                                               *)
LEMMA KeptEdges ==
  ASSUME AP!AnalysisInv, AP!Analysed
  PROVE  /\ \A x \in data.edge_map : [k |-> "next", dst |-> x.dst, src |-> x.src] \in found
         /\ \A j \in AP!Insts : j[2] = 1 /\ AP!Fields(j).fvalid => AP!Link(j) \in found
<1>1. stage \notin {"sort", "map"} /\ data \in Saves /\ AP!Done = data.blocks
  BY SavesAssumption, AP!AllDone
<1>2. {x \in found : x.k = "next"} =
        AP!Logged \cup {AP!Link(i) : i \in {j \in AP!Insts : j[1] \in AP!Done /\ j[2] \in AP!Starts(j[1])}}
  BY <1>1 DEF AP!AnalysisInv, AP!NextInv
<1>3. \A j \in AP!Insts : j[1] \in data.blocks /\ j[2] \in DOMAIN j[1].insts
  BY <1>1, SavesAssumption, AP!InstsAre
<1>4. \A b : AP!Before(b, 1) = {}
  BY DEF AP!Before
<1>5. \A j \in AP!Insts : j[2] = 1 /\ AP!Fields(j).fvalid => j[2] \in AP!Starts(j[1])
  BY <1>3, <1>4 DEF AP!Starts, AP!Chained, AP!Fields
<1>6. \A j \in AP!Insts : j[2] = 1 /\ AP!Fields(j).fvalid => AP!Link(j) \in found
  BY <1>1, <1>2, <1>3, <1>5
<1>7. \A x \in data.edge_map : [k |-> "next", dst |-> x.dst, src |-> x.src] \in found
  BY <1>2 DEF AP!Logged, AP!Edge
<1>. QED
  BY <1>6, <1>7

-----------------------------------------------------------------------------
(* Nothing is lost ... *)
LEMMA WaysKept ==
  ASSUME PluginInv, AllRecords, ExitInv, Loaded, AP!Analysed,
         NEW i \in stored, IsLoaded(i), NEW p \in preds[i]
  PROVE  \/ Next(i, p) \in found
         \/ p = <<i[1], i[2] - 1>>
         \/ \E v \in VCPU : [dst |-> insts[i].real_pc, src |-> RealOf(p)] \in buffered[v]
<1>1. PICK S \in SUBSET Block : Keepable(S) /\ data = LoadedData(S)
  BY DEF Loaded
<1>2. i \in Inst /\ i[1] \in Block /\ i[2] \in 1 .. Length[i[1]] /\ i = <<i[1], i[2]>>
  BY DEF AllRecords, RecordInv, CellInv, Inst
<1>3. Length[i[1]] \in Nat \ {0}
  BY <1>2, ExecAssumption
<1>4. CASE i[2] > 1
  BY <1>2, <1>4 DEF AllRecords, PathInv
<1>5. CASE i[2] = 1
  <2> DEFINE c == i[1]
             j == <<LoadedBlock(c), 1>>
  <2>1. c \in S
    <3>1. PICK b \in S : LoadedBlock(b).id = id[i[1]]
      BY <1>1 DEF IsLoaded, LoadedData
    <3>2. id[b] = id[i[1]] /\ id[b] # None /\ b \in Block
      BY <1>1, <3>1, LoadedInstsAre, LoadedBlockIs DEF Loaded
    <3>. QED
      BY <1>2, <3>2 DEF PluginInv, IdInv
  <2>2. 1 \in 1 .. Length[c] /\ i = <<c, 1>>
    BY <1>2, <1>3, <1>5
  <2>3. /\ j \in AP!Insts /\ AP!Fields(j) = LoadedInst(c, 1)
        /\ c \in Block /\ saved[c] # None
    BY <1>1, <2>1, <2>2, LoadedInstsAre DEF Loaded
  <2>4. /\ LoadedInst(c, 1).fvalid = insts[i].fvalid
        /\ LoadedInst(c, 1).real_pc = insts[i].real_pc
        /\ LoadedInst(c, 1).prev_real_pc = insts[i].prev_real_pc
    BY <2>2, <2>3, LoadedRecord
  <2>5. insts[i].fvalid
    BY DEF AllRecords, RecordedInv, NumberedOnce
  <2>6. AP!Link(j) \in found
    <3>1. j[2] = 1 /\ AP!Fields(j).fvalid
      BY <2>3, <2>4, <2>5
    <3> HIDE DEF j
    <3>. QED
      BY <2>3, <3>1, KeptEdges DEF Loaded
  <2>7. AP!Link(j) = [k |-> "next", dst |-> insts[i].real_pc, src |-> insts[i].prev_real_pc]
    BY <2>3, <2>4 DEF AP!Link, AP!Edge
  <2>8. RealOf(p) \in Recorded(i)
    BY <2>2, <2>3 DEF AllRecords, RecordedInv, ReentryRecorded
  <2>9. CASE RealOf(p) = insts[i].prev_real_pc
    BY <2>6, <2>7, <2>9 DEF Next
  <2>10. ASSUME NEW v \in VCPU, NEW e \in edges[v], e.dst = insts[i].real_pc, e.src = RealOf(p)
         PROVE  Next(i, p) \in found \/ [dst |-> insts[i].real_pc, src |-> RealOf(p)] \in buffered[v]
    <3>1. e = [dst |-> insts[i].real_pc, src |-> RealOf(p)]
      <4>1. e \in [dst : Nat, src : Nat]
        BY DEF AllRecords, RecordedInv, EdgeEnds
      <4>. QED
        BY <2>10, <4>1
    <3>2. CASE e \in buffered[v]
      BY <3>1, <3>2
    <3>3. CASE e \notin buffered[v]
      <4>1. [k |-> "next", dst |-> e.dst, src |-> e.src] \in EdgeFiles
        BY <3>3 DEF EdgeFiles, OfKind
      <4>2. [k |-> "next", dst |-> e.dst, src |-> e.src] \in data.edge_map
        BY <1>1, <4>1 DEF LoadedData
      <4> DEFINE x == [k |-> "next", dst |-> e.dst, src |-> e.src]
      <4>3. [k |-> "next", dst |-> x.dst, src |-> x.src] \in found
        BY <4>2, KeptEdges DEF Loaded
      <4>. QED
        BY <2>10, <4>3 DEF Next
    <3>. QED
      BY <3>2, <3>3
  <2>. QED
    BY <2>8, <2>9, <2>10, RecordedIs
<1>. QED
  BY <1>2, <1>3, <1>4, <1>5

(* ... and nothing invented. *)
LEMMA NextHappened ==
  ASSUME PluginInv, AllRecords, ExitInv, SignalInv, Loaded, NEW e \in found, e.k = "next", e.src # 0
  PROVE  Happened(e) \/ StartUp(e)
<1>1. PICK S \in SUBSET Block : Keepable(S) /\ data = LoadedData(S)
  BY DEF Loaded
<1>2. ASSUME NEW x \in data.edge_map, e = [k |-> "next", dst |-> x.dst, src |-> x.src]
      PROVE  Happened(e) \/ StartUp(e)
  <2>1. x \in EdgeFiles
    BY <1>1 DEF LoadedData
  <2>2. ASSUME NEW v \in VCPU, NEW y \in edges[v], e.dst = y.dst, e.src = y.src
        PROVE  Happened(e)
    <3>1. PICK i \in stored : insts[i].real_pc = y.dst /\ \E p \in preds[i] : y.src = RealOf(p)
      BY DEF AllRecords, RecordedInv, EdgeEnds
    <3>. QED
      BY <2>2, <3>1 DEF Happened
  <2>3. ASSUME NEW y \in signals, e.dst = y.dst, e.src = y.src
        PROVE  StartUp(e)
    BY <2>3 DEF SignalInv, Sent, StartUp
  <2>4. \/ \E v \in VCPU : \E y \in edges[v] : x.dst = y.dst /\ x.src = y.src
        \/ \E y \in signals : x.dst = y.dst /\ x.src = y.src
    BY <2>1 DEF EdgeFiles, OfKind
  <2>. QED
    BY <1>2, <2>2, <2>3, <2>4
<1>3. ASSUME NEW j \in AP!Insts, AP!Fields(j).fvalid, e = AP!Link(j)
      PROVE  Happened(e)
  <2>1. PICK b \in S : \E n \in 1 .. Length[b] :
          /\ j = <<LoadedBlock(b), n>> /\ AP!Fields(j) = LoadedInst(b, n)
          /\ <<b, n>> \in Inst
          /\ AP!Fields(j).fvalid => <<b, n>> \in stored
    BY <1>1, LoadedInstsAre DEF Loaded
  <2>2. PICK n \in 1 .. Length[b] :
          /\ AP!Fields(j) = LoadedInst(b, n)
          /\ <<b, n>> \in Inst
          /\ AP!Fields(j).fvalid => <<b, n>> \in stored
    BY <2>1
  <2>3. b \in Block /\ saved[b] # None
    BY <1>1, LoadedInstsAre DEF Loaded
  <2>4. <<b, n>> \in stored
    BY <1>3, <2>2
  <2>5. e.dst = insts[<<b, n>>].real_pc /\ e.src = insts[<<b, n>>].prev_real_pc
    BY <1>3, <2>2, <2>3, LoadedRecord DEF AP!Link, AP!Edge
  <2>6. PICK p \in preds[<<b, n>>] \cup entered[<<b, n>>] : RealOf(p) = insts[<<b, n>>].prev_real_pc
    BY <2>2, <2>5 DEF AllRecords, PathInv
  <2>. QED
    BY <2>4, <2>5, <2>6 DEF Happened
<1>. QED
  BY <1>2, <1>3, NextEdges DEF Loaded

(* The result of the analysis is what the guest did, but for the edges left in *)
(* the buffers at exit, those from real PC 0 and start-up signals: through     *)
(* flushes, retranslations, interrupts and idles, for any number of vCPUs, as  *)
(* long as none runs an instruction that another one is still numbering.      *)
THEOREM TransitionsAreKept == PipelineSpec /\ []RaceFree => []TransitionsKept
<1>1. PluginInv /\ AllRecords /\ ExitInv /\ SignalInv /\ ProgramInv => TransitionsKept
  <2> SUFFICES ASSUME PluginInv, AllRecords, ExitInv, SignalInv, ProgramInv PROVE TransitionsKept
    OBVIOUS
  <2>1. CASE stage = "emulator"
    BY <2>1 DEF ProgramInv, Empty, TransitionsKept, Program!Analysed
  <2>2. CASE stage # "emulator"
    <3>1. Loaded
      BY <2>2 DEF ProgramInv
    <3>2. Program!Analysed => AP!Analysed
      BY DEF Program!Analysed, AP!Analysed
    <3>. QED
      BY <3>1, <3>2, WaysKept, NextHappened DEF TransitionsKept
  <2>. QED
    BY <2>1, <2>2
<1>. QED
  BY <1>1, ProgramHolds, PTL

(* An edge that signals another instruction leads to the first instruction of  *)
(* a block at the target of an interrupt that is in the save file, under the   *)
(* same hypothesis.                                                         *)
THEOREM InterruptsReachTargets == PipelineSpec /\ []RaceFree => []InterruptTargets
<1>1. SavedInv /\ ProgramInv => InterruptTargets
  <2> SUFFICES ASSUME SavedInv, ProgramInv, NEW e \in found,
                      e.k = "signaled", e.src # e.dst, e.dst # 0
               PROVE  \E n \in DOMAIN saved_ints, b \in Block :
                        /\ saved_ints[n].dst_real = e.dst
                        /\ start[b] = saved_ints[n].dst /\ insts[<<b, 1>>].real_pc = e.dst
    BY DEF InterruptTargets
  <2>1. Loaded
    BY DEF ProgramInv, Empty
  <2>2. PICK S \in SUBSET Block : data = LoadedData(S)
    BY <2>1 DEF Loaded
  <2>3. PICK n \in DOMAIN data.interrupts : data.interrupts[n].dst_real = e.dst
    BY <2>1, SignaledEdges DEF Loaded
  <2>4. data.interrupts = LoadedInts
    BY <2>2 DEF LoadedData
  <2>5. n \in DOMAIN saved_ints /\ saved_ints[n] \in GoodInt /\ saved_ints[n].dst_real = e.dst
    BY <2>3, <2>4, LoadedIntsAre
  <2>6. Resolved(saved_ints[n])
    BY <2>5 DEF GoodInt
  <2>. QED
    BY <2>5, <2>6 DEF Resolved
<1>. QED
  BY <1>1, ProgramHolds, PTL

(* The hypothesis holds when no two vCPUs run the same block.                *)
THEOREM PrivateRunsAreKept ==
  ASSUME BlocksPrivate
  PROVE  PipelineSpec => []TransitionsKept /\ []InterruptTargets
<1>1. PipelineSpec => []RaceFree
  BY PrivateBlocksAreRaceFree, PipelineKeepsPlugin, PluginKeepsRecords, PTL
<1>. QED
  BY <1>1, TransitionsAreKept, InterruptsReachTargets, PTL
=============================================================================
