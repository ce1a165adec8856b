-------------------------- MODULE Analysis_proofs --------------------------
(***************************************************************************)
(* Proofs about Analysis, for any save data: the predecessors that were      *)
(* recorded are in the result, interrupts become edges from what their       *)
(* source meant then, and what is flagged as a taken branch was.            *)
(***************************************************************************)
EXTENDS Analysis, FiniteSetTheorems, FunctionTheorems, SequenceTheorems,
        WellFoundedInduction, TLAPS

USE AnalysisAssumption DEF AnalysisAssumption

(* The blocks analysed, the runs in blocks B that start at address p. *)
Done == {sorted_blocks_global_id[k] : k \in 1 .. blk}
Runs(B, p) == {j \in Insts : j[1] \in B /\ j[2] \in Starts(j[1]) /\ Fields(j).pc = p}
Interrupts == {data.interrupts[k] : k \in DOMAIN data.interrupts}
LinkOf(i) ==
  UNION {{Edge("signaled", i.dst_real, Fields(j).real_pc) : j \in Newest(Sources(i, b))} :
           b \in Turn(i)}
EdgeType == [k : {"signaled", "next"}, dst : Nat, src : Nat]

AnalysisTypeOK ==
  /\ data \in Input
  /\ sorted_blocks_global_id \in Seq(data.blocks)
  /\ interrupts \in Seq(InterruptData)
  /\ blk \in 0 .. Len(sorted_blocks_global_id)
  /\ ints_idx \in 0 .. Len(interrupts)
  /\ vaddr_pending \subseteq Pcs
  /\ vaddr_to_real_pc \in [Pcs -> Nat \cup {None}]
  /\ edges \subseteq EdgeType
  /\ stage \in {"sort", "map", "blocks", "flags", "done"}

(* Blocks come in the order of their ids, interrupts too. *)
SortInv ==
  stage # "sort" =>
    /\ {sorted_blocks_global_id[k] : k \in DOMAIN sorted_blocks_global_id} = data.blocks
    /\ \A j, k \in DOMAIN sorted_blocks_global_id :
         j < k => sorted_blocks_global_id[j].id < sorted_blocks_global_id[k].id
    /\ {interrupts[k] : k \in DOMAIN interrupts} = Interrupts
    /\ \A j, k \in DOMAIN interrupts : j < k => interrupts[j].id <= interrupts[k].id

StageInv ==
  /\ stage \in {"sort", "map"} => blk = 0 /\ ints_idx = 0 /\ edges = {}
  /\ Analysed => blk = Len(sorted_blocks_global_id)

(* An address means the newest run that starts at it. *)
MapInv ==
  \A p \in Pcs : IF vaddr_to_real_pc[p] = None THEN Runs(Done, p) = {}
                 ELSE \E j \in Newest(Runs(Done, p)) : vaddr_to_real_pc[p] = Fields(j).real_pc

(* Every run has its edge, and nothing else but the log has one. *)
NextInv ==
  stage \notin {"sort", "map"} =>
    {e \in edges : e.k = "next"} =
      Logged \cup {Link(i) : i \in {j \in Insts : j[1] \in Done /\ j[2] \in Starts(j[1])}}

(* The interrupts taken are those logged before the last block. *)
TakenInv ==
  /\ \A k \in 1 .. ints_idx : \E b \in Done : interrupts[k].id <= b.id
  /\ \A k \in ints_idx + 1 .. Len(interrupts) : \A b \in Done : b.id < interrupts[k].id

SignalInv ==
  /\ \A k \in 1 .. ints_idx : LinkOf(interrupts[k]) \subseteq edges
  /\ \A e \in edges : e.k = "signaled" => e.src = e.dst \/ \E i \in Interrupts : e \in LinkOf(i)

FlagInv ==
  stage = "done" => \A i \in Insts : <<"fother_branch_edge", i>> \in finsts =>
                      \E d \in Destinations(i) : Taken(i[1], d)

AnalysisInv == /\ AnalysisTypeOK /\ SortInv /\ StageInv /\ MapInv /\ NextInv
               /\ TakenInv /\ SignalInv /\ FlagInv

-----------------------------------------------------------------------------
(* Of numbers there is a least one, of numbers up to n a greatest; and what   *)
(* holds of 0 and passes from each number to the next holds of all: stated   *)
(* of sets, where the library's induction is stated of operators.           *)
LEMMA LeastNumber ==
  ASSUME NEW T \in SUBSET Nat, T # {}
  PROVE  \E x \in T : \A y \in T : x <= y
<1> DEFINE R == OpToRel(<, Nat)
<1>1. IsWellFoundedOn(R, Nat)
  BY NatLessThanWellFounded
<1>2. \A x, y \in Nat : <<y, x>> \in R <=> y < x
  BY DEF OpToRel
<1> HIDE DEF R
<1>3. PICK x \in T : \A y \in T : ~(<<y, x>> \in R)
  BY <1>1, WFMin
<1>4. \A y \in T : x \in Nat /\ y \in Nat /\ ~(y < x)
  BY <1>2, <1>3
<1>5. \A y \in T : x <= y
  BY <1>4
<1> QED
  BY <1>5

LEMMA GreatestNumber ==
  ASSUME NEW n \in Nat, NEW T \in SUBSET (1 .. n), T # {}
  PROVE  \E x \in T : \A y \in T : y <= x
<1> DEFINE U == {m \in 0 .. n : n - m \in T}
<1>1. PICK t \in T : t \in 1 .. n
  OBVIOUS
<1>2. n - t \in U
  BY <1>1
<1>3. U \in SUBSET Nat /\ U # {}
  BY <1>2
<1>4. PICK u \in U : \A v \in U : u <= v
  BY <1>3, LeastNumber
<1>5. \A y \in T : y \in 1 .. n /\ n - y \in U
  OBVIOUS
<1>6. u \in 0 .. n /\ \A y \in T : y \in 1 .. n /\ u <= n - y
  BY <1>4, <1>5
<1>7. n - u \in T /\ \A y \in T : y <= n - u
  BY <1>4, <1>6
<1> QED
  BY <1>7

LEMMA NumberInduction ==
  ASSUME NEW S, 0 \in S, \A n \in Nat : n \in S => n + 1 \in S
  PROVE  Nat \subseteq S
<1> SUFFICES ASSUME NEW b \in Nat, b \notin S
             PROVE  FALSE
  OBVIOUS
<1> DEFINE T == {n \in Nat : n \notin S}
<1>1. PICK x \in T : \A y \in T : x <= y
  <2>1. b \in T
    OBVIOUS
  <2>2. T \in SUBSET Nat /\ T # {}
    BY <2>1
  <2> QED
    BY <2>2, LeastNumber
<1>2. x # 0 /\ x \in Nat /\ x \notin S
  OBVIOUS
<1>3. x - 1 \in Nat /\ x - 1 \in S
  BY <1>1, <1>2
<1> QED
  BY <1>2, <1>3

LEMMA LatestIs ==
  ASSUME NEW n \in Nat, NEW T \in SUBSET (1 .. n), T # {}
  PROVE  Latest(T) \in T /\ \A k \in T : k <= Latest(T)
  BY GreatestNumber DEF Latest

(* Steps up make a sequence that goes up. *)
LEMMA Ascending ==
  ASSUME NEW S, NEW s \in Seq(S), \A x \in S : x.id \in Nat, ById(s)
  PROVE  \A j, k \in DOMAIN s : j < k => s[j].id <= s[k].id
<1> DEFINE T == {n \in Nat : \A j \in DOMAIN s : j + n \in DOMAIN s => s[j].id <= s[j + n].id}
<1>1. Len(s) \in Nat /\ DOMAIN s = 1 .. Len(s) /\ \A k \in DOMAIN s : s[k].id \in Nat
  OBVIOUS
<1>2. \A k \in 1 .. Len(s) - 1 : s[k].id <= s[k + 1].id
  BY DEF ById
<1> HIDE DEF ById
<1>3. 0 \in T
  BY <1>1
<1>4. ASSUME NEW n \in Nat, n \in T
      PROVE  n + 1 \in T
  <2> SUFFICES ASSUME NEW j \in DOMAIN s, j + (n + 1) \in DOMAIN s
               PROVE  s[j].id <= s[j + (n + 1)].id
    OBVIOUS
  <2>1. j + n \in DOMAIN s /\ j + n \in 1 .. Len(s) - 1 /\ (j + n) + 1 = j + (n + 1)
    BY <1>1
  <2>2. s[j].id <= s[j + n].id /\ s[j + n].id <= s[(j + n) + 1].id
    BY <1>2, <1>4, <2>1
  <2> QED
    BY <1>1, <2>1, <2>2
<1>5. Nat \subseteq T
  <2> HIDE DEF T
  <2> QED
    BY <1>3, <1>4, NumberInduction
<1>6. SUFFICES ASSUME NEW j \in DOMAIN s, NEW k \in DOMAIN s, j < k
               PROVE  s[j].id <= s[k].id
  OBVIOUS
<1>7. k - j \in Nat /\ j + (k - j) = k
  BY <1>1, <1>6
<1>8. k - j \in T
  BY <1>5, <1>7
<1> QED
  BY <1>6, <1>7, <1>8

-----------------------------------------------------------------------------
LEMMA DataIs ==
  ASSUME data \in Input
  PROVE  /\ data.blocks \subseteq BlockData /\ IsFiniteSet(data.blocks)
         /\ \A b, c \in data.blocks : b.id = c.id => b = c
         /\ data.interrupts \in Seq(InterruptData)
         /\ data.edge_map \subseteq EdgeData
  BY DEF SaveData

LEMMA BlockIs ==
  ASSUME NEW b \in BlockData
  PROVE  /\ b.id \in Nat /\ b.loc \in Nat /\ Len(b.insts) \in Nat \ {0}
         /\ DOMAIN b.insts = 1 .. Len(b.insts)
         /\ \A m \in DOMAIN b.insts : b.insts[m] \in InstData
<1>1. b.insts \in Seq(InstData) /\ b.insts # <<>> /\ b.id \in Nat /\ b.loc \in Nat
  BY DEF BlockData
<1> QED
  BY <1>1

LEMMA InstsAre ==
  ASSUME data \in Input
  PROVE  /\ \A b \in data.blocks : \A m \in DOMAIN b.insts : <<b, m>> \in Insts
         /\ \A j \in Insts : /\ j[1] \in data.blocks /\ j[2] \in DOMAIN j[1].insts
                             /\ j = <<j[1], j[2]>>
                             /\ Fields(j) \in InstData /\ Fields(j).pc \in Pcs
<1>1. \A b \in data.blocks : \A m \in DOMAIN b.insts : <<b, m>> \in Insts
  BY DEF Insts
<1>2. ASSUME NEW j \in Insts
      PROVE  /\ j[1] \in data.blocks /\ j[2] \in DOMAIN j[1].insts
             /\ j = <<j[1], j[2]>>
             /\ Fields(j) \in InstData /\ Fields(j).pc \in Pcs
  <2>1. PICK b \in data.blocks : \E m \in DOMAIN b.insts : j = <<b, m>>
    BY DEF Insts
  <2>2. PICK m \in DOMAIN b.insts : j = <<b, m>>
    BY <2>1
  <2>3. b.insts[m] \in InstData /\ Fields(j) = b.insts[m]
    BY <2>2, DataIs, BlockIs DEF Fields
  <2>4. Fields(j).pc \in Pcs
    BY DEF Pcs
  <2> QED
    BY <2>2, <2>3, <2>4
<1> QED
  BY <1>1, <1>2

LEMMA StartsAre ==
  ASSUME NEW b \in BlockData, NEW m \in Starts(b)
  PROVE  m \in DOMAIN b.insts /\ b.insts[m].fvalid /\ ~Chained(b, m)
  BY DEF Starts

(* Newest is one at most. *)
LEMMA NewestIsOne ==
  ASSUME data \in Input, NEW S \in SUBSET Insts, NEW j \in Newest(S), NEW k \in Newest(S)
  PROVE  j = k
<1>1. /\ j[1] \in data.blocks /\ k[1] \in data.blocks /\ j = <<j[1], j[2]>> /\ k = <<k[1], k[2]>>
      /\ j[2] \in DOMAIN j[1].insts /\ k[2] \in DOMAIN k[1].insts
  BY InstsAre DEF Newest
<1>2. j[1].id \in Nat /\ k[1].id \in Nat /\ j[2] \in Nat /\ k[2] \in Nat
  BY <1>1, DataIs, BlockIs
<1>3. /\ k[1].id < j[1].id \/ (k[1].id = j[1].id /\ k[2] <= j[2])
      /\ j[1].id < k[1].id \/ (j[1].id = k[1].id /\ j[2] <= k[2])
  BY DEF Newest
<1>4. j[1].id = k[1].id /\ j[2] = k[2]
  BY <1>2, <1>3
<1>5. j[1] = k[1]
  BY <1>1, <1>4, DataIs
<1> QED
  BY <1>1, <1>4, <1>5

(* A sequence of all elements of a finite set has each of them once. *)
LEMMA AllElements ==
  ASSUME NEW S, IsFiniteSet(S), NEW s \in SetToSeqs(S)
  PROVE  /\ s \in Seq(S) /\ DOMAIN s = 1 .. Cardinality(S)
         /\ {s[k] : k \in DOMAIN s} = S
         /\ \A i, j \in DOMAIN s : i # j => s[i] # s[j]
<1> DEFINE D == 1 .. Cardinality(S)
<1>1. Cardinality(S) \in Nat
  BY FS_CardinalityType
<1>2. s \in [D -> S] /\ \A i, j \in D : i # j => s[i] # s[j]
  BY DEF SetToSeqs
<1>3. s \in Injection(D, S)
  BY <1>2 DEF Injection, IsInjective
<1>4. IsFiniteSet(D) /\ Cardinality(D) = Cardinality(S)
  BY <1>1, FS_Interval
<1>5. s \in Surjection(D, S)
  BY <1>3, <1>4, FS_Injection
<1>6. {s[k] : k \in DOMAIN s} = S
  BY <1>2, <1>5 DEF Surjection
<1> QED
  BY <1>1, <1>2, <1>6

(* A reordered sequence has the same elements. *)
LEMMA ReorderedElements ==
  ASSUME NEW S, NEW s \in Seq(S), NEW t \in Reordered(s)
  PROVE  t \in Seq(S) /\ {t[k] : k \in DOMAIN t} = {s[k] : k \in DOMAIN s}
<1>1. PICK p \in SetToSeqs(DOMAIN s) : t = [k \in DOMAIN s |-> s[p[k]]]
  BY DEF Reordered
<1>2. Len(s) \in Nat /\ DOMAIN s = 1 .. Len(s) /\ \A k \in DOMAIN s : s[k] \in S
  OBVIOUS
<1>3. IsFiniteSet(DOMAIN s) /\ Cardinality(DOMAIN s) = Len(s)
  BY <1>2, FS_Interval
<1>4. DOMAIN p = DOMAIN s /\ {p[k] : k \in DOMAIN p} = DOMAIN s
  BY <1>2, <1>3, AllElements
<1>5. DOMAIN t = 1 .. Len(s) /\ \A k \in 1 .. Len(s) : t[k] = s[p[k]] /\ p[k] \in DOMAIN s
  BY <1>1, <1>2, <1>4
<1>6. \A k \in DOMAIN s : \E m \in DOMAIN s : p[m] = k
  BY <1>4
<1> HIDE <1>1
<1>7. t = [k \in 1 .. Len(s) |-> t[k]] /\ \A k \in 1 .. Len(s) : t[k] \in S
  BY <1>1, <1>2, <1>5
<1>8. t \in Seq(S)
  BY <1>2, <1>7
<1>9. \A k \in DOMAIN t : \E m \in DOMAIN s : t[k] = s[m]
  BY <1>2, <1>5
<1>10. \A m \in DOMAIN s : \E k \in DOMAIN t : t[k] = s[m]
  BY <1>2, <1>5, <1>6
<1>11. {t[k] : k \in DOMAIN t} = {s[k] : k \in DOMAIN s}
  BY <1>9, <1>10
<1> QED
  BY <1>8, <1>11

-----------------------------------------------------------------------------
LEMMA AnalysisInitial == AnalysisInit => AnalysisInv
<1> SUFFICES ASSUME AnalysisInit PROVE AnalysisInv
  OBVIOUS
<1> USE DEF AnalysisInit
<1>1. AnalysisTypeOK
  BY DEF AnalysisTypeOK
<1>2. Done = {}
  BY DEF Done
<1>3. MapInv
  BY <1>2 DEF MapInv, Runs
<1> QED
  BY <1>1, <1>2, <1>3 DEF AnalysisInv, SortInv, StageInv, NextInv, TakenInv, SignalInv, FlagInv,
                          Analysed

(* What is said of the data alone stays. *)
LEMMA DataStays ==
  ASSUME UNCHANGED data
  PROVE  /\ UNCHANGED <<Insts, Pcs, Interrupts, Logged>>
         /\ \A i : LinkOf(i)' = LinkOf(i)
         /\ \A B, p : Runs(B, p)' = Runs(B, p)
  BY DEF Insts, Pcs, Interrupts, Logged, LinkOf, Runs, Turn, Sources, Newest, Starts, Chained,
         Before, Fields

LEMMA SortStep ==
  ASSUME AnalysisInv, Sort
  PROVE  AnalysisInv'
<1> USE DEF Sort
<1>1. /\ data \in Input /\ data' = data
      /\ blk = 0 /\ ints_idx = 0 /\ edges = {} /\ edges' = {} /\ Done = {}
      /\ UNCHANGED <<Insts, Pcs, Interrupts>>
  BY DataStays DEF AnalysisInv, AnalysisTypeOK, StageInv, Done
<1> DEFINE t == interrupts'
<1>2. data.interrupts \in Seq(InterruptData) /\ t \in Reordered(data.interrupts) /\ ById(t)
  BY <1>1, DataIs
<1>3. /\ t \in Seq(InterruptData) /\ {t[k] : k \in DOMAIN t} = Interrupts
      /\ \A j, k \in DOMAIN t : j < k => t[j].id <= t[k].id
  <2> HIDE DEF t
  <2>1. /\ t \in Seq(InterruptData)
        /\ {t[k] : k \in DOMAIN t} = {data.interrupts[k] : k \in DOMAIN data.interrupts}
    BY ONLY <1>2, ReorderedElements
  <2>2. \A x \in InterruptData : x.id \in Nat
    BY DEF InterruptData
  <2> QED
    BY <1>2, <2>1, <2>2, Ascending DEF Interrupts
<1> DEFINE s == sorted_blocks_global_id'
<1>4. /\ s \in Seq(data.blocks) /\ {s[k] : k \in DOMAIN s} = data.blocks
      /\ \A j, k \in DOMAIN s : j # k => s[j] # s[k]
  BY <1>1, DataIs, AllElements
<1>5. \A b \in data.blocks : b.id \in Nat
  BY <1>1, DataIs, BlockIs
<1>6. \A j, k \in DOMAIN s : j < k => s[j].id <= s[k].id
  BY <1>4, <1>5, Ascending
<1>7. \A j, k \in DOMAIN s : j < k => s[j].id < s[k].id
  <2> SUFFICES ASSUME NEW j \in DOMAIN s, NEW k \in DOMAIN s, j < k
               PROVE  s[j].id < s[k].id
    OBVIOUS
  <2>1. j # k /\ s[j] \in data.blocks /\ s[k] \in data.blocks
    BY <1>4
  <2>2. s[j].id # s[k].id
    BY <1>1, <1>4, <2>1, DataIs
  <2> QED
    BY <1>5, <1>6, <2>1, <2>2
<1>8. AnalysisTypeOK'
  BY <1>1, <1>3, <1>4 DEF AnalysisInv, AnalysisTypeOK
<1>9. SortInv'
  BY <1>1, <1>3, <1>4, <1>7 DEF SortInv
<1>10. Done' = {}
  BY <1>1 DEF Done
<1>11. MapInv'
  BY <1>1, <1>10, DataStays DEF AnalysisInv, MapInv, Runs, Newest
<1> QED
  BY <1>1, <1>8, <1>9, <1>10, <1>11
     DEF AnalysisInv, StageInv, NextInv, TakenInv, SignalInv, FlagInv, Analysed

LEMMA EmitStep ==
  ASSUME AnalysisInv, EmitEdgeMap
  PROVE  AnalysisInv'
<1> USE DEF EmitEdgeMap
<1>1. /\ data \in Input /\ data' = data
      /\ blk = 0 /\ ints_idx = 0 /\ edges = {} /\ Done = {} /\ Done' = {}
      /\ UNCHANGED <<Insts, Pcs, Interrupts, Logged>> /\ edges' = Logged
  BY DataStays DEF AnalysisInv, AnalysisTypeOK, StageInv, Done, Logged
<1>2. \A e \in Logged : e \in EdgeType /\ e.k = "next"
  BY <1>1, DataIs DEF Logged, EdgeType, EdgeData, Edge
<1>3. AnalysisTypeOK'
  BY <1>1, <1>2 DEF AnalysisInv, AnalysisTypeOK
<1>4. SortInv'
  BY <1>1 DEF AnalysisInv, SortInv
<1>5. MapInv'
  BY <1>1, DataStays DEF AnalysisInv, MapInv, Runs, Newest
<1>6. NextInv'
  BY <1>1, <1>2 DEF NextInv
<1>7. SignalInv'
  BY <1>1, <1>2 DEF SignalInv
<1> QED
  BY <1>1, <1>3, <1>4, <1>5, <1>6, <1>7
     DEF AnalysisInv, StageInv, TakenInv, FlagInv, Analysed

-----------------------------------------------------------------------------
(* The parts of AnalyzeBlock: the block, what addresses mean after it, the    *)
(* sources found, the interrupts that are due and those with a source.      *)
Block == sorted_blocks_global_id[blk + 1]
Heads(p) == {n \in Starts(Block) : Block.insts[n].pc = p}
Mapped == [p \in Pcs |-> IF Heads(p) = {} THEN vaddr_to_real_pc[p]
                        ELSE Block.insts[Latest(Heads(p))].real_pc]
FoundNow == {p \in vaddr_pending : Mapped[p] # None}
DueNow == {interrupts[k] : k \in Due(Block)}
Known == {i \in DueNow : Mapped[i.src] # None}

LEMMA AnalyzeIs ==
  ASSUME AnalyzeBlock
  PROVE  /\ stage = "blocks" /\ blk < Len(sorted_blocks_global_id)
         /\ vaddr_to_real_pc' = Mapped
         /\ edges' = edges
              \cup {Edge("next", Block.insts[m].real_pc, Block.insts[m].prev_real_pc) :
                      m \in Starts(Block)}
              \cup {Edge("signaled", Mapped[p], Mapped[p]) : p \in FoundNow}
              \cup {Edge("signaled", i.dst_real, Mapped[i.src]) : i \in Known}
         /\ vaddr_pending' = (vaddr_pending \ FoundNow) \cup {i.src : i \in DueNow \ Known}
         /\ ints_idx' = ints_idx + Cardinality(Due(Block))
         /\ blk' = blk + 1
         /\ UNCHANGED <<data, sorted_blocks_global_id, interrupts, finsts, stage>>
  BY DEF AnalyzeBlock, Block, Heads, Mapped, FoundNow, DueNow, Known

(* The block is the first one not done. *)
LEMMA BlockIsNext ==
  ASSUME AnalysisInv, stage = "blocks", blk < Len(sorted_blocks_global_id)
  PROVE  /\ data \in Input /\ Block \in data.blocks /\ Block \in BlockData
         /\ Done \subseteq data.blocks
         /\ \A c \in Done : c.id < Block.id
         /\ \A c \in data.blocks : c \notin Done => Block.id <= c.id
         /\ {sorted_blocks_global_id[k] : k \in 1 .. blk + 1} = Done \cup {Block}
<1> DEFINE s == sorted_blocks_global_id
<1>1. data \in Input /\ s \in Seq(data.blocks) /\ blk \in Nat /\ blk + 1 \in DOMAIN s
  BY DEF AnalysisInv, AnalysisTypeOK
<1>2. /\ \A c \in data.blocks : \E k \in DOMAIN s : c = s[k]
      /\ \A j, k \in DOMAIN s : j < k => s[j].id < s[k].id
  BY DEF AnalysisInv, SortInv
<1>3. Len(s) \in Nat /\ DOMAIN s = 1 .. Len(s) /\ \A k \in DOMAIN s : s[k] \in data.blocks
  BY <1>1
<1>4. \A c \in data.blocks : c \in BlockData /\ c.id \in Nat
  BY <1>1, DataIs, BlockIs
<1>5. Block = s[blk + 1] /\ Block \in data.blocks
  BY <1>1, <1>3 DEF Block
<1>6. \A c \in Done : \E k \in 1 .. blk : c = s[k]
  BY DEF Done
<1>7. \A k \in 1 .. blk : s[k] \in Done
  BY DEF Done
<1> HIDE DEF s
<1>8. ASSUME NEW c \in Done
      PROVE  c \in data.blocks /\ c.id < Block.id
  <2>1. PICK k \in 1 .. blk : c = s[k]
    BY <1>6
  <2>2. k \in DOMAIN s /\ k < blk + 1
    BY <1>1, <1>3
  <2> QED
    BY <1>1, <1>2, <1>3, <1>5, <2>1, <2>2
<1>9. ASSUME NEW c \in data.blocks, c \notin Done
      PROVE  Block.id <= c.id
  <2>1. PICK k \in DOMAIN s : c = s[k]
    BY <1>2
  <2>2. k = blk + 1 \/ blk + 1 < k
    BY <1>1, <1>3, <1>7, <1>9, <2>1
  <2> QED
    BY <1>1, <1>2, <1>4, <1>5, <2>1, <2>2
<1>10. {s[k] : k \in 1 .. blk + 1} = Done \cup {Block}
  <2>1. \A k \in 1 .. blk + 1 : k \in 1 .. blk \/ k = blk + 1
    BY <1>1
  <2>2. \A k \in 1 .. blk + 1 : s[k] \in Done \cup {Block}
    BY <1>5, <1>7, <2>1
  <2>3. \A c \in Done \cup {Block} : \E k \in 1 .. blk + 1 : c = s[k]
    BY <1>1, <1>5, <1>6
  <2> QED
    BY <2>2, <2>3
<1> QED
  BY <1>1, <1>4, <1>5, <1>8, <1>9, <1>10 DEF s

(* The map after a block is the map of the runs of the blocks so far. *)
LEMMA MappedIs ==
  ASSUME AnalysisInv, stage = "blocks", blk < Len(sorted_blocks_global_id), NEW p \in Pcs
  PROVE  /\ Mapped[p] \in Nat \cup {None}
         /\ IF Mapped[p] = None THEN Runs(Done \cup {Block}, p) = {}
            ELSE \E j \in Newest(Runs(Done \cup {Block}, p)) : Mapped[p] = Fields(j).real_pc
<1>1. /\ data \in Input /\ Block \in data.blocks /\ Block \in BlockData
      /\ \A c \in Done : c.id < Block.id
  BY BlockIsNext
<1>2. Heads(p) \subseteq DOMAIN Block.insts /\ DOMAIN Block.insts = 1 .. Len(Block.insts)
      /\ Len(Block.insts) \in Nat
  BY <1>1, BlockIs DEF Heads, Starts
<1>3. \A n \in Heads(p) : <<Block, n>> \in Runs(Done \cup {Block}, p)
  BY <1>1, <1>2, InstsAre DEF Heads, Runs, Fields
<1>4. \A j \in Runs(Done \cup {Block}, p) :
        j \in Runs(Done, p) \/ (j[1] = Block /\ j[2] \in Heads(p) /\ j = <<Block, j[2]>>)
  BY <1>1, InstsAre DEF Heads, Runs, Fields
<1>5. Runs(Done, p) \subseteq Runs(Done \cup {Block}, p)
  BY DEF Runs
<1>6. CASE Heads(p) = {}
  <2>1. Runs(Done \cup {Block}, p) = Runs(Done, p)
    BY <1>4, <1>5, <1>6
  <2>2. Mapped[p] = vaddr_to_real_pc[p]
    BY <1>6 DEF Mapped
  <2>3. vaddr_to_real_pc[p] \in Nat \cup {None}
    BY DEF AnalysisInv, AnalysisTypeOK
  <2> QED
    BY <2>1, <2>2, <2>3 DEF AnalysisInv, MapInv
<1>7. CASE Heads(p) # {}
  <2> DEFINE l == Latest(Heads(p))
  <2>1. l \in Heads(p) /\ \A k \in Heads(p) : k <= l
    BY <1>2, <1>7, LatestIs
  <2>2. Mapped[p] = Block.insts[l].real_pc
    BY <1>7 DEF Mapped
  <2> HIDE DEF l
  <2>3. Mapped[p] \in Nat /\ Mapped[p] = Fields(<<Block, l>>).real_pc
    BY <1>1, <1>2, <2>1, <2>2, BlockIs DEF InstData, Fields
  <2>4. ASSUME NEW k \in Runs(Done \cup {Block}, p)
        PROVE  k[1].id < Block.id \/ (k[1].id = Block.id /\ k[2] <= l)
    <3>1. CASE k \in Runs(Done, p)
      BY <1>1, <3>1 DEF Runs
    <3>2. CASE k[1] = Block /\ k[2] \in Heads(p)
      BY <2>1, <3>2
    <3> QED
      BY <1>4, <3>1, <3>2
  <2>5. <<Block, l>> \in Newest(Runs(Done \cup {Block}, p))
    BY <1>3, <2>1, <2>4 DEF Newest
  <2> QED
    BY <2>3, <2>5
<1> QED
  BY <1>6, <1>7

LEMMA InterruptsAre ==
  ASSUME AnalysisInv, stage # "sort"
  PROVE  /\ Len(interrupts) \in Nat /\ DOMAIN interrupts = 1 .. Len(interrupts)
         /\ \A k \in DOMAIN interrupts :
              /\ interrupts[k] \in InterruptData /\ interrupts[k] \in Interrupts
              /\ interrupts[k].src \in Pcs
              /\ interrupts[k].id \in Nat /\ interrupts[k].dst_real \in Nat
<1>1. interrupts \in Seq(InterruptData)
  BY DEF AnalysisInv, AnalysisTypeOK
<1>2. \A x \in InterruptData : x.id \in Nat /\ x.dst_real \in Nat
  BY DEF InterruptData
<1>3. {interrupts[k] : k \in DOMAIN interrupts} = Interrupts
  BY DEF AnalysisInv, SortInv
<1>4. \A x \in Interrupts : x.src \in Pcs
  BY DEF Interrupts, Pcs
<1>5. \A k \in DOMAIN interrupts : interrupts[k] \in InterruptData
  BY <1>1
<1>6. \A k \in DOMAIN interrupts : interrupts[k] \in Interrupts
  BY <1>3
<1> QED
  BY <1>1, <1>2, <1>4, <1>5, <1>6

(* The due interrupts are the next ones, up to the last one that is due. *)
LEMMA DueIs ==
  ASSUME AnalysisInv, stage = "blocks", blk < Len(sorted_blocks_global_id)
  PROVE  LET n == ints_idx + Cardinality(Due(Block))
         IN /\ n \in ints_idx .. Len(interrupts)
            /\ Due(Block) = ints_idx + 1 .. n
            /\ \A k \in n + 1 .. Len(interrupts) : Block.id < interrupts[k].id
<1> DEFINE D == Due(Block)
<1>1. /\ interrupts \in Seq(InterruptData) /\ Len(interrupts) \in Nat
      /\ DOMAIN interrupts = 1 .. Len(interrupts) /\ ints_idx \in 0 .. Len(interrupts)
  BY DEF AnalysisInv, AnalysisTypeOK
<1>2. Block.id \in Nat /\ \A k \in 1 .. Len(interrupts) : interrupts[k].id \in Nat
  BY BlockIsNext, BlockIs, InterruptsAre
<1>3. \A j, k \in DOMAIN interrupts : j < k => interrupts[j].id <= interrupts[k].id
  BY DEF AnalysisInv, SortInv
<1>4. \A k \in ints_idx + 1 .. Len(interrupts) : k \in D <=> interrupts[k].id <= Block.id
  BY DEF Due
<1>5. D \subseteq ints_idx + 1 .. Len(interrupts)
  BY DEF Due
<1> HIDE DEF D
<1>6. PICK g \in ints_idx .. Len(interrupts) : D = ints_idx + 1 .. g
  <2>1. CASE D = {}
    BY <1>1, <2>1
  <2>2. CASE D # {}
    <3>1. D \in SUBSET (1 .. Len(interrupts))
      BY <1>1, <1>5
    <3>2. PICK g \in D : \A y \in D : y <= g
      BY <1>1, <2>2, <3>1, GreatestNumber
    <3>3. g \in ints_idx + 1 .. Len(interrupts) /\ interrupts[g].id <= Block.id
      BY <1>4, <1>5, <3>2
    <3>4. ASSUME NEW k \in ints_idx + 1 .. g
          PROVE  k \in D
      <4>1. /\ k \in ints_idx + 1 .. Len(interrupts) /\ k \in DOMAIN interrupts
            /\ g \in DOMAIN interrupts /\ (k < g \/ k = g)
        BY <1>1, <3>3
      <4>2. interrupts[k].id <= interrupts[g].id
        BY <1>1, <1>2, <1>3, <4>1
      <4> QED
        BY <1>1, <1>2, <1>4, <3>3, <4>1, <4>2
    <3>5. \A k \in D : k \in ints_idx + 1 .. g
      BY <1>1, <1>5, <3>2, <3>3
    <3>6. D = ints_idx + 1 .. g
      BY <3>4, <3>5
    <3> QED
      BY <1>1, <3>3, <3>6
  <2> QED
    BY <2>1, <2>2
<1>7. Cardinality(D) = g - ints_idx
  <2>1. Cardinality(ints_idx + 1 .. g) =
          IF ints_idx + 1 > g THEN 0 ELSE g - (ints_idx + 1) + 1
    BY <1>1, FS_Interval
  <2> QED
    BY <1>1, <1>6, <2>1
<1>8. ints_idx + Cardinality(D) = g
  BY <1>1, <1>7
<1>9. \A k \in g + 1 .. Len(interrupts) : Block.id < interrupts[k].id
  BY <1>1, <1>2, <1>4, <1>6
<1> QED
  BY <1>6, <1>8, <1>9 DEF D

(* A due interrupt has its turn now; it is linked if its source is known.    *)
LEMMA LinkIs ==
  ASSUME AnalysisInv, stage = "blocks", blk < Len(sorted_blocks_global_id),
         NEW i \in DueNow
  PROVE  /\ i \in Interrupts /\ i \in InterruptData /\ i.src \in Pcs
         /\ LinkOf(i) = IF i \in Known THEN {Edge("signaled", i.dst_real, Mapped[i.src])} ELSE {}
<1>1. /\ data \in Input /\ Block \in data.blocks /\ Done \subseteq data.blocks
      /\ \A c \in Done : c.id < Block.id
      /\ \A c \in data.blocks : c \notin Done => Block.id <= c.id
      /\ \A b, c \in data.blocks : b.id = c.id => b = c
  BY BlockIsNext, DataIs
<1>2. \A c \in data.blocks : c.id \in Nat
  BY <1>1, DataIs, BlockIs
<1>3. PICK k \in ints_idx + 1 .. Len(interrupts) : i = interrupts[k] /\ i.id <= Block.id
  BY DEF DueNow, Due
<1>4. k \in DOMAIN interrupts
  BY InterruptsAre DEF AnalysisInv, AnalysisTypeOK
<1>5. i \in InterruptData /\ i \in Interrupts /\ i.id \in Nat
  BY <1>3, <1>4, InterruptsAre
<1>6. i.src \in Pcs
  BY <1>3, <1>4, InterruptsAre
<1>7. \A c \in Done : c.id < i.id
  BY <1>3 DEF AnalysisInv, TakenInv
<1>8. Turn(i) = {Block}
  <2>1. \A c \in data.blocks : c.id >= i.id => Block.id <= c.id
    BY <1>1, <1>2, <1>5, <1>7
  <2>2. Block \in Turn(i)
    BY <1>1, <1>2, <1>3, <1>5, <2>1 DEF Turn
  <2>3. ASSUME NEW b \in Turn(i)
        PROVE  b = Block
    <3>1. b \in data.blocks /\ b.id <= Block.id /\ Block.id <= b.id
      BY <2>1, <2>2 DEF Turn
    <3> QED
      BY <1>1, <1>2, <3>1
  <2> QED
    BY <2>2, <2>3
<1>9. Sources(i, Block) = Runs(Done \cup {Block}, i.src)
  <2>1. \A c \in data.blocks : c.id <= Block.id <=> c \in Done \cup {Block}
    BY <1>1, <1>2
  <2>2. \A j \in Insts : j[1] \in data.blocks
    BY <1>1, InstsAre
  <2> QED
    BY <2>1, <2>2 DEF Sources, Runs
<1> DEFINE N == Newest(Runs(Done \cup {Block}, i.src))
<1>10. LinkOf(i) = {Edge("signaled", i.dst_real, Fields(j).real_pc) : j \in N}
  BY <1>8, <1>9 DEF LinkOf
<1>11. /\ Runs(Done \cup {Block}, i.src) \subseteq Insts
       /\ N \subseteq Runs(Done \cup {Block}, i.src)
  BY DEF Runs, Newest
<1>12. \A j, k1 \in N : j = k1
  BY <1>1, <1>11, NewestIsOne
<1>13. IF Mapped[i.src] = None THEN N = {}
       ELSE \E j \in N : Mapped[i.src] = Fields(j).real_pc
  BY <1>6, <1>11, MappedIs
<1> HIDE DEF N
<1>14. CASE Mapped[i.src] = None
  BY <1>5, <1>6, <1>10, <1>13, <1>14 DEF Known
<1>15. CASE Mapped[i.src] # None
  <2>1. PICK j \in N : Mapped[i.src] = Fields(j).real_pc
    BY <1>13, <1>15
  <2>2. N = {j}
    BY <1>12
  <2>3. LinkOf(i) = {Edge("signaled", i.dst_real, Mapped[i.src])}
    BY <1>10, <2>1, <2>2
  <2> QED
    BY <1>5, <1>6, <1>15, <2>3 DEF Known
<1> QED
  BY <1>14, <1>15

LEMMA AnalyzeStep ==
  ASSUME AnalysisInv, AnalyzeBlock
  PROVE  AnalysisInv'
<1> DEFINE B == Done \cup {Block}
           n == ints_idx + Cardinality(Due(Block))
           RunEdges == {Edge("next", Block.insts[m].real_pc, Block.insts[m].prev_real_pc) :
                          m \in Starts(Block)}
           SelfEdges == {Edge("signaled", Mapped[p], Mapped[p]) : p \in FoundNow}
           LinkEdges == {Edge("signaled", i.dst_real, Mapped[i.src]) : i \in Known}
<1>1. /\ stage = "blocks" /\ stage' = "blocks" /\ blk < Len(sorted_blocks_global_id)
      /\ vaddr_to_real_pc' = Mapped
      /\ edges' = edges \cup RunEdges \cup SelfEdges \cup LinkEdges
      /\ vaddr_pending' = (vaddr_pending \ FoundNow) \cup {i.src : i \in DueNow \ Known}
      /\ ints_idx' = n /\ blk' = blk + 1
      /\ UNCHANGED <<data, sorted_blocks_global_id, interrupts>>
  BY AnalyzeIs
<1>2. /\ data \in Input /\ Block \in data.blocks /\ Block \in BlockData
      /\ Done \subseteq data.blocks /\ \A c \in Done : c.id < Block.id
      /\ \A c \in data.blocks : c.id \in Nat
  BY <1>1, BlockIsNext, DataIs, BlockIs
<1>3. /\ Done' = B
      /\ UNCHANGED <<Insts, Pcs, Interrupts, Logged>>
      /\ \A i : LinkOf(i)' = LinkOf(i)
  BY <1>1, DataStays, BlockIsNext DEF Done
<1>4. \A p \in Pcs :
        /\ Mapped[p] \in Nat \cup {None}
        /\ IF Mapped[p] = None THEN Runs(B, p) = {}
           ELSE \E j \in Newest(Runs(B, p)) : Mapped[p] = Fields(j).real_pc
  BY <1>1, MappedIs
<1>5. /\ n \in ints_idx .. Len(interrupts) /\ Due(Block) = ints_idx + 1 .. n
      /\ \A k \in n + 1 .. Len(interrupts) : Block.id < interrupts[k].id
  BY <1>1, DueIs
<1>6. /\ Len(interrupts) \in Nat /\ DOMAIN interrupts = 1 .. Len(interrupts)
      /\ \A k \in DOMAIN interrupts : interrupts[k].id \in Nat /\ interrupts[k].dst_real \in Nat
      /\ ints_idx \in 0 .. Len(interrupts)
  BY <1>1, InterruptsAre DEF AnalysisInv, AnalysisTypeOK
<1>7. \A i \in DueNow :
        /\ i \in Interrupts /\ i.src \in Pcs /\ i.dst_real \in Nat
        /\ LinkOf(i) = IF i \in Known THEN {Edge("signaled", i.dst_real, Mapped[i.src])} ELSE {}
  BY <1>1, LinkIs DEF InterruptData
<1>8. \A m \in Starts(Block) : m \in DOMAIN Block.insts /\ Block.insts[m] \in InstData
  BY <1>2, BlockIs, StartsAre
<1>9. RunEdges \subseteq EdgeType /\ \A e \in RunEdges : e.k = "next"
  BY <1>8 DEF EdgeType, Edge, InstData
<1>10. SelfEdges \subseteq EdgeType /\ \A e \in SelfEdges : e.k = "signaled" /\ e.src = e.dst
  <2>1. \A p \in FoundNow : Mapped[p] \in Nat
    BY <1>4 DEF FoundNow, AnalysisInv, AnalysisTypeOK
  <2> QED
    BY <2>1 DEF EdgeType, Edge
<1>11. LinkEdges \subseteq EdgeType /\ \A e \in LinkEdges : e.k = "signaled"
                                    /\ \E i \in Interrupts : e \in LinkOf(i)
  <2>1. \A i \in Known : i \in DueNow /\ i.dst_real \in Nat /\ Mapped[i.src] \in Nat
    BY <1>4, <1>7 DEF Known
  <2>2. \A i \in Known : i \in Interrupts
                         /\ LinkOf(i) = {Edge("signaled", i.dst_real, Mapped[i.src])}
    BY <1>7, <2>1
  <2> QED
    BY <2>1, <2>2 DEF EdgeType, Edge
<1> HIDE DEF B, n, RunEdges, SelfEdges, LinkEdges
<1>12. AnalysisTypeOK'
  <2>1. blk' \in 0 .. Len(sorted_blocks_global_id)' /\ ints_idx' \in 0 .. Len(interrupts)'
    BY <1>1, <1>5, <1>6 DEF AnalysisInv, AnalysisTypeOK
  <2>2. Mapped \in [Pcs -> Nat \cup {None}]
    BY <1>4 DEF Mapped
  <2>3. vaddr_pending' \subseteq Pcs
    BY <1>1, <1>7 DEF AnalysisInv, AnalysisTypeOK
  <2>4. edges' \subseteq EdgeType
    BY <1>1, <1>9, <1>10, <1>11 DEF AnalysisInv, AnalysisTypeOK
  <2> QED
    BY <1>1, <1>3, <2>1, <2>2, <2>3, <2>4 DEF AnalysisInv, AnalysisTypeOK, EdgeType
<1>13. SortInv'
  BY <1>1, <1>3 DEF AnalysisInv, SortInv
<1>14. StageInv'
  BY <1>1 DEF StageInv, Analysed
<1>15. MapInv'
  <2>1. \A p : Runs(Done, p)' = Runs(B, p)
    BY <1>3 DEF Runs
  <2>2. \A p \in Pcs :
          IF Mapped[p] = None THEN Runs(Done, p)' = {}
          ELSE \E j \in Newest(Runs(Done, p)') : Mapped[p] = Fields(j).real_pc
    BY <1>4, <2>1
  <2> QED
    BY <1>1, <1>3, <2>2 DEF MapInv
<1>16. NextInv'
  <2> DEFINE Old == {j \in Insts : j[1] \in Done /\ j[2] \in Starts(j[1])}
             New == {j \in Insts : j[1] \in B /\ j[2] \in Starts(j[1])}
  <2>1. \A m \in Starts(Block) : <<Block, m>> \in New
    BY <1>2, <1>8, InstsAre DEF B
  <2>2. \A j \in New : j \in Old \/ (j[1] = Block /\ j[2] \in Starts(Block))
    BY DEF B
  <2>3. Old \subseteq New
    BY DEF B
  <2>4. \A m \in Starts(Block) :
          Link(<<Block, m>>) = Edge("next", Block.insts[m].real_pc, Block.insts[m].prev_real_pc)
    BY DEF Link, Fields
  <2>5. \A j \in New : j[1] = Block =>
          Link(j) = Edge("next", Block.insts[j[2]].real_pc, Block.insts[j[2]].prev_real_pc)
    BY DEF Link, Fields
  <2> HIDE DEF Old, New
  <2>6. RunEdges \subseteq {Link(j) : j \in New}
    BY <2>1, <2>4 DEF RunEdges
  <2>7. {Link(j) : j \in New} \subseteq {Link(j) : j \in Old} \cup RunEdges
    BY <2>2, <2>5 DEF RunEdges
  <2>8. {Link(j) : j \in New} = {Link(j) : j \in Old} \cup RunEdges
    BY <2>3, <2>6, <2>7
  <2>9. {e \in edges : e.k = "next"} = Logged \cup {Link(j) : j \in Old}
    BY <1>1 DEF AnalysisInv, NextInv, Old
  <2>10. {e \in edges' : e.k = "next"} = {e \in edges : e.k = "next"} \cup RunEdges
    BY <1>1, <1>9, <1>10, <1>11
  <2>11. {e \in edges' : e.k = "next"} = Logged \cup {Link(j) : j \in New}
    BY <2>8, <2>9, <2>10
  <2>12. \A j : Link(j)' = Link(j) /\ \A b : Starts(b)' = Starts(b)
    BY DEF Link, Fields, Starts, Chained, Before
  <2> QED
    BY <1>1, <1>3, <2>11, <2>12 DEF NextInv, New
<1>17. TakenInv'
  <2>1. ASSUME NEW k \in 1 .. n
        PROVE  \E b \in B : interrupts[k].id <= b.id
    <3>1. CASE k \in 1 .. ints_idx
      BY <3>1 DEF AnalysisInv, TakenInv, B
    <3>2. CASE k \in Due(Block)
      BY <3>2 DEF Due, B
    <3> QED
      BY <1>5, <1>6, <3>1, <3>2
  <2>2. ASSUME NEW k \in n + 1 .. Len(interrupts), NEW b \in B
        PROVE  b.id < interrupts[k].id
    <3>1. Block.id < interrupts[k].id /\ b \in data.blocks /\ (b = Block \/ b.id < Block.id)
      BY <1>2, <1>5 DEF B
    <3>2. interrupts[k].id \in Nat
      BY <1>5, <1>6
    <3> QED
      BY <1>2, <3>1, <3>2
  <2> QED
    BY <1>1, <1>3, <2>1, <2>2 DEF TakenInv
<1>18. SignalInv'
  <2>1. ASSUME NEW k \in 1 .. n
        PROVE  LinkOf(interrupts[k]) \subseteq edges'
    <3>1. CASE k \in 1 .. ints_idx
      BY <1>1, <3>1 DEF AnalysisInv, SignalInv
    <3>2. CASE k \in Due(Block)
      <4>1. interrupts[k] \in DueNow
        BY <3>2 DEF DueNow
      <4> QED
        BY <1>1, <1>7, <4>1 DEF LinkEdges
    <3> QED
      BY <1>5, <1>6, <3>1, <3>2
  <2>2. ASSUME NEW e \in edges', e.k = "signaled"
        PROVE  e.src = e.dst \/ \E i \in Interrupts : e \in LinkOf(i)
    <3>1. e \in edges \/ e \in SelfEdges \/ e \in LinkEdges
      BY <1>1, <1>9, <2>2
    <3> QED
      BY <1>10, <1>11, <2>2, <3>1 DEF AnalysisInv, SignalInv
  <2> QED
    BY <1>1, <1>3, <2>1, <2>2 DEF SignalInv
<1>19. FlagInv'
  BY <1>1 DEF FlagInv
<1> QED
  BY <1>12, <1>13, <1>14, <1>15, <1>16, <1>17, <1>18, <1>19 DEF AnalysisInv

LEMMA FlagsStep ==
  ASSUME AnalysisInv, InitFlags
  PROVE  AnalysisInv'
<1>1. /\ stage = "flags" /\ stage' = "done"
      /\ UNCHANGED <<data, sorted_blocks_global_id, interrupts, blk, ints_idx,
                     vaddr_pending, vaddr_to_real_pc, edges>>
  BY DEF InitFlags
<1>2. /\ UNCHANGED <<Done, Insts, Pcs, Interrupts, Logged>>
      /\ \A i : LinkOf(i)' = LinkOf(i) /\ Destinations(i)' = Destinations(i)
      /\ \A B, p : Runs(B, p)' = Runs(B, p)
  BY <1>1, DataStays DEF Done, Destinations
<1>3. \A i \in Insts : <<"fother_branch_edge", i>> \in finsts' =>
        \E d \in Destinations(i) : Taken(i[1], d)
  <2> DEFINE takes(i) == {Taken(i[1], d) : d \in Destinations(i)}
  <2>1. PICK other \in SUBSET {i \in Insts : Fields(i).branching} :
          /\ \A i \in {i \in Insts : Fields(i).branching} :
               takes(i) # {} => (i \in other) \in takes(i)
          /\ \A i \in other : takes(i) # {}
          /\ \A i : <<"fother_branch_edge", i>> \in finsts' => i \in other
    <3>1. \A name, other, S, i :
            <<"fother_branch_edge", i>> \in {<<name, j>> : j \in S} =>
              name = "fother_branch_edge" /\ i \in S
      OBVIOUS
    <3> QED
      BY <3>1 DEF InitFlags
  <2>2. ASSUME NEW i \in other
        PROVE  \E d \in Destinations(i) : Taken(i[1], d)
    <3>1. (i \in other) \in takes(i)
      BY <2>1
    <3>2. PICK d \in Destinations(i) : (i \in other) = Taken(i[1], d)
      BY <3>1
    <3> QED
      BY <3>2
  <2> QED
    BY <2>1, <2>2
<1>4. AnalysisTypeOK' /\ SortInv' /\ StageInv' /\ NextInv' /\ TakenInv' /\ SignalInv'
  BY <1>1, <1>2 DEF AnalysisInv, AnalysisTypeOK, SortInv, StageInv, NextInv, TakenInv, SignalInv,
                    Analysed, EdgeType, Link, Fields
<1>5. MapInv'
  BY <1>1, <1>2 DEF AnalysisInv, MapInv
<1>6. FlagInv'
  BY <1>2, <1>3 DEF FlagInv
<1> QED
  BY <1>4, <1>5, <1>6 DEF AnalysisInv

LEMMA OtherStep ==
  ASSUME AnalysisInv, BlocksDone \/ UNCHANGED analysisVars
  PROVE  AnalysisInv'
<1>1. UNCHANGED <<data, sorted_blocks_global_id, interrupts, blk, ints_idx,
                  vaddr_pending, vaddr_to_real_pc, edges, finsts>>
  BY DEF BlocksDone, analysisVars
<1>2. \/ stage = "blocks" /\ stage' = "flags" /\ blk = Len(sorted_blocks_global_id)
      \/ stage' = stage
  BY DEF BlocksDone, analysisVars
<1>3. /\ UNCHANGED <<Done, Insts, Pcs, Interrupts, Logged>>
      /\ \A i : LinkOf(i)' = LinkOf(i) /\ Destinations(i)' = Destinations(i)
      /\ \A B, p : Runs(B, p)' = Runs(B, p)
  BY <1>1, DataStays DEF Done, Destinations
<1>4. AnalysisTypeOK' /\ SortInv' /\ StageInv'
  BY <1>1, <1>2, <1>3 DEF AnalysisInv, AnalysisTypeOK, SortInv, StageInv, Analysed, EdgeType
<1>5. NextInv' /\ TakenInv' /\ SignalInv'
  BY <1>1, <1>2, <1>3 DEF AnalysisInv, NextInv, TakenInv, SignalInv, Link, Fields
<1>6. MapInv' /\ FlagInv'
  BY <1>1, <1>2, <1>3 DEF AnalysisInv, MapInv, FlagInv
<1> QED
  BY <1>4, <1>5, <1>6 DEF AnalysisInv

(* The inductive invariant of the analysis. *)
THEOREM AnalysisInvariant == AnalysisSpec => []AnalysisInv
<1>1. AnalysisInv /\ [AnalysisNext]_analysisVars => AnalysisInv'
  BY SortStep, EmitStep, AnalyzeStep, FlagsStep, OtherStep DEF AnalysisNext
<1> QED
  BY <1>1, AnalysisInitial, PTL DEF AnalysisSpec

-----------------------------------------------------------------------------
(* In the end every block is done. *)
LEMMA AllDone ==
  ASSUME AnalysisInv, Analysed
  PROVE  /\ data \in Input /\ Done = data.blocks
         /\ stage \notin {"sort", "map"}
<1>1. sorted_blocks_global_id \in Seq(data.blocks) /\ blk = Len(sorted_blocks_global_id)
  BY DEF AnalysisInv, AnalysisTypeOK, StageInv
<1> QED
  BY <1>1 DEF AnalysisInv, AnalysisTypeOK, SortInv, Done, Analysed

(* PredecessorsKept: no recorded predecessor is lost between the records and *)
(* the edges (analyze's runs), and no edge is made up.                      *)
THEOREM PredecessorsAreKept == AnalysisSpec => []PredecessorsKept
<1>1. ASSUME AnalysisInv, Analysed
      PROVE  /\ \A i \in Records :
                  \/ Link(i) \in edges
                  \/ \E n \in Before(i[1], i[2]) :
                       i[1].insts[n].real_pc = Fields(i).prev_real_pc
                       /\ \A k \in n + 1 .. i[2] - 1 : ~i[1].insts[k].fvalid
             /\ Logged \subseteq edges
             /\ {e \in edges : e.k = "next"} \subseteq Logged \cup {Link(i) : i \in Records}
  <2> DEFINE Heads1 == {j \in Insts : j[1] \in Done /\ j[2] \in Starts(j[1])}
  <2>1. {e \in edges : e.k = "next"} = Logged \cup {Link(j) : j \in Heads1}
    BY <1>1, AllDone DEF AnalysisInv, NextInv
  <2>2. \A i \in Insts : /\ i[1] \in Done /\ i[1] \in BlockData
                         /\ i[2] \in DOMAIN i[1].insts /\ Fields(i) = i[1].insts[i[2]]
    BY <1>1, AllDone, DataIs, InstsAre DEF Fields
  <2>3. \A j \in Heads1 : j \in Records
    BY <2>2, StartsAre DEF Records
  <2>4. ASSUME NEW i \in Records, i[2] \notin Starts(i[1])
        PROVE  \E n \in Before(i[1], i[2]) :
                 i[1].insts[n].real_pc = Fields(i).prev_real_pc
                 /\ \A k \in n + 1 .. i[2] - 1 : ~i[1].insts[k].fvalid
    <3> DEFINE S == Before(i[1], i[2])
               l == Latest(S)
    <3>1. i \in Insts /\ Fields(i).fvalid
      BY DEF Records
    <3>2. Chained(i[1], i[2])
      BY <2>2, <2>4, <3>1 DEF Starts
    <3>3. i[2] \in Nat \ {0}
      BY <2>2, <3>1, BlockIs
    <3>4. S \in SUBSET (1 .. i[2] - 1) /\ S # {} /\ i[2] - 1 \in Nat
      BY <3>2, <3>3 DEF Before, Chained
    <3>5. l \in S /\ \A k \in S : k <= l
      BY <3>4, LatestIs
    <3>6. i[1].insts[l].real_pc = Fields(i).prev_real_pc
      BY <2>2, <3>1, <3>2 DEF Chained
    <3>7. \A k \in 1 .. i[2] - 1 : i[1].insts[k].fvalid => k \in S
      BY DEF Before
    <3> HIDE DEF S, l
    <3>8. \A k \in l + 1 .. i[2] - 1 : ~i[1].insts[k].fvalid
      BY <3>3, <3>4, <3>5, <3>7
    <3>9. l \in Before(i[1], i[2])
      BY <3>5 DEF S
    <3> QED
      BY <3>6, <3>8, <3>9
  <2>5. \A i \in Records : i[2] \in Starts(i[1]) => i \in Heads1
    BY <2>2 DEF Records
  <2> HIDE DEF Heads1
  <2> QED
    BY <2>1, <2>3, <2>4, <2>5
<1>2. AnalysisInv => PredecessorsKept
  BY <1>1 DEF PredecessorsKept
<1> QED
  BY <1>2, AnalysisInvariant, PTL

(* InterruptsLinked: an interrupt is an edge from what its source meant at    *)
(* its turn, however interrupts and retranslations mix.                     *)
THEOREM InterruptsAreLinked == AnalysisSpec => []InterruptsLinked
<1> DEFINE link == UNION {UNION {{Edge("signaled", i.dst_real, Fields(j).real_pc) :
                                    j \in Newest(Sources(i, b))} : b \in Turn(i)} : i \in Interrupts}
<1>1. link = UNION {LinkOf(i) : i \in Interrupts}
  BY DEF LinkOf
<1> HIDE DEF link
<1>2. ASSUME AnalysisInv, Analysed
      PROVE  /\ link \subseteq edges
             /\ \A e \in edges : e.k = "signaled" => e \in link \/ e.src = e.dst
  <2>1. data \in Input /\ Done = data.blocks /\ stage # "sort"
    BY <1>2, AllDone
  <2>2. /\ {interrupts[k] : k \in DOMAIN interrupts} = Interrupts
        /\ DOMAIN interrupts = 1 .. Len(interrupts) /\ Len(interrupts) \in Nat
        /\ ints_idx \in 0 .. Len(interrupts)
        /\ \A k \in DOMAIN interrupts : interrupts[k].id \in Nat
    BY <1>2, <2>1, InterruptsAre DEF AnalysisInv, SortInv, AnalysisTypeOK
  <2>3. ASSUME NEW k \in DOMAIN interrupts
        PROVE  LinkOf(interrupts[k]) \subseteq edges
    <3>1. CASE k \in 1 .. ints_idx
      BY <1>2, <3>1 DEF AnalysisInv, SignalInv
    <3>2. CASE k \in ints_idx + 1 .. Len(interrupts)
      <4>1. \A b \in data.blocks : b.id \in Nat /\ b.id < interrupts[k].id
        BY <1>2, <2>1, <3>2, DataIs, BlockIs DEF AnalysisInv, TakenInv
      <4>2. Turn(interrupts[k]) = {}
        BY <2>2, <4>1 DEF Turn
      <4> QED
        BY <4>2 DEF LinkOf
    <3> QED
      BY <2>2, <3>1, <3>2
  <2>4. \A i \in Interrupts : LinkOf(i) \subseteq edges
    BY <2>2, <2>3
  <2> QED
    BY <1>1, <1>2, <2>4 DEF AnalysisInv, SignalInv
<1>3. AnalysisInv => InterruptsLinked
  BY <1>2 DEF InterruptsLinked, Interrupts, link
<1> QED
  BY <1>3, AnalysisInvariant, PTL

(* FlagsJustified: a branch that ran is flagged as taken elsewhere only if a   *)
(* log, a record or an interrupt says so (init_flags).                      *)
THEOREM FlagsAreJustified == AnalysisSpec => []FlagsJustified
<1>1. ASSUME AnalysisInv, stage = "done", NEW i \in Records,
             <<"fother_branch_edge", i>> \in finsts
      PROVE  \E d \in data.blocks :
               /\ d.loc # i[1].end
               /\ LET to == d.insts[1].real_pc
                      from == Fields(i).real_pc
                  IN \/ Edge("next", to, from) \in Logged \cup {Link(j) : j \in Records}
                     \/ to = from
                     \/ \E k \in DOMAIN data.interrupts : data.interrupts[k].dst_real = to
  <2>1. PICK d \in Destinations(i) : Taken(i[1], d)
    BY <1>1 DEF AnalysisInv, FlagInv, Records
  <2>2. PICK e \in edges : e.src = Fields(i).real_pc /\ e.dst = d.insts[1].real_pc
    BY DEF Destinations
  <2>3. d \in data.blocks /\ d.loc # i[1].end
    BY <2>1 DEF Destinations, Taken
  <2>4. e \in EdgeType
    BY <1>1 DEF AnalysisInv, AnalysisTypeOK
  <2>5. CASE e.k = "next"
    <3>1. e = Edge("next", d.insts[1].real_pc, Fields(i).real_pc)
      BY <2>2, <2>4, <2>5 DEF EdgeType, Edge
    <3>2. {x \in edges : x.k = "next"} =
            Logged \cup {Link(j) : j \in {j \in Insts : j[1] \in Done /\ j[2] \in Starts(j[1])}}
      BY <1>1, AllDone DEF AnalysisInv, NextInv, Analysed
    <3>3. \A j \in Insts : j[2] \in Starts(j[1]) => j \in Records
      <4>1. \A j \in Insts : j[1] \in BlockData
        BY <1>1, AllDone, DataIs, InstsAre DEF Analysed
      <4> QED
        BY <4>1, StartsAre DEF Records, Fields
    <3>4. e \in Logged \cup {Link(j) : j \in Records}
      BY <2>5, <3>2, <3>3
    <3> QED
      BY <2>3, <3>1, <3>4
  <2>6. CASE e.k = "signaled"
    <3>1. e.src = e.dst \/ \E x \in Interrupts : e \in LinkOf(x)
      BY <1>1, <2>6 DEF AnalysisInv, SignalInv
    <3>2. CASE e.src = e.dst
      BY <2>2, <2>3, <3>2
    <3>3. CASE \E x \in Interrupts : e \in LinkOf(x)
      <4>1. PICK x \in Interrupts : e \in LinkOf(x)
        BY <3>3
      <4>2. e.dst = x.dst_real
        BY <4>1 DEF LinkOf, Edge
      <4>3. \E k \in DOMAIN data.interrupts : data.interrupts[k].dst_real = d.insts[1].real_pc
        BY <2>2, <4>2 DEF Interrupts
      <4> QED
        BY <2>3, <4>3
    <3> QED
      BY <3>1, <3>2, <3>3
  <2> QED
    BY <2>4, <2>5, <2>6 DEF EdgeType
<1>2. AnalysisInv => FlagsJustified
  BY <1>1 DEF FlagsJustified
<1> QED
  BY <1>2, AnalysisInvariant, PTL
=============================================================================
