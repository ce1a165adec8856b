---------------------------- MODULE Edges_proofs ----------------------------
(***************************************************************************)
(* Proofs about Edges, for every set of vCPUs and blocks and every limit:   *)
(* its state keeps its type, the fixed buffer of a vCPU never overflows when *)
(* it has room for two edges, no edge is lost before the guest exits, and    *)
(* at most one of each vCPU when it does.                                   *)
(***************************************************************************)
EXTENDS Edges, SequenceTheorems, FiniteSetTheorems, TLAPS

USE EdgesAssumption, NoneAssumption

(* How many edges the buffer of a vCPU can hold, by where the vCPU is. *)
MaxLen(step) == CASE step = "first" -> 0
                  [] step = "reset" -> 2
                  [] step \in {"out", "log", "body"} -> 1

(* In tb::exec's slow path the signal stays set (only v clears it) and the  *)
(* block is known; at exit every vCPU is out of its block.                  *)
CtrlInv == \A v \in VCPU :
             /\ at[v] \in {"log", "reset"} => signaled_edges[v] # None /\ loc[v] # None
             /\ stage # "run" => at[v] = "out"
LenInv == \A v \in VCPU : Len(prevd_jumps[v]) <= MaxLen(at[v])
EdgesInv == EdgesTypeOK /\ CtrlInv /\ LenInv

-----------------------------------------------------------------------------
(* Appending adds one element to the range of a sequence. *)
LEMMA RangeAppend ==
  ASSUME NEW S, NEW s \in Seq(S), NEW e
  PROVE  Range(Append(s, e)) = Range(s) \cup {e}
<1>1. /\ DOMAIN Append(s, e) = 1 .. Len(s) + 1 /\ DOMAIN s = 1 .. Len(s)
      /\ Len(s) \in Nat
      /\ \A k \in 1 .. Len(s) : Append(s, e)[k] = s[k]
      /\ Append(s, e)[Len(s) + 1] = e
  OBVIOUS
<1>2. 1 .. Len(s) + 1 = (1 .. Len(s)) \cup {Len(s) + 1}
  BY <1>1
<1>. QED
  BY <1>1, <1>2 DEF Range

(* A sequence over S has its range in S, and none if it is empty. *)
LEMMA RangeIn ==
  ASSUME NEW S, NEW s \in Seq(S)
  PROVE  Range(s) \subseteq S
  BY DEF Range

LEMMA RangeEmpty == Range(<<>>) = {}
  BY DEF Range

-----------------------------------------------------------------------------
(* What Drain does to the types, in any of the two handlers that end in it. *)
LEMMA DrainTypes ==
  ASSUME EdgesTypeOK, NEW v \in VCPU, Drain(v)
  PROVE  /\ prevd_jumps' \in [VCPU -> Seq(Edge)]
         /\ prevd_jumps'[v] = <<>>
         /\ \A w \in VCPU \ {v} : prevd_jumps'[w] = prevd_jumps[w]
         /\ prevd_jumps_set' \in [VCPU -> SUBSET Edge]
         /\ jobs' \in Seq(Job)
<1> DEFINE jset == prevd_jumps_set[v] \cup Range(prevd_jumps[v])
<1>1. jset \subseteq Edge
  <2>1. prevd_jumps[v] \in Seq(Edge) /\ prevd_jumps_set[v] \subseteq Edge
    BY DEF EdgesTypeOK
  <2>2. Range(prevd_jumps[v]) \subseteq Edge
    BY <2>1, RangeIn
  <2>. QED
    BY <2>1, <2>2
<1>2. prevd_jumps' = [prevd_jumps EXCEPT ![v] = <<>>]
  BY DEF Drain, Drained
<1>3. \E s \in {{}, jset} : prevd_jumps_set' = [prevd_jumps_set EXCEPT ![v] = s]
  BY DEF Drain
<1>4. jobs' = jobs \/ jobs' = Append(jobs, [vcpu |-> v, edges |-> jset])
  BY DEF Drain, Post
<1>5. [vcpu |-> v, edges |-> jset] \in Job
  BY <1>1 DEF Job
<1>. HIDE DEF jset
<1>6. jobs' \in Seq(Job)
  <2>1. jobs \in Seq(Job)
    BY DEF EdgesTypeOK
  <2>2. Append(jobs, [vcpu |-> v, edges |-> jset]) \in Seq(Job)
    BY <1>5, <2>1
  <2>. QED
    BY <1>4, <2>1, <2>2
<1>. QED
  BY <1>1, <1>2, <1>3, <1>6 DEF EdgesTypeOK

(* Every step keeps the inductive invariant. *)
LEMMA EdgesInvInit == EdgesInit => EdgesInv
  BY DEF EdgesInit, EdgesInv, EdgesTypeOK, CtrlInv, LenInv, MaxLen

LEMMA EdgesInvStep ==
  ASSUME EdgesInv, [EdgesNext]_edgeVars
  PROVE  EdgesInv'
<1> USE DEF EdgesInv, CtrlInv, LenInv, MaxLen
<1>1. ASSUME NEW v \in VCPU, ExecPlain(v) PROVE EdgesInv'
  <2>1. UNCHANGED <<save_jmp_locs, signaled_edges, loc, tested, logged, stage>>
        /\ Drain(v) /\ at' = [at EXCEPT ![v] = "first"] /\ stage = "run"
    BY <1>1 DEF ExecPlain
  <2>2. EdgesTypeOK'
    BY <2>1, DrainTypes DEF EdgesTypeOK
  <2>3. CtrlInv'
    BY <2>1 DEF EdgesTypeOK
  <2>4. LenInv'
    BY <2>1, DrainTypes DEF EdgesTypeOK
  <2>. QED
    BY <2>2, <2>3, <2>4
<1>2. ASSUME NEW v \in VCPU, NEW l \in Loc, NEW ok \in BOOLEAN, ExecTest(v, l, ok)
      PROVE  EdgesInv'
  <2>1. \E s \in {"log", "reset"} : at' = [at EXCEPT ![v] = s]
    BY <1>2 DEF ExecTest
  <2>2. /\ loc' = [loc EXCEPT ![v] = l] /\ l # None
        /\ tested' = [tested EXCEPT ![v] = signaled_edges[v]]
        /\ at[v] = "out" /\ signaled_edges[v] # None /\ stage = "run"
        /\ UNCHANGED <<prevd_jumps, prevd_jumps_set, jobs, save_jmp_locs,
                       signaled_edges, logged, stage>>
    BY <1>2 DEF ExecTest
  <2>3. EdgesTypeOK'
    BY <2>1, <2>2 DEF EdgesTypeOK
  <2>4. CtrlInv'
    BY <2>1, <2>2 DEF EdgesTypeOK
  <2>5. LenInv'
    BY <2>1, <2>2 DEF EdgesTypeOK
  <2>. QED
    BY <2>3, <2>4, <2>5
<1>3. ASSUME NEW v \in VCPU, ExecLog(v) PROVE EdgesInv'
  <2>1. /\ signaled_edges[v] \in Signal /\ loc[v] \in Loc
        /\ SignalOf(v) \in Edge
    BY <1>3 DEF ExecLog, EdgesTypeOK, Signal, SignalOf, Edge, SignaledEdge
  <2>2. /\ prevd_jumps' = [prevd_jumps EXCEPT ![v] = Append(@, SignalOf(v))]
        /\ logged' = [logged EXCEPT ![v] = @ \cup {SignalOf(v)}]
        /\ at[v] = "log" /\ at' = [at EXCEPT ![v] = "reset"]
        /\ UNCHANGED <<prevd_jumps_set, jobs, save_jmp_locs, signaled_edges, loc,
                       tested, stage>>
    BY <1>3 DEF ExecLog, Log
  <2>. HIDE DEF SignalOf
  <2>3. EdgesTypeOK'
    BY <2>1, <2>2 DEF EdgesTypeOK
  <2>4. CtrlInv'
    BY <2>2 DEF EdgesTypeOK
  <2>5. LenInv'
    BY <2>1, <2>2 DEF EdgesTypeOK
  <2>. QED
    BY <2>3, <2>4, <2>5
<1>4. ASSUME NEW v \in VCPU, ExecReset(v) PROVE EdgesInv'
  <2>1. /\ signaled_edges' = [signaled_edges EXCEPT ![v] = None]
        /\ tested' = [tested EXCEPT ![v] = None] /\ loc' = [loc EXCEPT ![v] = None]
        /\ at[v] = "reset" /\ at' = [at EXCEPT ![v] = "first"] /\ Drain(v)
        /\ UNCHANGED <<save_jmp_locs, logged, stage>>
    BY <1>4 DEF ExecReset
  <2>2. EdgesTypeOK'
    BY <2>1, DrainTypes DEF EdgesTypeOK
  <2>3. CtrlInv'
    BY <2>1 DEF EdgesTypeOK
  <2>4. LenInv'
    BY <2>1, DrainTypes DEF EdgesTypeOK
  <2>. QED
    BY <2>2, <2>3, <2>4
<1>5. ASSUME NEW v \in VCPU, NEW e \in NextEdge, FirstLog(v, e) PROVE EdgesInv'
  <2>1. /\ prevd_jumps' = [prevd_jumps EXCEPT ![v] = Append(@, e)] /\ e \in Edge
        /\ logged' = [logged EXCEPT ![v] = @ \cup {e}]
        /\ at[v] = "first" /\ at' = [at EXCEPT ![v] = "body"]
        /\ UNCHANGED <<prevd_jumps_set, jobs, save_jmp_locs, signaled_edges, loc,
                       tested, stage>>
    BY <1>5 DEF FirstLog, Log, Edge
  <2>2. EdgesTypeOK'
    BY <2>1 DEF EdgesTypeOK
  <2>3. CtrlInv'
    BY <2>1 DEF EdgesTypeOK
  <2>4. LenInv'
    BY <2>1 DEF EdgesTypeOK
  <2>. QED
    BY <2>2, <2>3, <2>4
<1>6. ASSUME NEW v \in VCPU, FirstQuiet(v) PROVE EdgesInv'
  BY <1>6 DEF FirstQuiet, EdgesTypeOK
<1>7. ASSUME NEW v \in VCPU, Leave(v) PROVE EdgesInv'
  BY <1>7 DEF Leave, EdgesTypeOK
<1>8. ASSUME NEW v \in VCPU, NEW targets \in SUBSET VCPU, NEW s \in Signal,
             AddEdge(v, targets, s)
      PROVE  EdgesInv'
  BY <1>8 DEF AddEdge, EdgesTypeOK
<1>9. CASE SaveJob
  <2>1. Head(jobs) \in Job /\ Tail(jobs) \in Seq(Job)
    BY <1>9 DEF SaveJob, HasWork, EdgesTypeOK
  <2>2. Head(jobs).vcpu \in VCPU /\ Head(jobs).edges \subseteq Edge
    BY <2>1 DEF Job
  <2>3. UNCHANGED <<prevd_jumps, prevd_jumps_set, signaled_edges, at, loc, tested,
                    logged, stage>>
    BY <1>9 DEF SaveJob
  <2>4. save_jmp_locs' \in [VCPU -> SUBSET Edge] /\ jobs' \in Seq(Job)
    BY <1>9, <2>1, <2>2 DEF SaveJob, FileOf, EdgesTypeOK
  <2>. QED
    BY <2>3, <2>4 DEF EdgesTypeOK
<1>10. CASE Stop
  BY <1>10 DEF Stop, EdgesTypeOK
<1>11. CASE AtExit
  BY <1>11 DEF AtExit, Saved, EdgesTypeOK
<1>12. CASE UNCHANGED edgeVars
  BY <1>12 DEF edgeVars, EdgesTypeOK
<1>. QED
  BY <1>1, <1>2, <1>3, <1>4, <1>5, <1>6, <1>7, <1>8, <1>9, <1>10, <1>11, <1>12
     DEF EdgesNext, VcpuStep

(* The inductive invariant holds in every reachable state. *)
THEOREM EdgesInvariant == EdgesSafeSpec => []EdgesInv
  BY EdgesInvInit, EdgesInvStep, PTL DEF EdgesSafeSpec

(* Type correctness of edge recording. *)
THEOREM EdgesTypeCorrect == EdgesSafeSpec => []EdgesTypeOK
  BY EdgesInvariant, PTL DEF EdgesInv

(* emplace_back on prevd_jumps never throws: a buffer with room for two     *)
(* edges is enough, and MAX_BUFFER_N is 128.                               *)
THEOREM BufferNeverOverflows ==
  ASSUME BufferN >= 2
  PROVE  EdgesSafeSpec => []NeverOverflows
<1>1. EdgesInv => NeverOverflows
  <2>1. SUFFICES ASSUME EdgesInv, NEW v \in VCPU
                 PROVE  Len(prevd_jumps[v]) <= BufferN
    BY DEF NeverOverflows
  <2>2. Len(prevd_jumps[v]) <= MaxLen(at[v]) /\ Len(prevd_jumps[v]) \in Nat
    BY <2>1 DEF EdgesInv, LenInv, EdgesTypeOK
  <2>3. MaxLen(at[v]) \in {0, 1, 2}
    BY <2>1 DEF EdgesInv, EdgesTypeOK, MaxLen
  <2>. QED
    BY <2>2, <2>3
<1>. QED
  BY <1>1, EdgesInvariant, PTL

-----------------------------------------------------------------------------
(* What the queue holds for a vCPU, element by element.                     *)
LEMMA QueuedIs ==
  ASSUME NEW v, NEW e
  PROVE  e \in Queued(v) <=> \E n \in DOMAIN jobs : jobs[n].vcpu = v /\ e \in jobs[n].edges
  BY DEF Queued

(* A posted job adds its edges to those its vCPU has queued. *)
LEMMA QueuedPost ==
  ASSUME jobs \in Seq(Job), NEW w \in VCPU, NEW s \in SUBSET Edge,
         jobs' = Append(jobs, [vcpu |-> w, edges |-> s]), NEW v \in VCPU
  PROVE  Queued(v)' = Queued(v) \cup IF v = w THEN s ELSE {}
<1> DEFINE j == [vcpu |-> w, edges |-> s]
<1>1. j \in Job /\ j.vcpu = w /\ j.edges = s
  BY DEF Job
<1>. HIDE DEF j
<1>2. /\ Len(jobs) \in Nat /\ DOMAIN jobs = 1 .. Len(jobs)
      /\ DOMAIN jobs' = 1 .. Len(jobs) + 1
      /\ \A n \in 1 .. Len(jobs) : jobs'[n] = jobs[n]
      /\ jobs'[Len(jobs) + 1] = j
  BY <1>1 DEF j
<1>3. ASSUME NEW e
      PROVE  e \in Queued(v)' <=> e \in Queued(v) \cup IF v = w THEN s ELSE {}
  <2>1. e \in Queued(v)' <=> \E n \in DOMAIN jobs' : jobs'[n].vcpu = v /\ e \in jobs'[n].edges
    BY DEF Queued
  <2>2. (\E n \in DOMAIN jobs' : jobs'[n].vcpu = v /\ e \in jobs'[n].edges)
        <=> (\E n \in DOMAIN jobs : jobs[n].vcpu = v /\ e \in jobs[n].edges)
            \/ (j.vcpu = v /\ e \in j.edges)
    <3>1. DOMAIN jobs' = DOMAIN jobs \cup {Len(jobs) + 1}
      BY <1>2
    <3>. QED
      BY <1>2, <3>1
  <2>. QED
    BY <1>1, <2>1, <2>2, QueuedIs
<1>. QED
  BY <1>3

(* A job taken from the queue takes along its edges only. *)
LEMMA QueuedTake ==
  ASSUME jobs \in Seq(Job), jobs # <<>>, jobs' = Tail(jobs), NEW v \in VCPU
  PROVE  Queued(v) = Queued(v)' \cup IF v = Head(jobs).vcpu THEN Head(jobs).edges ELSE {}
<1>1. /\ Len(jobs) \in Nat \ {0} /\ DOMAIN jobs = 1 .. Len(jobs)
      /\ DOMAIN jobs' = 1 .. Len(jobs) - 1
      /\ \A n \in 1 .. Len(jobs) - 1 : jobs'[n] = jobs[n + 1]
      /\ Head(jobs) = jobs[1]
  BY EmptySeq
<1>2. ASSUME NEW e
      PROVE  e \in Queued(v) <=>
             e \in Queued(v)' \cup IF v = Head(jobs).vcpu THEN Head(jobs).edges ELSE {}
  <2>1. e \in Queued(v)' <=> \E n \in DOMAIN jobs' : jobs'[n].vcpu = v /\ e \in jobs'[n].edges
    BY DEF Queued
  <2>2. (\E n \in DOMAIN jobs : jobs[n].vcpu = v /\ e \in jobs[n].edges)
        <=> (\E n \in DOMAIN jobs' : jobs'[n].vcpu = v /\ e \in jobs'[n].edges)
            \/ (Head(jobs).vcpu = v /\ e \in Head(jobs).edges)
    <3>1. ASSUME NEW n \in DOMAIN jobs, jobs[n].vcpu = v, e \in jobs[n].edges, n # 1
          PROVE  \E m \in DOMAIN jobs' : jobs'[m].vcpu = v /\ e \in jobs'[m].edges
      <4>1. n - 1 \in DOMAIN jobs' /\ jobs'[n - 1] = jobs[n]
        BY <1>1, <3>1
      <4>. QED
        BY <3>1, <4>1
    <3>2. ASSUME NEW n \in DOMAIN jobs', jobs'[n].vcpu = v, e \in jobs'[n].edges
          PROVE  \E m \in DOMAIN jobs : jobs[m].vcpu = v /\ e \in jobs[m].edges
      <4>1. n + 1 \in DOMAIN jobs /\ jobs'[n] = jobs[n + 1]
        BY <1>1, <3>2
      <4>. QED
        BY <3>2, <4>1
    <3>3. 1 \in DOMAIN jobs /\ jobs[1] = Head(jobs)
      BY <1>1
    <3>. QED
      BY <3>1, <3>2, <3>3
  <2>. QED
    BY <2>1, <2>2, QueuedIs
<1>. QED
  BY <1>2

(* Where a vCPU's edges can be. *)
Held(v) == Range(prevd_jumps[v]) \cup prevd_jumps_set[v] \cup Queued(v) \cup save_jmp_locs[v]

LEMMA NoEdgeLostIs ==
  NoEdgeLost <=> (stage # "exited" => \A v \in VCPU : logged[v] = Held(v))
  BY DEF NoEdgeLost, Held

(* Draining moves edges from the buffer to the set, or from both to a job. *)
LEMMA DrainHolds ==
  ASSUME EdgesTypeOK, NEW v \in VCPU, Drain(v), UNCHANGED save_jmp_locs, NEW w \in VCPU
  PROVE  Held(w)' = Held(w)
<1> DEFINE jset == prevd_jumps_set[v] \cup Range(prevd_jumps[v])
           full == prevd_jumps[v] # <<>> /\ OverLimit(jset)
<1>1. jset \in SUBSET Edge /\ jobs \in Seq(Job)
  <2>1. prevd_jumps[v] \in Seq(Edge) /\ prevd_jumps_set[v] \subseteq Edge
    BY DEF EdgesTypeOK
  <2>. QED
    BY <2>1, RangeIn DEF EdgesTypeOK
<1>2. /\ prevd_jumps' = [prevd_jumps EXCEPT ![v] = <<>>]
      /\ prevd_jumps_set' = [prevd_jumps_set EXCEPT ![v] = IF full THEN {} ELSE jset]
      /\ jobs' = IF full THEN Append(jobs, [vcpu |-> v, edges |-> jset]) ELSE jobs
  BY DEF Drain, Drained, Post
<1>3. /\ prevd_jumps'[w] = IF w = v THEN <<>> ELSE prevd_jumps[w]
      /\ prevd_jumps_set'[w] = IF w = v THEN IF full THEN {} ELSE jset ELSE prevd_jumps_set[w]
  <2>. HIDE DEF full, jset
  <2>. QED
    BY <1>2 DEF EdgesTypeOK
<1>4. Queued(w)' = Queued(w) \cup IF full /\ w = v THEN jset ELSE {}
  <2>1. CASE full
    BY <1>1, <1>2, <2>1, QueuedPost
  <2>2. CASE ~full
    BY <1>2, <2>2 DEF Queued
  <2>. QED
    BY <2>1, <2>2
<1>5. /\ Held(w)' = Range(prevd_jumps'[w]) \cup prevd_jumps_set'[w] \cup Queued(w)' \cup save_jmp_locs[w]
      /\ Held(w) = Range(prevd_jumps[w]) \cup prevd_jumps_set[w] \cup Queued(w) \cup save_jmp_locs[w]
  BY DEF Held
<1>. QED
  BY <1>3, <1>4, <1>5, RangeEmpty

(* Logging adds an edge to what its vCPU logged and to what it holds. *)
LEMMA LogHolds ==
  ASSUME EdgesTypeOK, NEW v \in VCPU, NEW e \in Edge, Log(v, e),
         UNCHANGED <<prevd_jumps_set, jobs, save_jmp_locs>>, NEW w \in VCPU,
         logged[w] = Held(w)
  PROVE  logged'[w] = Held(w)'
<1>1. /\ prevd_jumps' = [prevd_jumps EXCEPT ![v] = Append(prevd_jumps[v], e)]
      /\ logged' = [logged EXCEPT ![v] = logged[v] \cup {e}]
  BY DEF Log
<1>2. prevd_jumps[v] \in Seq(Edge)
  BY DEF EdgesTypeOK
<1>3. Range(Append(prevd_jumps[v], e)) = Range(prevd_jumps[v]) \cup {e}
  BY <1>2, RangeAppend
<1>4. Range(prevd_jumps'[w]) = Range(prevd_jumps[w]) \cup IF w = v THEN {e} ELSE {}
  BY <1>1, <1>3 DEF EdgesTypeOK
<1>5. logged'[w] = logged[w] \cup IF w = v THEN {e} ELSE {}
  BY <1>1 DEF EdgesTypeOK
<1>6. Held(w)' = Range(prevd_jumps'[w]) \cup prevd_jumps_set[w] \cup Queued(w) \cup save_jmp_locs[w]
  BY DEF Held, Queued
<1>. QED
  BY <1>4, <1>5, <1>6 DEF Held

LEMMA NoEdgeLostStep ==
  ASSUME EdgesInv, NoEdgeLost, [EdgesNext]_edgeVars
  PROVE  NoEdgeLost'
<1> SUFFICES ASSUME stage' # "exited", NEW w \in VCPU
             PROVE  logged'[w] = Held(w)'
  BY DEF NoEdgeLost, Held
<1> USE DEF EdgesInv
<1>0. stage # "exited" => logged[w] = Held(w)
  BY NoEdgeLostIs
<1>1. ASSUME NEW v \in VCPU, ExecPlain(v) \/ ExecReset(v)
      PROVE  logged'[w] = Held(w)'
  <2>1. Drain(v) /\ UNCHANGED <<save_jmp_locs, logged, stage>>
    BY <1>1 DEF ExecPlain, ExecReset
  <2>. QED
    BY <1>0, <2>1, DrainHolds
<1>2. CASE UNCHANGED <<prevd_jumps, prevd_jumps_set, jobs, save_jmp_locs, logged>>
           /\ stage # "exited"
  BY <1>0, <1>2 DEF Held, Queued
<1>3. ASSUME NEW v \in VCPU, ExecLog(v) PROVE logged'[w] = Held(w)'
  <2>1. signaled_edges[v] \in Signal /\ loc[v] \in Loc
    BY <1>3 DEF ExecLog, EdgesTypeOK, CtrlInv
  <2>2. SignalOf(v) \in Edge
    BY <2>1 DEF Signal, SignalOf, Edge, SignaledEdge
  <2>3. Log(v, SignalOf(v)) /\ UNCHANGED <<prevd_jumps_set, jobs, save_jmp_locs, stage>>
    BY <1>3 DEF ExecLog
  <2>. QED
    BY <1>0, <2>2, <2>3, LogHolds
<1>4. ASSUME NEW v \in VCPU, NEW e \in NextEdge, FirstLog(v, e) PROVE logged'[w] = Held(w)'
  <2>1. /\ Log(v, e) /\ e \in Edge
        /\ UNCHANGED <<prevd_jumps_set, jobs, save_jmp_locs, stage>>
    BY <1>4 DEF FirstLog, Edge
  <2>. QED
    BY <1>0, <2>1, LogHolds
<1>5. CASE SaveJob
  <2>1. /\ jobs \in Seq(Job) /\ jobs # <<>> /\ jobs' = Tail(jobs)
        /\ save_jmp_locs' = [save_jmp_locs EXCEPT ![Head(jobs).vcpu] =
                               save_jmp_locs[Head(jobs).vcpu] \cup Head(jobs).edges]
        /\ UNCHANGED <<prevd_jumps, prevd_jumps_set, logged, stage>>
    BY <1>5 DEF SaveJob, HasWork, FileOf, EdgesTypeOK
  <2>2. Queued(w) = Queued(w)' \cup IF w = Head(jobs).vcpu THEN Head(jobs).edges ELSE {}
    BY <2>1, QueuedTake
  <2>3. save_jmp_locs'[w] = save_jmp_locs[w] \cup IF w = Head(jobs).vcpu THEN Head(jobs).edges ELSE {}
    BY <2>1 DEF EdgesTypeOK
  <2>4. Held(w)' = Range(prevd_jumps[w]) \cup prevd_jumps_set[w] \cup Queued(w)' \cup save_jmp_locs'[w]
    BY <2>1 DEF Held
  <2>. QED
    BY <1>0, <2>1, <2>2, <2>3, <2>4 DEF Held
<1>6. CASE Stop
  BY <1>2, <1>6 DEF Stop
<1>7. CASE AtExit
  BY <1>7 DEF AtExit
<1>8. ASSUME NEW v \in VCPU,
             \/ \E l \in Loc, ok \in BOOLEAN : ExecTest(v, l, ok)
             \/ FirstQuiet(v) \/ Leave(v)
             \/ \E targets \in SUBSET VCPU, s \in Signal : AddEdge(v, targets, s)
      PROVE  logged'[w] = Held(w)'
  BY <1>2, <1>8 DEF ExecTest, FirstQuiet, Leave, AddEdge
<1>9. CASE UNCHANGED edgeVars
  BY <1>2, <1>9 DEF edgeVars
<1>. QED
  BY <1>1, <1>3, <1>4, <1>5, <1>6, <1>7, <1>8, <1>9 DEF EdgesNext, VcpuStep

(* Whatever the vCPUs, the pool's thread and add_edge do in whatever order,  *)
(* no edge that tb::exec or first() logged is lost, doubled between vCPUs or *)
(* invented, until at_exit discards the buffers.                            *)
THEOREM EdgesAreNotLost == EdgesSafeSpec => []NoEdgeLost
<1>1. EdgesInit => NoEdgeLost
  BY RangeEmpty DEF EdgesInit, NoEdgeLost, Queued
<1>. QED
  BY <1>1, EdgesInvInit, EdgesInvStep, NoEdgeLostStep, PTL DEF EdgesSafeSpec

-----------------------------------------------------------------------------
(* A vCPU that is out of its block holds at most one edge in its buffer, and *)
(* at_exit runs only when all are; after it nothing more happens.           *)
LossInv ==
  stage = "exited" =>
    /\ jobs = <<>>
    /\ \A v \in VCPU : \E e : logged[v] \ save_jmp_locs[v] \subseteq {e}

LEMMA LossStep ==
  ASSUME EdgesInv, NoEdgeLost, LossInv, [EdgesNext]_edgeVars
  PROVE  LossInv'
<1> USE DEF EdgesInv
<1>1. CASE AtExit
  <2>1. /\ stage = "exiting" /\ jobs = <<>> /\ jobs' = <<>> /\ logged' = logged
        /\ save_jmp_locs' = [v \in VCPU |-> save_jmp_locs[v] \cup prevd_jumps_set[v]]
    BY <1>1 DEF AtExit, Saved
  <2>2. ASSUME NEW v \in VCPU
        PROVE  \E e : logged'[v] \ save_jmp_locs'[v] \subseteq {e}
    <3>1. at[v] = "out" /\ prevd_jumps[v] \in Seq(Edge)
      BY <2>1 DEF CtrlInv, EdgesTypeOK
    <3>2. Len(prevd_jumps[v]) <= 1
      BY <3>1 DEF LenInv, MaxLen
    <3>3. \E e : Range(prevd_jumps[v]) \subseteq {e}
      <4>1. Len(prevd_jumps[v]) \in Nat /\ DOMAIN prevd_jumps[v] = 1 .. Len(prevd_jumps[v])
        BY <3>1
      <4>2. DOMAIN prevd_jumps[v] \subseteq {1}
        BY <3>2, <4>1
      <4>3. Range(prevd_jumps[v]) \subseteq {prevd_jumps[v][1]}
        BY <4>2 DEF Range
      <4>. QED
        BY <4>3
    <3>4. logged[v] = Range(prevd_jumps[v]) \cup prevd_jumps_set[v] \cup Queued(v) \cup save_jmp_locs[v]
      BY <2>1 DEF NoEdgeLost
    <3>5. Queued(v) = {}
      BY <2>1 DEF Queued
    <3>. QED
      BY <2>1, <3>3, <3>4, <3>5
  <2>. QED
    BY <2>1, <2>2 DEF LossInv
<1>2. CASE ~AtExit /\ stage # "exited"
  <2>1. stage' \in {stage, "exiting"}
    BY <1>2 DEF EdgesNext, VcpuStep, ExecPlain, ExecTest, ExecLog, ExecReset, FirstLog,
                FirstQuiet, Leave, AddEdge, SaveJob, Stop, edgeVars
  <2>. QED
    BY <1>2, <2>1 DEF LossInv
<1>3. CASE stage = "exited"
  <2>1. jobs = <<>> /\ \A v \in VCPU : at[v] = "out"
    BY <1>3 DEF LossInv, CtrlInv
  <2>2. UNCHANGED edgeVars
    BY <1>3, <2>1 DEF EdgesNext, VcpuStep, ExecPlain, ExecTest, ExecLog, ExecReset, FirstLog,
                FirstQuiet, Leave, AddEdge, SaveJob, HasWork, Stop, AtExit
  <2>. QED
    BY <2>2 DEF LossInv, edgeVars
<1>. QED
  BY <1>1, <1>2, <1>3

(* at_exit loses at most the edge a vCPU logged last: for every number of    *)
(* vCPUs, whatever is still queued when QEMU stops.                         *)
THEOREM ExitLosesOneEdge == EdgesSafeSpec => []ExitLossBounded
<1>1. EdgesInit => NoEdgeLost /\ LossInv
  BY RangeEmpty DEF EdgesInit, NoEdgeLost, Queued, LossInv
<1>2. LossInv => ExitLossBounded
  <2>1. SUFFICES ASSUME LossInv, stage = "exited", NEW v \in VCPU
                 PROVE  Cardinality(logged[v] \ save_jmp_locs[v]) <= 1
    BY DEF ExitLossBounded
  <2>2. PICK e : logged[v] \ save_jmp_locs[v] \subseteq {e}
    BY <2>1 DEF LossInv
  <2>3. logged[v] \ save_jmp_locs[v] = {} \/ logged[v] \ save_jmp_locs[v] = {e}
    BY <2>2
  <2>4. Cardinality({}) = 0 /\ Cardinality({e}) = 1
    BY FS_EmptySet, FS_Singleton
  <2>. QED
    BY <2>3, <2>4
<1>. QED
  BY <1>1, <1>2, EdgesInvInit, EdgesInvStep, NoEdgeLostStep, LossStep, PTL DEF EdgesSafeSpec
=============================================================================
