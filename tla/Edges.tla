------------------------------- MODULE Edges -------------------------------
(***************************************************************************)
(* How the plugin records control-flow edges: every vCPU collects them in   *)
(* its own small buffer, the next block execution moves the buffer into a   *)
(* per-vCPU set, a full set becomes a job of the one-thread pool, and       *)
(* at_exit writes what is left (cbs::tb::exec and cbs::at_exit in           *)
(* QEMU/main.cpp, add_edge in QEMU/src/archs/X86.hpp).                      *)
(*                                                                         *)
(* Each vCPU runs in its own thread and nothing here takes a lock. The only *)
(* cell two vCPUs share is signaled_edges[v], so tb::exec is split where it *)
(* reads that cell; all the rest of a handler is one step.                  *)
(***************************************************************************)
EXTENDS Integers, Sequences, FiniteSets, Functions

CONSTANTS
  VCPU,       \* vCPUs
  Loc,        \* start addresses of the blocks
  Phys,       \* physical addresses
  translate,  \* physical address of a block's start, when it translates
  RealPc,     \* values of real PCs
  BufferN,    \* MAX_BUFFER_N, capacity of prevd_jumps[v]
  SetN,       \* MAX_BUFFER_N_SET
  MaxJobs,    \* bound on queued jobs (the real queue is unbounded)
  None        \* std::nullopt

ASSUME EdgesAssumption ==
  /\ BufferN \in Nat /\ SetN \in Nat /\ MaxJobs \in Nat
  /\ translate \in [Loc -> Phys]

Signal == [from : RealPc, target_pc : Phys]
NextEdge == [k : {"next"}, dst : RealPc, src : RealPc]
SignaledEdge == [k : {"signaled"}, dst : Loc, src : RealPc]
Edge == NextEdge \cup SignaledEdge
Job == [vcpu : VCPU, edges : SUBSET Edge]

ASSUME NoneAssumption == None \notin Signal \cup Edge \cup Loc

VARIABLES
  prevd_jumps,      \* buffer of each vCPU
  prevd_jumps_set,  \* set of each vCPU
  jobs,             \* queue of the thread pool
  save_jmp_locs,    \* edges in each vCPU's file
  signaled_edges,   \* pending signal of each vCPU, or None
  at,               \* where each vCPU is: "out" of any block, in tb::exec
                    \* ("log", "reset"), at the "first" instruction, in the "body"
  loc,              \* start of the block tb::exec was called for
  tested,           \* history: the signal tb::exec compared, or None
  logged,           \* history: every edge put in a buffer
  stage             \* "run", then "exiting" (in at_exit), then "exited"

edgeVars == <<prevd_jumps, prevd_jumps_set, jobs, save_jmp_locs, signaled_edges,
              at, loc, tested, logged, stage>>

EdgesInit ==
  /\ prevd_jumps = [v \in VCPU |-> <<>>]
  /\ prevd_jumps_set = [v \in VCPU |-> {}]
  /\ jobs = <<>>
  /\ save_jmp_locs = [v \in VCPU |-> {}]
  /\ signaled_edges = [v \in VCPU |-> None]
  /\ at = [v \in VCPU |-> "out"]
  /\ loc = [v \in VCPU |-> None]
  /\ tested = [v \in VCPU |-> None]
  /\ logged = [v \in VCPU |-> {}]
  /\ stage = "run"

(* emplace_back on prevd_jumps[v]. *)
Log(v, e) ==
  /\ prevd_jumps' = [prevd_jumps EXCEPT ![v] = Append(@, e)]
  /\ logged' = [logged EXCEPT ![v] = @ \cup {e}]

(* Mutants, one plausible bug each: a full set that is cleared but not       *)
(* posted, a buffer that is not cleared, a signaled edge with the wrong field *)
(* for its source, every job written to one file, a pool stopped before it is *)
(* joined, an exit that skips the sets.                                     *)
PostNever(v, jset) == jobs
DrainedNot(v) == prevd_jumps[v]
SignalOfTarget(v) ==
  [k |-> "signaled", dst |-> loc[v], src |-> signaled_edges[v].target_pc]
FileOfFirst(j) == CHOOSE v \in VCPU : TRUE
HasWorkWhileRunning == jobs # <<>> /\ stage = "run"
SavedWithoutSet(v) == save_jmp_locs[v]

OverLimit(jset) == Cardinality(jset) > SetN
Post(v, jset) == Append(jobs, [vcpu |-> v, edges |-> jset])
Drained(v) == <<>>

(* The tail of tb::exec: an empty buffer changes nothing, else it moves     *)
(* into the set, and a set above SetN moves into a job.                     *)
Drain(v) ==
  LET jset == prevd_jumps_set[v] \cup Range(prevd_jumps[v])
      full == prevd_jumps[v] # <<>> /\ OverLimit(jset)
  IN /\ full => Len(jobs) < MaxJobs
     /\ prevd_jumps' = [prevd_jumps EXCEPT ![v] = Drained(v)]
     /\ prevd_jumps_set' = [prevd_jumps_set EXCEPT ![v] = IF full THEN {} ELSE jset]
     /\ jobs' = IF full THEN Post(v, jset) ELSE jobs

(* tb::exec with no signal pending. *)
ExecPlain(v) ==
  /\ stage = "run" /\ at[v] = "out" /\ signaled_edges[v] = None
  /\ Drain(v)
  /\ at' = [at EXCEPT ![v] = "first"]
  /\ UNCHANGED <<save_jmp_locs, signaled_edges, loc, tested, logged, stage>>

(* tb::exec sees a pending signal and compares its target; ok is what       *)
(* qemu_plugin_translate_vaddr returned.                                    *)
ExecTest(v, l, ok) ==
  /\ stage = "run" /\ at[v] = "out" /\ signaled_edges[v] # None
  /\ at' = [at EXCEPT ![v] =
              IF ok /\ signaled_edges[v].target_pc = translate[l] THEN "log" ELSE "reset"]
  /\ loc' = [loc EXCEPT ![v] = l]
  /\ tested' = [tested EXCEPT ![v] = signaled_edges[v]]
  /\ UNCHANGED <<prevd_jumps, prevd_jumps_set, jobs, save_jmp_locs, signaled_edges,
                 logged, stage>>

(* The target matched: the cell is read again for the source. *)
SignalOf(v) == [k |-> "signaled", dst |-> loc[v], src |-> signaled_edges[v].from]

ExecLog(v) ==
  /\ at[v] = "log"
  /\ Log(v, SignalOf(v))
  /\ at' = [at EXCEPT ![v] = "reset"]
  /\ UNCHANGED <<prevd_jumps_set, jobs, save_jmp_locs, signaled_edges, loc, tested, stage>>

(* The cell is cleared, whatever it holds by now, and the buffer drained. *)
ExecReset(v) ==
  /\ at[v] = "reset"
  /\ signaled_edges' = [signaled_edges EXCEPT ![v] = None]
  /\ tested' = [tested EXCEPT ![v] = None]
  /\ Drain(v)
  /\ at' = [at EXCEPT ![v] = "first"]
  /\ loc' = [loc EXCEPT ![v] = None]
  /\ UNCHANGED <<save_jmp_locs, logged, stage>>

(* process::inst::first logs at most one edge per block execution. *)
FirstLog(v, e) ==
  /\ at[v] = "first"
  /\ Log(v, e)
  /\ at' = [at EXCEPT ![v] = "body"]
  /\ UNCHANGED <<prevd_jumps_set, jobs, save_jmp_locs, signaled_edges, loc, tested, stage>>

FirstQuiet(v) ==
  /\ at[v] = "first"
  /\ at' = [at EXCEPT ![v] = "body"]
  /\ UNCHANGED <<prevd_jumps, prevd_jumps_set, jobs, save_jmp_locs, signaled_edges,
                 loc, tested, logged, stage>>

(* x86::mem::access from vCPU v sends a start-up signal: add_edge stores it *)
(* in the cell of every target.                                            *)
AddEdge(v, targets, s) ==
  /\ at[v] = "body"
  /\ signaled_edges' = [w \in VCPU |-> IF w \in targets THEN s ELSE signaled_edges[w]]
  /\ UNCHANGED <<prevd_jumps, prevd_jumps_set, jobs, save_jmp_locs, at, loc, tested,
                 logged, stage>>

(* QEMU: the vCPU leaves the block. *)
Leave(v) ==
  /\ at[v] = "body"
  /\ at' = [at EXCEPT ![v] = "out"]
  /\ UNCHANGED <<prevd_jumps, prevd_jumps_set, jobs, save_jmp_locs, signaled_edges,
                 loc, tested, logged, stage>>

(* The pool's thread runs the oldest job: edges::save to the vCPU's file. *)
HasWork == jobs # <<>>
FileOf(j) == j.vcpu

SaveJob ==
  /\ HasWork
  /\ save_jmp_locs' = [save_jmp_locs EXCEPT ![FileOf(Head(jobs))] = @ \cup Head(jobs).edges]
  /\ jobs' = Tail(jobs)
  /\ UNCHANGED <<prevd_jumps, prevd_jumps_set, signaled_edges, at, loc, tested,
                 logged, stage>>

(* QEMU stops the vCPUs and calls at_exit, which waits for the pool. *)
Stop ==
  /\ stage = "run"
  /\ \A v \in VCPU : at[v] = "out"
  /\ stage' = "exiting"
  /\ UNCHANGED <<prevd_jumps, prevd_jumps_set, jobs, save_jmp_locs, signaled_edges,
                 at, loc, tested, logged>>

(* pool->join() returned: at_exit writes the sets and destroys the rest. *)
Saved(v) == save_jmp_locs[v] \cup prevd_jumps_set[v]

AtExit ==
  /\ stage = "exiting" /\ jobs = <<>>
  /\ save_jmp_locs' = [v \in VCPU |-> Saved(v)]
  /\ prevd_jumps_set' = [v \in VCPU |-> {}]
  /\ prevd_jumps' = [v \in VCPU |-> <<>>]
  /\ signaled_edges' = [v \in VCPU |-> None]
  /\ stage' = "exited"
  /\ UNCHANGED <<jobs, at, loc, tested, logged>>

VcpuStep(v) ==
  \/ ExecPlain(v)
  \/ \E l \in Loc, ok \in BOOLEAN : ExecTest(v, l, ok)
  \/ ExecLog(v) \/ ExecReset(v)
  \/ \E e \in NextEdge : FirstLog(v, e)
  \/ FirstQuiet(v) \/ Leave(v)
  \/ \E targets \in SUBSET VCPU, s \in Signal : AddEdge(v, targets, s)

EdgesNext == (\E v \in VCPU : VcpuStep(v)) \/ SaveJob \/ Stop \/ AtExit

(* The pool's thread keeps taking jobs, and the thread in at_exit goes on   *)
(* once join() returns; nothing makes a guest run or stop.                  *)
EdgesFairness == WF_edgeVars(SaveJob) /\ WF_edgeVars(AtExit)

EdgesSafeSpec == EdgesInit /\ [][EdgesNext]_edgeVars
EdgesSpec == EdgesSafeSpec /\ EdgesFairness

-----------------------------------------------------------------------------
(* Type invariant. *)
EdgesTypeOK ==
  /\ prevd_jumps \in [VCPU -> Seq(Edge)]
  /\ prevd_jumps_set \in [VCPU -> SUBSET Edge]
  /\ jobs \in Seq(Job)
  /\ save_jmp_locs \in [VCPU -> SUBSET Edge]
  /\ signaled_edges \in [VCPU -> Signal \cup {None}]
  /\ at \in [VCPU -> {"out", "log", "reset", "first", "body"}]
  /\ loc \in [VCPU -> Loc \cup {None}]
  /\ tested \in [VCPU -> Signal \cup {None}]
  /\ logged \in [VCPU -> SUBSET Edge]
  /\ stage \in {"run", "exiting", "exited"}

(* prevd_jumps is a fixed_vector whose emplace_back throws when full: it    *)
(* never holds more than two edges, the one first() logged and a signaled   *)
(* one, because every tb::exec drains it.                                   *)
NeverOverflows == \A v \in VCPU : Len(prevd_jumps[v]) <= BufferN

Queued(v) == UNION {jobs[n].edges : n \in {m \in DOMAIN jobs : jobs[m].vcpu = v}}

(* Until at_exit discards the buffers, every edge a vCPU logged is in its   *)
(* buffer, its set, a queued job or its own file, and nothing else is.      *)
NoEdgeLost ==
  stage # "exited" =>
    \A v \in VCPU : logged[v] = Range(prevd_jumps[v]) \cup prevd_jumps_set[v]
                                \cup Queued(v) \cup save_jmp_locs[v]

(* What at_exit does not save is the buffer: at most one edge per vCPU, the *)
(* last one logged.                                                        *)
ExitLossBounded ==
  stage = "exited" => \A v \in VCPU : Cardinality(logged[v] \ save_jmp_locs[v]) <= 1

(* A posted job is written to its vCPU's file. *)
JobsGetSaved ==
  \A v \in VCPU, e \in Edge : (e \in Queued(v)) ~> (e \in save_jmp_locs[v])

(* at_exit returns: pool->join() does not wait for ever. *)
ExitFinishes == (stage = "exiting") ~> (stage = "exited")

(* defs.hpp:29 gives each vCPU its own vector "to prevent race conditions": *)
(* tb::exec clears the pending signal it compared, not one that another     *)
(* vCPU stored meanwhile.                                                   *)
ClearsWhatItTested ==
  [][\A v \in VCPU : signaled_edges[v] # None /\ signaled_edges'[v] = None
                     /\ stage' # "exited" => signaled_edges[v] = tested[v]]_edgeVars

(* blocks.hpp:124 calls dst_realpc the "Dest real PC", as first() stores it.    *)
(* tb::exec stores the virtual address of the block.                        *)
DestIsReal == \A v \in VCPU : \A e \in logged[v] : e.dst \in RealPc
=============================================================================
