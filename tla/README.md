# LuraDBI in TLA+

LuraDBI is a QEMU plugin that records what a guest executes (translated blocks,
control-flow edges, interrupts, vCPU states) into save files, an example program
that loads those files, reconstructs the control flow and prints a listing, and a
small library ("profile") that builds and stores instruction maps. This directory
holds TLA+ models of the three, their TLC configurations, and TLAPS proofs.

Paths below are relative to the repository root (`QEMU/main.cpp`, ...). A comment
above each definition says what it stands for; `PROJECT.json` lists the source
lines of each.

## 1. The system

```
 QEMU (external)                      plugin (QEMU/)                        example (Example/)
 vCPU threads --trans---------------> blocks, block_graveyard --\
              --tb exec, insn exec--> instruction records        \
                                      prevd_jumps -> set -> job --> save files --> load loop
              --mem access----------> signaled_edges[other vCPU] /                 analysis
              --discon/idle/resume--> ints, vcpu_states ---------                  listing
              --flush, atexit
```

| Component | State | Operations | Module |
|---|---|---|---|
| Block store (`tb::trans`, `tb_flush`, `at_exit`) | `blocks`, `block_graveyard`, `logged_ranges`, `global_block_id`, `fretranslated` | translate (evict, flag, insert), flush, exit | `Translation`, abstract: `BlockLife` |
| Edge recording (`tb::exec`, thread pool, `add_edge`) | `prevd_jumps`, `prevd_jumps_set`, pool queue, `save_jmp_locs`, `signaled_edges` | drain, post, save, signal, exit | `Edges` |
| Instruction records (`process::inst::first`/`inst`, `vcpus::init`/`discon`/`idle`/`resume`) | `real_pc`, `curr_pc`, the record of each instruction, `fadd_real_pc`, `ints`, `vcpu_states` | number, log an edge, set the predecessor, log an interrupt, resolve it, capture, flush | `Exec` |
| The plugin as a whole | all of the above on the same vCPUs | each callback, with the blocks and records it shares with the others | `Plugin` |
| Local APIC watcher (`x86::mem::access`, WRMSR callbacks) | `map_id`, `last_target_apic_id`, `mmio::base` | ICR high, ICR low, id register, APIC base | `Apic` |
| Save files (`write`/`save`/`read` in `shared/luramas/blocks.hpp`, load loop) | the files; `block_map`, `edge_map`, `interrupts`, `block_states` | write each kind of record, be killed, read each kind, end a file | `Loader` |
| Analysis (`analysis::analyze`, `init_flags`) | sorted blocks and interrupts, `vaddr_to_real_pc`, `vaddr_pending`, edges, flags | sort, emit edges per block, link interrupts, set flags | `Analysis` |
| Listing (`main`, from "Disassemble nodes") | `references_labels`, `addr_stack`, `visited`, `result` | collect labels, skip, miss, print | `Walk` |
| Plugin and program together | what the plugin saved is what the program analyses | run, exit, load, analyse | `Pipeline` |
| Profile library, builder and file (`shared/luramas/profile`) | `next`, `data.map`, `labels`, the file | emit in four ways, place a label, clear, save, load, find the next instruction | `Profile` |
| Profile library, queries | a loaded file | orders of execution, alternatives in lane, next, byte search; externals and pages (not modelled) | `Details` |

How they interact:

* QEMU calls the plugin from one host thread per vCPU. `trans`, `tb_flush` and
  `init` take `tbmutex`; the exec callbacks, `discon`, `idle`, `resume` and the
  memory callback take nothing and rely on every vCPU having cells of its own.
  What is shared all the same: the blocks and the instruction records in them
  (raw pointers given to QEMU), and `signaled_edges[v]`, which other vCPUs write.
* A vCPU's edges go buffer -> set -> job -> file; the pool has one thread.
* `tb_flush` runs when no vCPU is inside a block; `at_exit` when all have stopped.
* Plugin and example program share only the files.

What is hard here: eviction against callbacks in other threads; a cell written
and cleared by two threads; records shared by vCPUs; what a flush empties under a
waiting interrupt; what exit or a kill leaves behind; data that is sorted, keyed
and linked by counters of another phase (`global_block_id`, `real_pc`); results
that must not depend on the order of hash maps and directories.

## 2. What makes each component correct

Section 4 names the property for each.

* Block store: a block is never lost, saved twice, or freed while QEMU may still
  call back into it; the flag `fretranslated` and the map agree.
* Edges: no edge lost or misfiled, no overflow, bounded loss at exit, every job
  written, exit returns.
* Records: unique numbers, no invented edge, no missed re-entry, interrupts
  resolved to the right place, no empty `curr_pc` dereferenced.
* APIC: signals are where the machine's start-up interrupts are, for guests that reach
  their APIC at the virtual address equal to its physical base.
* Loader: everything wholly stored is loaded once, in order, wherever files end, but
  for one block at most that a cut record replaces.
* Analysis: no recorded predecessor dropped; interrupts linked to what their
  source address meant at the time; branch flags justified by the data.
* Listing: exactly the reachable blocks, once; labels defined; fall-through
  adjacent; the walk ends.
* Plugin: a callback's record is alive and not yet saved; what is saved is final;
  ids read without the mutex still order interrupts after their blocks.
* Plugin and program: every repeated transition is an edge of the result, and no
  "next" edge is invented but those from real PC 0 and those of start-up signals.
* Profile: references patched, numbering gapless, following an instruction right,
  load gives what was saved first; the orders have every instruction and alternative
  where it belongs, and what they index is there.

## 3. Modules

| Module | Is |
|---|---|
| `Translation`, `BlockLife` | the block store under QEMU's calls; what it promises |
| `Edges`, `Exec`, `Apic` | the other parts of the plugin |
| `Plugin` | `Exec` extended with an instance of `Translation`: the plugin as a whole |
| `Loader`, `Analysis`, `Walk` | the save files and the example program |
| `Pipeline` | `Plugin` extended with an instance of `Analysis`: from the guest to the edges |
| `Profile`, `Details` | the profile library: builder and file; what it computes of a file |
| `Pipeline_proofs` | theorems about `Exec`, with them about `Plugin`, and with both and those of `Analysis` about `Pipeline` |
| other `*_proofs` | theorems about `Translation`, `Edges`, `Apic`, `Loader`, `Analysis`, `Walk`, `Profile` |
| `MC*` | constants of the runs; `MCX.cfg` is the run of module `X` |

How the composition is made. In `Plugin` the store is `INSTANCE Translation`, with
its cells (`blocks`, `block_graveyard`, ...) as variables of `Plugin` and two of
Translation's variables defined from what `Exec` has: the range of each id
(`SpanOf`), and the block each vCPU is inside (`InBlock`). An action of `Plugin`
joins an action of `Exec` and one of the store, or leaves one of them alone. Two
things can then only be said here: a record may be freed or saved under a callback
(`RecordsAlive`, `SavedIsFinal`), and the ids `discon` reads without the mutex are
those that `trans` counts up under it (`IdsCoverSource`). That each step is a step
of `Translation` or a stutter (`StoreKept`) and a step of `Exec` or a stutter is
proved. `Pipeline` saves what `Plugin` has in its file, loads it in one step and
runs `Analysis` on it. The load step keeps any one of the blocks whose first
instructions have the same real PC, which covers every order `Loader` reads them
in; `Loader` has the detail, and the losses of a kill. Of `Edges` it keeps the two
kinds of edges that are in the files: those that `first()` logs, less what a buffer
holds at exit, and those that `tb::exec` adds when it takes a start-up signal. The
second kind leads to the virtual address of a block, and the analysis emits it as
"next" like the first (`Example/main.cpp:104`). Which access sends a signal to whom
is the guest's (`Access`, of the instructions in `Icr`); `Apic` has the detail.

Each handler is one action, or, where another thread can come between two of its
accesses, one action for each part: `tb::exec` is `ExecTest`, `ExecLog`,
`ExecReset` around the shared signal cell; `first()` is `FindNew`, `MarkValid`,
`Number`, `FirstAgain`, `FirstSet`. Definitions that begin with another one's name
(`EvictedNever`, `PostNever`, ...) and stand under "Mutants" are variants of the
code with a plausible bug; no specification uses them, they serve to show that
each property can fail.

QEMU, the machine, the guest, the file system and the disassembler are external:
what they may do is modelled from how the code uses them. In `Translation` QEMU
may run any cached translation, drop one it has just made, and invalidate any
written address. In `Apic` the machine keeps its own registers beside the
plugin's tables, each vCPU's page tables among them: `base` is a physical address,
and `access()` is given a virtual one. `Loader`'s `Kill` leaves each file any prefix. `Analysis` and
`Walk` get what the disassembler says as data.

## 4. Runs

| Run | Properties | Instance |
|---|---|---|
| `translation` | `TypeOK OneHome NoUseAfterFree FlagIffRetired ImplementsBlockLife` | 2 vCPUs; 4 ranges that touch, overlap, nest, end where another begins, and one of a single byte; 4 translations |
| `edges` | `EdgesTypeOK NeverOverflows NoEdgeLost ExitLossBounded JobsGetSaved ExitFinishes` | 2 vCPUs, 1 block, a buffer of 2, sets of 1, 1 queued job |
| `exec` | `RealPcsUnique ReentryRecorded EdgesHappened InterruptsResolved PrevIsSet` | 2 vCPUs: one with 2 blocks and 2 interrupts between flushes, one with 1 block and 1 capture between flushes; 3 numbers each |
| `exec_flush` | violates `PendingHasInterrupt` | 1 vCPU |
| `plugin` | `RecordsAlive SavedIsFinal IdsCoverSource` | 2 vCPUs that share a block, one of which also runs another translation of the same address, and gets an interrupt between flushes; 2 numbers each |
| `apic` | `SyncKept NoSignalMissed` | 2 vCPUs, 3 ids, 2 pages, each an APIC page and a virtual one, 1 start page; both touch their id register, one polls its ICR, one changes its page tables |
| `loader` | `StoredIsLoaded ExecutedBlocksLoaded CleanLoad LoadFinishes` | 1 vCPU, 3 blocks (real PC 1 and two instructions; never executed; real PC 257, which cut in its first byte is 1, `PcBytes` is 2), 1 interrupt and 1 state, 2 edges, vectors of at most 2 (`MaxItems`), 1 flush, 1 saved set |
| `analysis` | `PredecessorsKept InterruptsLinked FlagsJustified` | 3 blocks, one a retranslation of another; all predecessors, logs and up to 2 interrupts over a small range |
| `pipeline` | `TransitionsKept InterruptTargets` | 1 vCPU, 3 blocks, one of two instructions, two of one address; two re-entries, an idle and a resume, or up to 2 interrupts, or start-up signals from one instruction to any block |
| `walk` | `ListsReachable LabelsDefined NextIsNext WalkFinishes` | all graphs over 3 addresses |
| `profile` | `LabelsResolved RealPcsInOrder NextIsRight LoadedIsFirstSaved` | 1 label, instructions of 1 or 2 bytes, 4 addresses, 2 saves, 6 items in all (`MaxSize`) |
| `details` | `OrganizedComplete InlanedFound` | 3 records with up to 2 alternatives each, written by one builder or by two (`MaxSaves`) that use the same addresses |

The definitions `ExecTypeOK` and `ApicTypeOK` are the type invariants of their
modules, and are invariants of the runs `exec` and `apic` too if named there.

What the passing runs show is their properties, which the comment above each
states. Why the bounds are enough for what they are about:

* `translation`: an evicted block needs two translations, one evicted at its end
  three, and a fourth follows a flush or another eviction. Larger instances are
  covered by the proofs.
* `edges`: a limit of 1 makes the second edge post a job, a buffer of 2 is the
  smallest that does not overflow; two edges of different kind can meet in it.
  `MaxJobs` bounds a queue the code leaves unbounded; it delays a block, and
  hides no order, because jobs are independent of one another.
* `exec`: two blocks, one of two instructions, give every pair of predecessors
  (same block, other block, middle of a block by an exception, idle). Two
  interrupts are one before the handler of the other. Bounds on interrupts and
  captures are per flush: flushes make the run unbounded in their number.
  The instance gives each block to one vCPU, as `EdgesHappened` needs it:
  `MCExecShared.cfg` shows why. Shared blocks are the subject of `plugin` and of
  the proofs.
* `plugin`: two blocks at one address are the fewest with which one vCPU displaces
  the block another is inside; the flush after it frees what is displaced.
* `pipeline`: one vCPU is enough, because the vCPUs' logs and edges are joined only
  in the files, and numbers are unique (proved). `Bounded` leaves out the runs that
  have many re-entries and interrupts at once; a second interrupt comes only in
  runs with two blocks, where it is nested or follows a flush. Start-up signals come
  in runs with nothing else (`Quiet`): they meet other edges only in the file.
* `details`: two alternatives are the fewest of which one can be in lane and one
  out of it, in either order, and whose real PCs collide with those of the next
  instructions. Three records and two builders are the fewest in which the second
  puts an instruction where the first has an alternative. Modules do not touch.
* `apic`: the id table is one longer than the vCPUs; the two vCPUs are sender and
  target, in both roles. Two pages are the fewest with which the watched address
  leads away from the APIC, or another one to it.
* `loader`: every kind of record is in the main file before and after a flush and
  cut in every place, the bytes of a first real PC included; the two files (one main,
  one of edges) are opened in any order. Any other torn item counts as blank: no
  property tells the halves of it apart. More vCPUs and longer vectors are covered
  by the proofs. Counts are below 256, so a count that is cut is zero or complete.
* `analysis`: three translations are the fewest in which an address changes its
  meaning before and after an interrupt.
* `walk`: three addresses have cycles, a block met on two ways, an address without
  a block, and several fall-throughs. The proofs cover every finite graph for all
  but termination.
* `profile`: a label twice placed with references before, between and after.

Deadlock is checked where the system never stops (`exec`, `apic`, `profile`).
The others end by design: after `at_exit`, at the end of `main`, at the last record
of a file.

### Fairness

* `EdgesFairness`: weak fairness of the pool's thread and of the thread in
  `at_exit`, which are ordinary host threads that nothing blocks (one waits for
  the other by `pool->join()`). No fairness for the guest: it need not run or stop.
* `LoaderSpec`, `WalkSpec`: weak fairness of the program, one thread that runs.
* The others state safety only.

### What the code does otherwise than it says

`exec_flush`: `tb_flush` clears `ints[v]` but not `fadd_real_pc`; the next block
calls `back()` on an empty vector (`process.hpp:32`), while `defs.hpp:85` says that
"when TBs execute it checks the last one".

Each of the following configurations has one property that states what a comment
promises, and TLC finds a behaviour of the code that breaks it. Run them with
`tlc -config <file> <module>`; the module is the file's name up to the last word.

| Configuration | Refutes | Because | The promise |
|---|---|---|---|
| `MCEdgesRace.cfg` | `ClearsWhatItTested` | `tb::exec` tests `signaled_edges[v]` and resets it later (`QEMU/main.cpp:339-345`): a signal that another vCPU stores in between is cleared unseen | "Each VCPU gets there own vector to prevent race conditions" (`defs.hpp:29`) |
| `MCEdgesDest.cfg` | `DestIsReal` | a signaled edge carries `b->loc`, a virtual address (`QEMU/main.cpp:343`) | "Dest real PC" (`blocks.hpp:124`) |
| `MCExecFirst.cfg` | `FirstEntryRecorded` | `fvalid_prev_real_pc` starts true (`basic_info.hpp:16`) and is never cleared, so `first()` stores no predecessor (`process.hpp:25`) | "gives previous Real PC of any instruction where the previous real PC set before this was executed is different" (`blocks.hpp:118`) |
| `MCExecShared.cfg` | `CurrPcRan` | `fvalid` is set before `real_pc` (`process.hpp:18`): a second vCPU in the same block takes real PC 0 | "Curr real PC" (`defs.hpp:38`) |
| `MCExecHotplug.cfg` | `RealPcsUnique` | `init` changes the stride of the numbers after some were given (`helpers.hpp:24`) | "logical PC tracked relative to incoming VCPU" (`helpers.hpp:19`) |
| `MCExecGrow.cfg` | `VectorsStay` | `init` resizes the vectors under `tbmutex` (`QEMU/main.cpp:136`), callbacks of running vCPUs hold references into them without it | `defs.hpp:29`, as above |
| `MCPluginSource.cfg` | `IdMapsToSource` | `discon` stores the next id (`QEMU/main.cpp:250`): another vCPU may have translated the same address since | "Current global block ID to map to the instruction where it came from" (`blocks.hpp:226`) |
| `MCPipelineZero.cfg` | `NextEdgesRan` | the unset `prev_real_pc` of a block's first instruction becomes an edge from real PC 0 (`Example/main.cpp:120`) | "Captured from instruction execution, jumped or fell to it" (`blocks.hpp:97`) |
| `MCPipelineSource.cfg` | `InterruptSources` | an interrupt with the id of block b is due after b's addresses have replaced those of the interrupted block (`Example/main.cpp:140`) | "based on the insts located at the curr block time of execution" (`Example/main.cpp:89`) |
| `MCPipelineMid.cfg` | `ExceptionsLinked` | instructions that follow the one before them never get into `vaddr_to_real_pc` (`Example/main.cpp:114`), so an exception at one is never linked | the same line |
| `MCLoaderEntry.cfg` | `EntryIsLoaded` | blocks that never ran have real PC 0 like the entry block, and the last one loaded stays in `block_map` (`Example/main.cpp:385`) | "First instruction executed on 0 vcpu?" (`blocks_flags.hpp:13`) |
| `MCAnalysisSignals.cfg` | `SignalsKept` | every edge of `edge_map` is emitted as next (`Example/main.cpp:104`) | of the kind signaled: "Instruction signaled to execute this" (`blocks.hpp:96`) |
| `MCTranslation.cfg` with `INVARIANT RangesCoverMapped` | `RangesCoverMapped` | `logged_ranges` joins adjacent intervals, and displacing a block erases the whole of one (`QEMU/main.cpp:480`); nothing reads the set | "Ranged of each block to track SMCs" (`defs.hpp:71`) |
| `MCDetailsInlane.cfg` | `InlaneByPc` | runs are reserved under a PC and filled under a real PC (`profile.cpp:764-768`) | "Generate inlane discrepncies {PC, {{PC, INLANE ID}, ...}}" (`profile.hpp:218`) |
| `MCDetailsAddr.cfg` | `AddrFindsBytes` | the search looks up its start again and never moves (`profile.cpp:884`) | "Find address and module ID given bytes" (`profile.hpp:242`) |
| `MCDetailsIndex.cfg` | `ComparedInRange` | `compare` returns i + 1 for alternative i, and the caller indexes with it (`profile.cpp:881`) | "returns module_id, 0 = first" (`profile.hpp:121`) |

Not modelled as a property: `blocks.hpp:284` says a capture holds "the state of all
active other vcpus", which `idle` and `resume` do not store.

### Other behaviour seen while modelling

Modelled, so a property that claims the opposite would fail:

* Any second translation at a start address, as after a flush, sets
  `fretranslated`, which the example shows as self-modified
  (`QEMU/main.cpp:477`, `shared/luramas/blocks_flags.hpp:9`).
* `at_exit` does not drain the buffers: the last edge of a vCPU is not saved
  (`QEMU/main.cpp:533`). `ExitLossBounded` says it is at most that one.
* A touch of the APIC id register by vCPU n sets entry 0 of `map_id` to n
  (`QEMU/src/archs/X86.hpp:42`); a read of the ICR counts as another write
  (`QEMU/main.cpp:450`). `SyncKept` excludes exactly these steps.
* `access()` compares the virtual address of an access (`QEMU/src/archs/X86.hpp:33`)
  with the physical base that WRMSR was given (line 145, at first 0xFEE00000). A
  guest whose page tables map its APIC to another virtual address sends start-up
  interrupts that the plugin never sees; one that has memory at the virtual address
  has that memory taken for the APIC. `SyncKept` and `NoSignalMissed` start from
  states where APIC and address agree (`Mapped`), and exclude the steps after
  which they do not (`Moves`, `Remaps`).
* A block record cut before its instructions makes the program call `front()` on
  an empty vector (`Example/main.cpp:385`); cut vectors give blank items. `CleanLoad`
  says that the program stops nowhere else.
* A block record cut inside the 8 bytes of its first real PC
  (`shared/luramas/basic_info.hpp:33`) is loaded under what is left of the number,
  which can be the real PC of another executed block (257 cut after a byte is 1):
  that block is replaced, though it was wholly stored (`Example/main.cpp:385`).
  `ExecutedBlocksLoaded` says that it is the only one.
* Start-up signals come out of the analysis as "next" edges to a virtual address
  (`QEMU/main.cpp:343`, `Example/main.cpp:104`): `DestIsReal` and `SignalsKept` above
  refute the two promises, and `TransitionsKept` allows for these edges (`StartUp`).
* Pending interrupts end as an edge from an instruction to itself
  (`Example/main.cpp:128`); interrupts logged after the last translation are not
  looked at (line 140); `fother_branch_edge` depends on the order of a hash set
  (306-311); unexecuted instructions look up the successors of real PC 0 (295).
* In the profile library, an alternative leaves a gap in the addresses, after which
  `find::next` finds nothing; a label placed twice moves only the references that
  were pending; a load keeps the oldest saved version of an address.
* After a second save to the same file, with another layout, the run of an
  alternative in lane can be looked up in another record, with an index past the end
  of its alternatives (`shared/luramas/profile/profile.cpp:827`): undefined. Without its
  first disjunct `InlanedFound` is refuted by exactly this.

Outside the models:

* Files an earlier run left behind are loaded with the new ones.
* `default:` of the load loop does not advance; no writer makes such a record.
* `entries.insert(i.entry)` in the builder inserts a flag into a set of PCs
  (`shared/luramas/profile/profile.cpp:407`, `profile.hpp:129`).
* `load` collects the labels and entry points of every record, of those it then drops
  too (`profile.cpp:616-624`), and files a target in another module under the module
  of the instruction. Nothing in the library reads them.
* A zero-length instruction, which QEMU does not make, would shift `&b->insts[i]`.

## 5. Proofs

TLAPS checks them for all values of the constants that satisfy the ASSUMEs of the
module (sets of vCPUs, blocks and ranges of any size, any bound).

| Theorem | States | Assumes |
|---|---|---|
| `StoreInvariant`, `TypeCorrect` | `StoreInv`, `TypeOK` | ranges of naturals |
| `BlocksHaveOneHome` | `OneHome` | |
| `CallbacksSafe` | `NoUseAfterFree` | |
| `FlagsAreRight` | `FlagIffRetired` | |
| `BlockStoreRefinesLife` | `Spec => ImplementsBlockLife` | |
| `EdgesInvariant`, `EdgesTypeCorrect` | `EdgesInv`, `EdgesTypeOK` | |
| `BufferNeverOverflows` | `NeverOverflows` | `BufferN >= 2` |
| `EdgesAreNotLost`, `ExitLosesOneEdge` | `NoEdgeLost`, `ExitLossBounded` | |
| `CurrPcIsSet` | `PrevIsSet` | blocks of one instruction at least |
| `NumbersAreUnique` | `RealPcsUnique` | `InitFirst` |
| `LoggedEdgesHappened`, `ReentriesAreRecorded`, `InterruptsAreResolved` | `EdgesHappened`, `ReentryRecorded`, `InterruptsResolved` | `[]RaceFree` |
| `PrivateBlocksAreRaceFree` | `ExecSpec => []RaceFree` | no block is run by two vCPUs |
| `PluginKeepsStore`, `PluginKeepsRecords` | `PluginSpec => StoreKept`, `PluginSpec => ExecSpec` | finitely many blocks |
| `RecordsStayAlive`, `SavedBlocksAreFinal`, `IdsAreLarge` | `RecordsAlive`, `SavedIsFinal`, `IdsCoverSource` | the same |
| `PipelineKeepsPlugin` | `PipelineSpec => PluginSpec` | the same |
| `TransitionsAreKept`, `InterruptsReachTargets` | `TransitionsKept`, `InterruptTargets` | the same, `Icr` are instructions, and `[]RaceFree` |
| `PrivateRunsAreKept` | both of them | no block is run by two vCPUs |
| `ApicTypeCorrect` | `ApicTypeOK` | |
| `SignalsFollowMachine`, `StartedAreSignaled` | `SyncKept`, `NoSignalMissed` | `IndexIds` |
| `LoaderInvHolds` | `LoaderInv` | finitely many vCPUs and blocks, `Blank` is no item |
| `LoadIsClean`, `ExecutedBlocksAreLoaded`, `StoredIsLoadedHolds` | `CleanLoad`, `ExecutedBlocksLoaded`, `StoredIsLoaded` | the same |
| `AnalysisInvariant` | `AnalysisInv` | finitely many blocks with ids of their own |
| `PredecessorsAreKept`, `InterruptsAreLinked`, `FlagsAreJustified` | `PredecessorsKept`, `InterruptsLinked`, `FlagsJustified` | the same |
| `WalkInvariant`, `WalkTypeCorrect` | `WalkInv`, `WalkTypeOK` | finite address set |
| `ListingIsReachable` | `ListsReachable` | |
| `LabelsAreDefined`, `FallThroughIsNext` | `LabelsDefined`, `NextIsNext` | |
| `ProfileTypeCorrect` | `ProfileTypeOK` | |
| `LabelsAreResolved`, `NumberedInOrder`, `NextIsFound` | `LabelsResolved`, `RealPcsInOrder`, `NextIsRight` | |
| `LoadGivesFirstSaved` | `LoadedIsFirstSaved` | |

Block store. `OneHome` is not inductive: a map entry under a wrong address could
be evicted for another block. `StoreInv` adds that the entry of a block is at its
own start (`MapInv`), so a block has one entry at most (`OneEntry`); that ids not
handed out are nowhere (`FreshInv`); and that whatever QEMU may run was not written
(`UseInv`), which with `OneHome` says it is still owned. The refinement maps live to
the map, retired to the graveyard, saved to the file; each step of the store is a
step of `BlockLife` or a stutter, shown with `StoreInv` as invariant.

`FlagIffRetired` is inductive once `StoreInv` holds: a block leaves the map only by
the two evictions, which flag it and hand out the id of the displacing block.

Records. `PrevIsSet` needs to know where a vCPU is (`PlaceInv`: inside a block of
some length, never while it idles) and that `curr_pc` is set from a block's first
instruction to its end (`CurrInv`), which `Advance` keeps because records hold
numbers (`CellInv`). For `RealPcsUnique`, every number given is `k * NumVcpu + v`
for a vCPU `v` and a `k` that `v` has counted past (`NumberInv`); two such numbers
are equal only for the same `v` and `k` (`NumbersDiffer`), and the stride is
`NumVcpu` once a vCPU may run (`SizeInv`), which is where `InitFirst` is used.
Nothing is assumed of which vCPUs share which blocks.

Plugin. Its invariant `PluginInv` joins those of the parts, `StoreInv` of the
instance and `RecordInv`, with four conditions: ids are given once, to blocks that
were translated, below the counter (`IdInv`); a vCPU is only inside such a block
(`InsideInv`); a block in the file was written and has not changed since
(`FileInv`); an interrupt's id is above that of its block (`LogInv`). That the parts'
lemmas can be used rests on `StorePart` and `ExecPart`: every step of the plugin is a
step of each part or a stutter of it. `FileInv` is kept because the block a vCPU is
inside is one that QEMU may run, which `UseInv` says was not written.

Edges. How many edges the buffer can hold depends on where the vCPU is: none after
`tb::exec`, one while the block runs, two between the signal and the drain
(`LenInv`), and the place of a vCPU tells whether a signal is there (`CtrlInv`).

Listing. For every closed set with the entry, all that was met is inside (`SoundInv`);
every successor of a printed block was met, in `visited` or on the stack
(`CompleteInv`); what is printed is what was visited and has a block, in the order
printed and labelled (`StageInv` and the invariants on `result`). At the end the
stack is empty, so `visited` is itself closed.

What the records say. A record is marked valid before it has its number
(`process.hpp:18`), so a second vCPU in the same instruction reads real PC 0; that
is refuted as `CurrPcRan` (section 4) and makes `EdgesHappened` false for shared
blocks. The theorems therefore assume `[]RaceFree`: no vCPU is past the test of an
instruction another one is still numbering. It is a condition on the schedule, not
on the guest, and weaker than private blocks, for which it is proved. Under it an
instruction is in `stored` from the moment it has its number (`NumberedOnce`),
`curr_pc` is the number of the instruction that ran last (`RanInv`), both ends of an
edge ran (`EdgeEnds`), and a pending interrupt is one whose target block has not set
its number yet (`PendingInv`). By `PluginKeepsRecords` all this holds of the plugin.

Edge recording. `NoEdgeLost` is inductive once the types and the place of each vCPU
are known: logging adds an edge to both sides, and a drain, a post and a save move
edges between the buffer, the set, the jobs and the file of one vCPU. For the loss at
exit, `LossInv` says that all vCPUs are then outside their blocks, where a buffer
holds one edge at most (`LenInv`), and that no job is left.

APIC. `SyncKept` relates three tables to the machine's registers as long as no APIC
page moved, page tables lead to it from the watched address and from no other, and no
id register was touched. With that an access reaches the APIC exactly where it is
watched (`Mapped`), which is all the proof needs of the page tables. `IndexIds` (the APIC id of vCPU n is n) is what
the plugin's initial table says of the machine (`X86.hpp`); with other ids the table
is wrong from the start.

Save files. `DiskInv` says what the files can hold: records as the writers make
them, whole but for the last one of a killed file, and no block twice. The rest says
what the program has of the records it has read (`Read` of each file): the whole
items in order with blanks behind them, which are there only if the last record read
was cut (`ItemsInv`); the edges of the whole sets (`EdgesInv`); each executed block
under its key (`BlocksInv`). No whole block overwrites another one, because real PCs
differ and those that never ran have key 0; a cut block has one of the keys that can
be left of its real PC, so the invariant has a `gone`, the one key that may be lost.
It stays the same one: `good` is false exactly where a file has ended (`StageInv`), so
no record is read after a cut one, and none read before was cut (`NoneTornBefore`).
`StageInv` also says why the program stopped: a kill, and a block without items.
`StoredIsLoaded` is stated with `FlattenSeq`, a fold; that it joins its parts one by one is shown by induction over
sets of numbers (`JoinsExist`, `FlattenAt`), and from this its type, its elements and
how it grows with one more part (`FlattenType`, `FlattenRange`, `FlattenAppend`).

Analysis. The invariant says what each of the variables is in terms of the blocks
done: the map is the newest run of each address (`MapInv`), the "next" edges are the
log and the runs (`NextInv`), the interrupts taken are those up to the last id
(`TakenInv`), and each of them was linked by the map of its turn (`SignalInv`), which
is that of the first block at or above its id because blocks come in the order of
their ids (`SortInv`). That a sort gives such an order from neighbours in order needs
induction, stated of sets (`NumberInduction`, from the library's theorem on least
elements), and so does the greatest index (`GreatestNumber`).

Pipeline. Until the load it is the plugin that runs (`PipelineKeepsPlugin`), after it
only the analysis, so the proof is in two halves that meet at the load. First half:
what is in `found` later depends on what the records of a saved block say, so
`AllRecords` adds to the invariants of the records how each instruction was reached
(`PathInv`): the second and later ones of a block from the one before, and a
remembered predecessor is one that ran right before. `SavedInv` follows the
interrupts: an entry of the save file has real PC 0 or that of a block at its target
(`GoodInt`), and stays so because no number changes (`ResolvedStays`). `ExitInv` says
that no vCPU is inside a block after exit, so a record is not loaded half written.
The meeting point: whichever blocks the load keeps of those with the same key, the
result is save data that `Analysis` assumes (`LoadedIsInput`: ids differ, instructions
are records of the right type). Second half: `ProgramInv` says that the data are
those of such a load and that the invariant of `Analysis` holds, whose lemmas are
used through an instance with the save files of the plugin as inputs. At the end
`NextInv` says that the "next" edges are the log and the records, and the records
are those of the first half; a signaled edge in the log goes from an access to the ICR
that ran to the start of a translated block (`SignalInv`), which numbers that no step
takes back keep true. TLC's instance has one vCPU and three blocks; the
theorems have any number of either.

Profile. Instructions do not overlap and end before `next` (`LayoutInv`), which with
`RealPcsInOrder` is inductive. `UseInv`, `LabelInv` and `PlacedInv` follow a reference
from `emit_goto` to the patch: it waits under its label exactly as long as that was
not placed, and a label was placed at an address already passed or at `next`, before
the instruction that has that address. `FileInv` says that an address that was saved
has a first version.

Only model-checked:

* the liveness properties (`JobsGetSaved`, `ExitFinishes`, `LoadFinishes`,
  `WalkFinishes`): fairness and ENABLED are out of the prover's reach;
* `Details`: its queries are folds and sorts over the loaded map (`SetToSortSeq`,
  `FoldSet`, `FlattenSeq`), recursive all through.

## 6. Not modelled

* MMIO logging and delayed callbacks: compiled out (`QEMU_LOG_MMIO`, commented out
  at `QEMU/main.cpp:48`, and `QEMU_PLUGIN_DELAY_CBS` are not defined).
* Plugin start-up: straight-line code; its result is the models' initial state.
* Disassembly (capstone), instruction groups, register tables: no state.
* The containers in `shared/boostpp`: sequences and sets here.
* `merge_block`, graph export: not called; the clipboard: output.
* Of the profile library: printing, string formats, the length and same-bytes
  queries of one instruction, and what the queries say of targets (externals, pages;
  `find::next` is modelled in `Profile`, and in `Details` for instructions that go on to
  the next one).
* In `Pipeline`: the detail of `Loader` (the order of files and records, kills), of
  `Edges` (sets, jobs and the pool; a signal that races the reset) and of `Walk`.

## 7. Plan

An abstract specification of the example program (files to listing) that `Loader`,
`Analysis` and `Walk` implement together.
