------------------------------- MODULE Loader -------------------------------
(***************************************************************************)
(* The save files: which records the plugin writes to them and in which     *)
(* order (the write functions of shared/luramas/blocks.hpp, called by        *)
(* tb_flush, at_exit and the pool in QEMU/main.cpp), and how the example     *)
(* program reads them back (the load loop of Example/main.cpp and the read   *)
(* functions of blocks.hpp). The emulator may be killed, which leaves every  *)
(* file with some prefix of what was written, cut inside a record perhaps.   *)
(*                                                                         *)
(* A record is its type, its number of items and the items; an edge set is   *)
(* one compressed item. What is stored of a record is -1 if not even its     *)
(* number of items is complete, else how many whole items are.              *)
(***************************************************************************)
EXTENDS Integers, FiniteSets, Sequences, SequencesExt

CONSTANTS
  VCPU,       \* vCPUs
  Block,      \* translated blocks
  Length,     \* number of instructions of each block
  real_pc,    \* real PC of each instruction, 0 if it was never executed
  PcBytes,    \* bytes of a stored real PC (8 in the code)
  Executed,   \* executed instructions
  Interrupt, State, Edge, \* items of the other records
  MaxFlush,   \* bound on tb_flush calls that write
  MaxSaved,   \* bound on the edge sets a vCPU's file gets before exit
  MaxRetired, \* bound on the blocks of one tb_flush
  MaxItems,   \* bound on the interrupts, and states, of a vCPU in one write
  save,       \* the main file; the others are one for each vCPU
  None,
  Blank       \* an item that was not, or not wholly, read

Inst == UNION {{b} \X (1 .. Length[b]) : b \in Block}

ASSUME LoaderAssumption ==
  /\ Length \in [Block -> Nat \ {0}]
  /\ real_pc \in [Inst -> Nat] /\ Executed \subseteq Inst
  /\ \A i \in Inst \ Executed : real_pc[i] = 0
  /\ \A i, j \in Executed : real_pc[i] = real_pc[j] => i = j
  /\ PcBytes \in Nat /\ \A i \in Inst : real_pc[i] < 256 ^ PcBytes
  /\ MaxFlush \in Nat /\ MaxSaved \in Nat /\ MaxRetired \in Nat
  /\ MaxItems \in Nat
  /\ save \notin VCPU /\ None \notin VCPU \cup {save}
  /\ IsFiniteSet(VCPU) /\ IsFiniteSet(Block)
  /\ Blank \notin Inst \cup Interrupt \cup State
  /\ \A es \in SUBSET Edge : es # Blank

File == {save} \cup VCPU

VARIABLES
  disk,          \* records in each file
  unsaved,       \* blocks not written yet
  flushes,       \* tb_flush calls so far
  killed,        \* the emulator was killed
  stage,         \* "run" (emulator), "load", "done" or "crashed" (program)
  left,          \* files the program has not opened yet
  file,          \* the file it reads, or None
  pos,           \* the record it is at
  good,          \* ifstream::good()
  block_map, edge_map, interrupts, block_states  \* save_data

loaderVars == <<disk, unsaved, flushes, killed, stage, left, file, pos, good,
                block_map, edge_map, interrupts, block_states>>
loaded == <<block_map, edge_map, interrupts, block_states>>
reader == <<left, file, pos, good>>

(* A real PC that is cut is read as its low bytes; the others stay zero. *)
Torn(pc) == {pc % 256 ^ k : k \in 0 .. PcBytes}
Key == {0} \cup UNION {{real_pc[i]} \cup Torn(real_pc[i]) : i \in Inst}

LoaderInit ==
  /\ disk = [f \in File |-> <<>>]
  /\ unsaved = Block /\ flushes = 0 /\ killed = FALSE /\ stage = "run"
  /\ left = File /\ file = None /\ pos = 1 /\ good = FALSE
  /\ block_map = [k \in Key |-> None] /\ edge_map = {}
  /\ interrupts = <<>> /\ block_states = <<>>

-----------------------------------------------------------------------------
(* The writers: an empty vector or set is not written at all. *)
Record(type, items) == [type |-> type, items |-> items, stored |-> Len(items)]
Write(type, items) == IF items = <<>> THEN <<>> ELSE <<Record(type, items)>>
WriteBlock(b) == Write("block", [n \in 1 .. Length[b] |-> <<b, n>>])
WriteBlocks(s) == FlattenSeq([n \in DOMAIN s |-> WriteBlock(s[n])])
WriteEdges(es) == IF es = {} THEN <<>> ELSE Write("edge_map", <<es>>)

(* One vector per vCPU, each written as a record of its own. *)
WriteEach(type, vectors) ==
  FlattenSeq([n \in 1 .. Len(vectors) |-> Write(type, vectors[n])])

(* What tb_flush and at_exit write to the main file after the blocks. *)
Vectors(S) == UNION {[1 .. n -> S] : n \in 0 .. MaxItems}
PerVcpu(S) == [1 .. Cardinality(VCPU) -> Vectors(S)]
MainRecords(bs, ints, states) ==
  WriteBlocks(bs) \o WriteEach("interrupts", ints) \o WriteEach("vcpu_states", states)

(* tb_flush writes the graveyard, the interrupts and the captured states. *)
TbFlush(bs, ints, states) ==
  /\ stage = "run" /\ flushes < MaxFlush
  /\ disk' = [disk EXCEPT ![save] = @ \o MainRecords(bs, ints, states)]
  /\ unsaved' = unsaved \ Range(bs)
  /\ flushes' = flushes + 1
  /\ UNCHANGED <<killed, stage, reader, loaded>>

(* The pool writes a full edge set of v. *)
SaveEdges(v, es) ==
  /\ stage = "run" /\ Len(disk[v]) < MaxSaved
  /\ disk' = [disk EXCEPT ![v] = @ \o WriteEdges(es)]
  /\ UNCHANGED <<unsaved, flushes, killed, stage, reader, loaded>>

(* at_exit writes all remaining blocks, in the order of a hash map, and     *)
(* what is left of everything else; the files are closed.                  *)
AtExit(bs, ints, states, es) ==
  /\ stage = "run"
  /\ disk' = [f \in File |-> disk[f] \o IF f = save THEN MainRecords(bs, ints, states)
                                        ELSE WriteEdges(es[f])]
  /\ unsaved' = {}
  /\ stage' = "load"
  /\ UNCHANGED <<flushes, killed, reader, loaded>>

(* The emulator is killed: each file keeps a prefix of its bytes. *)
CutFiles(s) ==
  {SubSeq(s, 1, n) : n \in 0 .. Len(s)}
  \cup UNION {{Append(SubSeq(s, 1, n - 1), [s[n] EXCEPT !.stored = k]) :
                 k \in -1 .. Len(s[n].items) - 1} : n \in 1 .. Len(s)}

Kill ==
  /\ stage = "run"
  /\ disk' \in {d \in [File -> UNION {CutFiles(disk[f]) : f \in File}] :
                  \A f \in File : d[f] \in CutFiles(disk[f])}
  /\ killed' = TRUE
  /\ stage' = "load"
  /\ UNCHANGED <<unsaved, flushes, reader, loaded>>

-----------------------------------------------------------------------------
(* The program opens the files of the directory in any order. *)
OpenFile(f) ==
  /\ stage = "load" /\ file = None /\ f \in left
  /\ file' = f /\ left' = left \ {f} /\ pos' = 1 /\ good' = TRUE
  /\ UNCHANGED <<disk, unsaved, flushes, killed, stage, loaded>>

Reading == stage = "load" /\ file # None /\ good
At(type) == Reading /\ pos <= Len(disk[file]) /\ disk[file][pos].type = type
Whole(r) == r.stored = Len(r.items)

(* A mutant: a vector sized one too large. *)
ItemsAndOne(r) == {Append(r.items, Blank)}

(* What a reader gets for a vector: it is sized first, so items that are     *)
(* missing are blank; a count (below 256) cut short is zero or complete.    *)
Items(r) ==
  LET read(k) == [n \in 1 .. Len(r.items) |-> IF n <= k THEN r.items[n] ELSE Blank]
  IN IF r.stored < 0 THEN {<<>>, read(0)} ELSE {read(r.stored)}

(* Running into the end of the file ends the loop's condition. *)
Step ==
  /\ pos' = pos + 1
  /\ good' = Whole(disk[file][pos])
  /\ UNCHANGED <<disk, unsaved, flushes, killed, left, file>>

(* Mutants, one plausible bug each: blocks keyed by their last instruction,  *)
(* a vector sized for the new items alone, an end of file that is not        *)
(* noticed.                                                                *)
KeysOfLast(r, v) == IF v[Len(v)] = Blank THEN {0} ELSE {real_pc[v[Len(v)]]}
AppendedOver(v, more) == more
GoodAtEndStill == TRUE

(* The key of a block that was read: its first instruction's real PC. Where  *)
(* not even that instruction is whole, it is 0 or what is left of the PC.    *)
Cut(r) == r.type = "block" /\ r.stored = 0
Keys(r, v) ==
  IF v[1] # Blank THEN {real_pc[v[1]]}
  ELSE {0} \cup IF Cut(r) THEN Torn(real_pc[r.items[1]]) ELSE {}

(* front() of an empty vector stops the program. *)
ReadBlock ==
  LET r == disk[file][pos]
  IN /\ At("block")
     /\ \E v \in Items(r) :
          IF v = <<>>
          THEN stage' = "crashed" /\ UNCHANGED block_map
          ELSE /\ \E k \in Keys(r, v) : block_map' = [block_map EXCEPT ![k] = v]
               /\ UNCHANGED stage
     /\ Step
     /\ UNCHANGED <<edge_map, interrupts, block_states>>

(* A compressed set that is not whole does not decompress to its size: the   *)
(* reader seeks back, which a stream that is not good ignores.              *)
Merged(es, more) == es \cup more
ReadEdges ==
  LET r == disk[file][pos]
  IN /\ At("edge_map")
     /\ edge_map' = IF Whole(r) THEN Merged(edge_map, r.items[1]) ELSE edge_map
     /\ Step
     /\ UNCHANGED <<stage, block_map, interrupts, block_states>>

Appended(v, more) == v \o more
ReadInterrupts ==
  /\ At("interrupts")
  /\ \E v \in Items(disk[file][pos]) : interrupts' = Appended(interrupts, v)
  /\ Step
  /\ UNCHANGED <<stage, block_map, edge_map, block_states>>

ReadStates ==
  /\ At("vcpu_states")
  /\ \E v \in Items(disk[file][pos]) : block_states' = Appended(block_states, v)
  /\ Step
  /\ UNCHANGED <<stage, block_map, edge_map, interrupts>>

(* get_save_type runs into the end of the file and says none; ignore() makes *)
(* no difference.                                                          *)
GoodAtEnd == FALSE
ReadNone ==
  /\ Reading /\ pos > Len(disk[file])
  /\ good' = GoodAtEnd
  /\ UNCHANGED <<disk, unsaved, flushes, killed, stage, left, file, pos, loaded>>

CloseFile ==
  /\ stage = "load" /\ file # None /\ ~good
  /\ file' = None
  /\ UNCHANGED <<disk, unsaved, flushes, killed, stage, left, pos, good, loaded>>

(* All files were read: the analysis begins. *)
LoadDone ==
  /\ stage = "load" /\ file = None /\ left = {}
  /\ stage' = "done"
  /\ UNCHANGED <<disk, unsaved, flushes, killed, reader, loaded>>

Load ==
  \/ \E f \in File : OpenFile(f)
  \/ ReadBlock \/ ReadEdges \/ ReadInterrupts \/ ReadStates \/ ReadNone
  \/ CloseFile \/ LoadDone

FlushSome ==
  \E S \in {T \in SUBSET unsaved : Cardinality(T) <= MaxRetired} :
    \E bs \in SetToSeqs(S), ints \in PerVcpu(Interrupt), states \in PerVcpu(State) :
      TbFlush(bs, ints, states)

ExitWithAll ==
  \E bs \in SetToSeqs(unsaved), ints \in PerVcpu(Interrupt), states \in PerVcpu(State),
     es \in [VCPU -> SUBSET Edge] : AtExit(bs, ints, states, es)

LoaderNext ==
  \/ FlushSome \/ ExitWithAll
  \/ \E v \in VCPU, es \in SUBSET Edge \ {{}} : SaveEdges(v, es)
  \/ Kill
  \/ Load

(* The program is one thread that keeps running. *)
LoaderSpec == LoaderInit /\ [][LoaderNext]_loaderVars /\ WF_loaderVars(Load)

-----------------------------------------------------------------------------
(* The whole items of a kind in the files, in order. *)
StoredItems(f, type) ==
  FlattenSeq([n \in DOMAIN disk[f] |->
                IF disk[f][n].type = type /\ disk[f][n].stored > 0
                THEN SubSeq(disk[f][n].items, 1, disk[f][n].stored) ELSE <<>>])
Blanks(n) == [k \in 1 .. n |-> Blank]

(* However the files are cut and in whichever order they are opened, what    *)
(* they wholly store is loaded: every interrupt and captured state in order, *)
(* every edge, nothing twice. Of a record that was cut there may be blank     *)
(* items behind it, never in between.                                       *)
StoredIsLoaded ==
  stage = "done" =>
    /\ \E n \in 0 .. Len(interrupts) :
         interrupts = StoredItems(save, "interrupts") \o Blanks(n)
    /\ \E n \in 0 .. Len(block_states) :
         block_states = StoredItems(save, "vcpu_states") \o Blanks(n)
    /\ edge_map = UNION UNION {Range(StoredItems(f, "edge_map")) : f \in VCPU}

WholeBlocks == {disk[save][n].items : n \in {m \in DOMAIN disk[save] :
                  disk[save][m].type = "block" /\ Whole(disk[save][m])}}

(* What may be left of the real PC of the block that the cut went through,   *)
(* among the first n records.                                              *)
TornPcs(n) == UNION {Torn(real_pc[disk[save][m].items[1]]) :
                       m \in {l \in 1 .. n : Cut(disk[save][l])}}

(* Retranslated blocks share their virtual address, and blocks that never    *)
(* ran their real PC: every block that was stored and did run is still found *)
(* under its real PC, all but the entry block (see EntryIsLoaded), and but    *)
(* one at most that the cut record replaces, under what is left of its own.  *)
ExecutedBlocksLoaded ==
  stage = "done" =>
    \E gone \in {0} \cup TornPcs(Len(disk[save])) :
      \A b \in WholeBlocks : b[1] \in Executed /\ real_pc[b[1]] \notin {0, gone} =>
                               block_map[real_pc[b[1]]] = b

(* The number of instructions of a block is incomplete. *)
CutShort == \E n \in DOMAIN disk[save] : disk[save][n].type = "block" /\ disk[save][n].stored < 0

(* The program stops only at a block that a kill cut before its first        *)
(* instruction; after a clean exit it invents no item either.               *)
CleanLoad ==
  /\ stage = "crashed" => killed /\ CutShort
  /\ ~killed => /\ \A k \in Key : block_map[k] # None => Blank \notin Range(block_map[k])
                /\ Blank \notin Range(interrupts) \cup Range(block_states)

(* Loading ends, whatever the files hold. *)
LoadFinishes == (stage = "load") ~> (stage \in {"done", "crashed"})

(* blocks_flags.hpp:13 calls an entry "First instruction executed on 0       *)
(* vcpu?": the instruction with real PC 0. Its block, when stored, is the    *)
(* one found under 0. Blocks that never ran have real PC 0 too, and the last *)
(* one read takes the entry.                                                *)
EntryIsLoaded ==
  stage = "done" => \A b \in WholeBlocks : b[1] \in Executed /\ real_pc[b[1]] = 0 =>
                                             block_map[0] = b
=============================================================================
