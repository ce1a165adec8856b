---------------------------- MODULE Translation ----------------------------
(***************************************************************************)
(* The block store of the QEMU plugin: what cbs::tb::trans,                *)
(* cbs::vcpus::tb_flush and cbs::at_exit do to the translated blocks       *)
(* (QEMU/main.cpp, QEMU/src/headers/defs.hpp).                             *)
(*                                                                         *)
(* Each of the three handlers does all its shared work under tbmutex (or,  *)
(* for at_exit, after the vCPUs have stopped), so each is one action.      *)
(* QEMU itself is external: it calls trans from the vCPU that needs a      *)
(* translation, may drop a translation it has just made (another vCPU was  *)
(* faster, or the code buffer overflowed), invalidates translations whose  *)
(* code is written, and calls tb_flush when no vCPU is inside a block.     *)
(***************************************************************************)
EXTENDS Integers, FiniteSets

CONSTANTS
  VCPU,       \* vCPUs; each runs in its own host thread
  Tb,         \* what QEMU can ask to translate: first and last byte address
  MaxBlocks,  \* bound on global_block_id
  NoBlock,    \* "no such block"
  NoTb        \* range of an id that was not handed out yet

BlockId == 0 .. MaxBlocks - 1
Addr == UNION {t.loc .. t.last : t \in Tb}

ASSUME TbAssumption ==
  \A t \in Tb : t = [loc |-> t.loc, last |-> t.last] /\ t.loc \in Nat
                /\ t.last \in Nat /\ t.loc <= t.last
ASSUME MaxBlocksAssumption == MaxBlocks \in Nat
ASSUME NoBlockAssumption == NoBlock \notin Nat
ASSUME NoTbAssumption == NoTb \notin Tb

VARIABLES
  global_block_id,  \* next id
  blocks,           \* hash map: start address -> block
  block_graveyard,  \* vector of retired blocks: how often each is in it
  logged_ranges,    \* interval set, as the set of addresses it covers
  tb,               \* range of each block
  fretranslated,    \* flag of each block
  written,          \* how often each block was written to the save file
  cached,           \* QEMU: blocks whose translation can be executed
  running,          \* QEMU: block each vCPU is inside, or NoBlock
  phase             \* "run" until at_exit has returned

vars == <<global_block_id, blocks, block_graveyard, logged_ranges, tb,
          fretranslated, written, cached, running, phase>>

Init ==
  /\ global_block_id = 0
  /\ blocks = [a \in Addr |-> NoBlock]
  /\ block_graveyard = [i \in BlockId |-> 0]
  /\ logged_ranges = {}
  /\ tb = [i \in BlockId |-> NoTb]
  /\ fretranslated = [i \in BlockId |-> FALSE]
  /\ written = [i \in BlockId |-> 0]
  /\ cached = {}
  /\ running = [v \in VCPU |-> NoBlock]
  /\ phase = "run"

(* The interval of the interval_set that holds a. The set joins intervals *)
(* that touch, so this is the whole unbroken run of addresses around a.    *)
Segment(S, a) == {b \in S : \A c \in (a .. b) \cup (b .. a) : c \in S}

(* Blocks the map or the graveyard still points to (shared_ptr owners). *)
Mapped == {blocks[a] : a \in Addr} \ {NoBlock}
Alive == {i \in BlockId : i \in Mapped \/ block_graveyard[i] > 0}

(* Blocks whose callbacks QEMU may still call. *)
InUse == cached \cup ({running[v] : v \in VCPU} \ {NoBlock})

(* Mutants of the next definitions, one plausible bug each: the range one   *)
(* byte too long, no eviction at all, everything inside the range evicted, a *)
(* flush that clears without writing.                                      *)
CoveredTooFar(t) == t.loc .. t.last + 1
EvictedNever(t) == {}
EvictedInside(t) == {a \in t.loc .. t.last : blocks[a] # NoBlock}
FlushedForgets(i) == written[i]

(* The addresses a block covers, and the key it has in the map. *)
Covered(t) == t.loc .. t.last
Home(t) == t.loc

(* How often block i is in the save file once the graveyard is written. *)
Flushed(i) == written[i] + block_graveyard[i]

(* The addresses whose entry trans evicts: the block that starts where the *)
(* new one starts and the block that starts at the new one's last byte.    *)
Evicted(t) == {a \in {t.loc, t.last} : blocks[a] # NoBlock}

(* One whole call of trans. Each evicted block is flagged, its interval    *)
(* erased, and it moves to the graveyard; the new block takes the entry.   *)
(* keep: QEMU links the translation, so the block can be executed.         *)
Trans(v, t, keep) ==
  LET out == Evicted(t)
      gone == {blocks[a] : a \in out}
      cut(S, a) == IF a \in out THEN S \ Segment(S, a) ELSE S
      id == global_block_id
  IN /\ phase = "run"
     /\ running[v] = NoBlock
     /\ id < MaxBlocks
     /\ global_block_id' = id + 1
     /\ tb' = [tb EXCEPT ![id] = t]
     /\ fretranslated' = [i \in BlockId |-> fretranslated[i] \/ i \in gone]
     /\ block_graveyard' = [i \in BlockId |->
                              block_graveyard[i] + (IF i \in gone THEN 1 ELSE 0)]
     /\ logged_ranges' = cut(cut(logged_ranges, t.loc), t.last) \cup Covered(t)
     /\ blocks' = [a \in Addr |-> IF a = Home(t) THEN id
                                  ELSE IF a \in out THEN NoBlock ELSE blocks[a]]
     /\ cached' = IF keep THEN cached \cup {id} ELSE cached
     /\ UNCHANGED <<written, running, phase>>

(* QEMU calls tb_flush in an exclusive section: no vCPU is inside a block, *)
(* and every translation is dropped. The handler writes the graveyard out  *)
(* and clears it; the map keeps its blocks.                                *)
TbFlush ==
  /\ phase = "run"
  /\ \A v \in VCPU : running[v] = NoBlock
  /\ written' = [i \in BlockId |-> Flushed(i)]
  /\ block_graveyard' = [i \in BlockId |-> 0]
  /\ cached' = {}
  /\ UNCHANGED <<global_block_id, blocks, logged_ranges, tb, fretranslated,
                 running, phase>>

(* at_exit, after the vCPUs have stopped: writes the map, then the        *)
(* graveyard, and destroys both.                                           *)
AtExit ==
  /\ phase = "run"
  /\ \A v \in VCPU : running[v] = NoBlock
  /\ written' = [i \in BlockId |-> Flushed(i)
                                   + Cardinality({a \in Addr : blocks[a] = i})]
  /\ blocks' = [a \in Addr |-> NoBlock]
  /\ block_graveyard' = [i \in BlockId |-> 0]
  /\ logged_ranges' = {}
  /\ cached' = {}
  /\ phase' = "exited"
  /\ UNCHANGED <<global_block_id, tb, fretranslated, running>>

(* QEMU: a vCPU enters and leaves a translated block. *)
Exec(v, i) ==
  /\ phase = "run"
  /\ running[v] = NoBlock
  /\ i \in cached
  /\ running' = [running EXCEPT ![v] = i]
  /\ UNCHANGED <<global_block_id, blocks, block_graveyard, logged_ranges, tb,
                 fretranslated, written, cached, phase>>

LeaveTb(v) ==
  /\ running[v] # NoBlock
  /\ running' = [running EXCEPT ![v] = NoBlock]
  /\ UNCHANGED <<global_block_id, blocks, block_graveyard, logged_ranges, tb,
                 fretranslated, written, cached, phase>>

(* QEMU: guest code at address a is written; every translation that covers *)
(* it is dropped (a vCPU inside one runs it to its end). The plugin is not  *)
(* told.                                                                   *)
Invalidate(a) ==
  LET hit == {i \in cached : a \in tb[i].loc .. tb[i].last}
  IN /\ phase = "run"
     /\ hit # {}
     /\ cached' = cached \ hit
     /\ UNCHANGED <<global_block_id, blocks, block_graveyard, logged_ranges, tb,
                    fretranslated, written, running, phase>>

Next ==
  \/ \E v \in VCPU, t \in Tb, keep \in BOOLEAN : Trans(v, t, keep)
  \/ TbFlush
  \/ AtExit
  \/ \E v \in VCPU : LeaveTb(v) \/ \E i \in cached : Exec(v, i)
  \/ \E a \in Addr : Invalidate(a)

Spec == Init /\ [][Next]_vars

-----------------------------------------------------------------------------
(* Type invariant. *)
TypeOK ==
  /\ global_block_id \in 0 .. MaxBlocks
  /\ blocks \in [Addr -> BlockId \cup {NoBlock}]
  /\ block_graveyard \in [BlockId -> Nat]
  /\ logged_ranges \subseteq Addr
  /\ tb \in [BlockId -> Tb \cup {NoTb}]
  /\ fretranslated \in [BlockId -> BOOLEAN]
  /\ written \in [BlockId -> Nat]
  /\ cached \subseteq BlockId
  /\ running \in [VCPU -> BlockId \cup {NoBlock}]
  /\ phase \in {"run", "exited"}

Issued == 0 .. global_block_id - 1

(* Every block handed an id is in exactly one place, once: the map, the    *)
(* graveyard or the save file (tb::trans, tb_flush and at_exit only ever   *)
(* move it). No block is lost and none is saved twice.                     *)
OneHome ==
  \A i \in Issued :
    block_graveyard[i] + written[i] = IF i \in Mapped THEN 0 ELSE 1

(* The exec callbacks hold raw pointers into the block (b.get() and        *)
(* &b->insts[i]). The block of every translation QEMU can execute, or a    *)
(* vCPU is inside, still has an owner, whatever trans and tb_flush did.    *)
NoUseAfterFree == InUse \subseteq Alive

(* What the save file says of a block with fretranslated: until exit, the    *)
(* blocks that left the map are exactly the flagged ones, and each of them    *)
(* was displaced by a later block that starts at its address or ends there    *)
(* (tb::trans).                                                            *)
FlagIffRetired ==
  \A i \in Issued :
    /\ phase = "run" => (fretranslated[i] <=> i \notin Mapped)
    /\ fretranslated[i] => \E j \in Issued : j > i /\ tb[i].loc \in {tb[j].loc, tb[j].last}

(* The store keeps the promise of BlockLife: a block is live while the map  *)
(* holds it, retired in the graveyard, saved once written, and usable while *)
(* QEMU caches its translation or a vCPU is inside it.                      *)
Life == INSTANCE BlockLife WITH
          Block <- BlockId,
          live <- Mapped,
          retired <- {i \in BlockId : block_graveyard[i] > 0},
          saved <- {i \in BlockId : written[i] > 0},
          usable <- InUse
ImplementsBlockLife == Life!Spec

(* defs.hpp:71 calls logged_ranges "Ranged of each block to track SMCs": it    *)
(* covers every block in the map. Erasing the interval a displaced block is    *)
(* in erases what it was joined with.                                       *)
RangesCoverMapped ==
  \A i \in Mapped : tb[i].loc .. tb[i].last \subseteq logged_ranges
=============================================================================
