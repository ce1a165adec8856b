------------------------------- MODULE Plugin -------------------------------
(***************************************************************************)
(* The plugin as a whole: the block store of Translation and the recording   *)
(* of Exec on the same vCPUs. A vCPU enters only a block whose translation   *)
(* QEMU has cached, the callbacks change the records of that block wherever  *)
(* the store has put it meanwhile, tb_flush and at_exit write them to the    *)
(* save file, and discon, idle and resume note the global block id without   *)
(* tbmutex (QEMU/main.cpp).                                                  *)
(*                                                                         *)
(* A block of Exec is one translation; an instruction is one byte long. The  *)
(* store's cells are this module's, so each action joins an action of Exec   *)
(* and one of the instance Store, or leaves one of the two alone.            *)
(***************************************************************************)
EXTENDS Exec, SequencesExt

VARIABLES
  global_block_id, blocks, block_graveyard, logged_ranges, fretranslated,
  written, cached, phase, \* as in Translation
  id,       \* id of each translated block, or None
  curr_ids, \* what each vCPU's records of ints hold besides Exec's: the source
            \* address and the global block id; history: the interrupted instruction
  saved,    \* the instructions of each block in the save file, or None
  saved_ints \* interrupts in the save file

storeVars == <<global_block_id, blocks, block_graveyard, logged_ranges,
               fretranslated, written, cached, phase, id>>
fileVars == <<saved, saved_ints>>
pluginVars == <<execVars, storeVars, curr_ids, fileVars>>

(* What QEMU translates for block b, and where the instructions of b are. *)
Span(b) == [loc |-> start[b], last |-> start[b] + Length[b] - 1]
PcOf(i) == start[i[1]] + i[2] - 1
Translated(n) == {b \in Block : id[b] = n}

ASSUME PluginAssumption ==
  /\ start \in [Block -> Nat] /\ IsFiniteSet(Block)
  /\ None \notin {Span(b) : b \in Block}

Spans == {Span(b) : b \in Block}
SpanOf == [n \in 0 .. Cardinality(Block) - 1 |->
             IF Translated(n) = {} THEN None ELSE Span(CHOOSE b \in Translated(n) : TRUE)]
InBlock == [v \in VCPU |-> IF at[v].step = "out" THEN None ELSE id[at[v].block]]

Store == INSTANCE Translation WITH
           Tb <- Spans,
           MaxBlocks <- Cardinality(Block),
           NoBlock <- None,
           NoTb <- None,
           tb <- SpanOf,
           running <- InBlock

PluginInit ==
  /\ ExecInit
  /\ id = [b \in Block |-> None]
  /\ Store!Init
  /\ curr_ids = [v \in VCPU |-> <<>>]
  /\ saved = [b \in Block |-> None]
  /\ saved_ints = <<>>

(* Mutants: the log with its addresses swapped; a block is written as soon as *)
(* it is displaced.                                                        *)
LoggedSwapped(v) == [n \in DOMAIN ints[v] |->
                [src |-> ints[v][n].dst, id |-> curr_ids[v][n].id,
                 from |-> curr_ids[v][n].from,
                 dst |-> curr_ids[v][n].src, dst_real |-> ints[v][n].dst_real]]
WrittenEarly(b) == written'[id'[b]] > 0 \/ fretranslated'[id'[b]]

(* What a written block holds, and the interrupts of all vCPUs in the order   *)
(* they are written.                                                       *)
Snapshot(b) == [n \in 1 .. Length[b] |-> insts[<<b, n>>]]
Logged(v) == [n \in DOMAIN ints[v] |->
                [src |-> curr_ids[v][n].src, id |-> curr_ids[v][n].id,
                 from |-> curr_ids[v][n].from,
                 dst |-> ints[v][n].dst, dst_real |-> ints[v][n].dst_real]]
AllLogged == FlattenSeq([n \in 1 .. NumVcpu |-> Logged(n - 1)])

(* A handler of the store leaves in the file what it writes. *)
WrittenBy(b) == written'[id'[b]] > 0
SaveBlocks ==
  saved' = [b \in Block |-> IF saved[b] = None /\ id'[b] # None /\ WrittenBy(b)
                            THEN Snapshot(b) ELSE saved[b]]

(* QEMU translates the block the vCPU needs next. *)
Translate(v, b, keep) ==
  /\ ready = VCPU
  /\ ~idling[v] /\ goto[v] \in {None, start[b]}
  /\ b \in RunsBlock[v] /\ id[b] = None
  /\ UNCHANGED execVars
  /\ id' = [id EXCEPT ![b] = global_block_id]
  /\ Store!Trans(v, Span(b), keep)
  /\ SaveBlocks
  /\ UNCHANGED <<curr_ids, saved_ints>>

(* A vCPU enters a block, if its translation can be executed. *)
Start(v, b) ==
  /\ Enter(v, b)
  /\ id[b] # None /\ UNCHANGED id
  /\ Store!Exec(v, id[b])
  /\ UNCHANGED <<curr_ids, fileVars>>

(* A mutant: the id of the last block handed out. *)
CurrIdLast == global_block_id - 1

(* The id discon, idle and resume read: the next one to be handed out. *)
CurrId == global_block_id

(* The callbacks of one vCPU, and the end of a block. *)
Callbacks(v) ==
  /\ phase = "run"
  /\ \/ VcpuInit(v)
     \/ FindNew(v) \/ MarkValid(v) \/ Number(v) \/ FirstAgain(v) \/ InstAgain(v)
     \/ FirstSet(v) \/ InstSet(v) \/ NextInst(v)
     \/ Idle(v) \/ Resume(v)
  /\ UNCHANGED <<storeVars, curr_ids, fileVars>>

(* An exception is at the instruction that runs; an interrupt comes before   *)
(* the block that would run next.                                          *)
Interrupted(v, src) ==
  IF at[v].step = "body" THEN src = PcOf(At(v)) ELSE goto[v] \in {None, src}
Interrupt(v, src, to) ==
  /\ phase = "run"
  /\ Interrupted(v, src)
  /\ Discon(v, to)
  /\ curr_ids' = [curr_ids EXCEPT ![v] =
       Append(@, [src |-> src, id |-> CurrId,
                  from |-> IF at[v].step = "body" THEN At(v) ELSE None])]
  /\ UNCHANGED <<storeVars, fileVars>>

(* tb_flush: blocks of the graveyard, interrupts and captured states. *)
Flush ==
  /\ TbFlush
  /\ UNCHANGED id
  /\ Store!TbFlush
  /\ SaveBlocks
  /\ saved_ints' = saved_ints \o AllLogged
  /\ curr_ids' = [v \in VCPU |-> <<>>]

(* at_exit: all blocks that are left, then the interrupts. *)
Exit ==
  /\ UNCHANGED <<execVars, curr_ids, id>>
  /\ Store!AtExit
  /\ SaveBlocks
  /\ saved_ints' = saved_ints \o AllLogged

(* QEMU drops the translations of code that is written. *)
Invalidate(a) ==
  /\ UNCHANGED <<execVars, curr_ids, fileVars, id>>
  /\ Store!Invalidate(a)

PluginNext ==
  \/ \E v \in VCPU, b \in Block : \/ \E keep \in BOOLEAN : Translate(v, b, keep)
                                   \/ Start(v, b)
  \/ \E v \in VCPU : Callbacks(v)
  \/ \E v \in VCPU, i \in Inst : \E b \in RunsBlock[v] : Interrupt(v, PcOf(i), start[b])
  \/ Flush \/ Exit
  \/ \E a \in Store!Addr : Invalidate(a)

PluginSpec == PluginInit /\ [][PluginNext]_pluginVars

-----------------------------------------------------------------------------
(* The callbacks are given raw pointers to the record of their instruction    *)
(* (QEMU/main.cpp:446): while a vCPU is inside a block, and while its          *)
(* translation can still be entered, the record is alive and not yet saved,    *)
(* whatever other vCPUs translate, flush or invalidate between two accesses.  *)
RecordsAlive ==
  /\ Store!NoUseAfterFree
  /\ \A v \in VCPU : at[v].step # "out" =>
       id[at[v].block] \in Store!Alive /\ written[id[at[v].block]] = 0

(* Every step of the plugin is a step of Translation or leaves the store      *)
(* alone.                                                                  *)
StoreKept == Store!Spec

(* defs.hpp:72: a block stays in the graveyard until a flush. Thus a block in *)
(* the file is complete: no vCPU changes its records after it was written,   *)
(* neither one that was inside it nor one that still had its translation.    *)
SavedIsFinal == \A b \in Block : saved[b] # None => saved[b] = Snapshot(b)

(* Whatever other vCPUs translate meanwhile, the block an interrupt came from *)
(* has a smaller id than the interrupt, so the analysis, which goes by id,    *)
(* has met that block when it comes to the interrupt.                       *)
IdsCoverSource ==
  \A v \in VCPU : \A n \in DOMAIN curr_ids[v] :
    LET c == curr_ids[v][n]
    IN c.from # None => id[c.from[1]] # None /\ id[c.from[1]] < c.id

(* blocks.hpp:226 calls the id "Current global block ID to map to the          *)
(* instruction where it came from": of the translations of the source address *)
(* below the id, the newest is the one that was interrupted.                *)
IdMapsToSource ==
  \A v \in VCPU : \A n \in DOMAIN curr_ids[v] :
    LET c == curr_ids[v][n]
        covers(b) == id[b] # None /\ c.src \in Span(b).loc .. Span(b).last
    IN c.from # None => \A b \in Block : covers(b) /\ id[b] < c.id => id[b] <= id[c.from[1]]
=============================================================================
