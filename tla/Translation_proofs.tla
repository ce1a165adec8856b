------------------------ MODULE Translation_proofs ------------------------
(***************************************************************************)
(* Proofs about Translation, for every set of vCPUs, of translatable        *)
(* ranges and every bound on the ids.                                      *)
(***************************************************************************)
EXTENDS Translation, FiniteSetTheorems, TLAPS

USE MaxBlocksAssumption, NoBlockAssumption DEF Covered, Home, Flushed

(* The inductive invariant. The map entry of an issued block is at its own *)
(* start, so a block has at most one entry and evicting the entry really   *)
(* takes the block out of the map; ids not issued yet are nowhere; nothing *)
(* QEMU may still run has been written (and freed).                        *)
MapInv == \A a \in Addr : blocks[a] # NoBlock =>
            blocks[a] \in Issued /\ tb[blocks[a]].loc = a
FreshInv == \A i \in BlockId \ Issued :
              block_graveyard[i] = 0 /\ written[i] = 0 /\ ~fretranslated[i]
UseInv == \A i \in InUse : i \in Issued /\ written[i] = 0
StoreInv == TypeOK /\ MapInv /\ OneHome /\ FreshInv /\ UseInv

-----------------------------------------------------------------------------
(* The addresses are natural numbers, and a range's ends are among them. *)
LEMMA AddrNat == Addr \subseteq Nat
  BY TbAssumption DEF Addr

LEMMA EndsInAddr == \A t \in Tb : t.loc \in Addr /\ t.last \in Addr
                                  /\ t.loc .. t.last \subseteq Addr
  BY TbAssumption DEF Addr

(* A segment never leaves the set it is a segment of. *)
LEMMA SegmentSubset == \A S, a : Segment(S, a) \subseteq S
  BY DEF Segment

(* A block has one entry in the map at most. *)
LEMMA OneEntry ==
  ASSUME MapInv, NEW a \in Addr, NEW b \in Addr,
         blocks[a] # NoBlock, blocks[a] = blocks[b]
  PROVE  a = b
  BY DEF MapInv

-----------------------------------------------------------------------------
(* at_exit writes a mapped block once, and an unmapped one not at all. *)
LEMMA EntryCount ==
  ASSUME MapInv, NEW i \in BlockId
  PROVE  Cardinality({a \in Addr : blocks[a] = i}) = IF i \in Mapped THEN 1 ELSE 0
<1>1. CASE i \in Mapped
  <2>1. PICK a \in Addr : blocks[a] = i
    BY <1>1 DEF Mapped
  <2>2. i # NoBlock
    BY DEF BlockId
  <2>3. {b \in Addr : blocks[b] = i} = {a}
    BY <2>1, <2>2, OneEntry
  <2>. QED
    BY <1>1, <2>3, FS_Singleton
<1>2. CASE i \notin Mapped
  <2>1. {a \in Addr : blocks[a] = i} = {}
    BY <1>2 DEF Mapped, BlockId
  <2>. QED
    BY <1>2, <2>1, FS_EmptySet
<1>. QED
  BY <1>1, <1>2

-----------------------------------------------------------------------------
(* The invariant holds initially. *)
LEMMA StoreInit == Init => StoreInv
<1> SUFFICES ASSUME Init PROVE StoreInv
  OBVIOUS
<1>1. TypeOK
  BY DEF Init, TypeOK, BlockId
<1>2. MapInv /\ FreshInv
  BY DEF Init, MapInv, FreshInv
<1>3. OneHome
  BY DEF Init, OneHome, Issued
<1>4. UseInv
  BY DEF Init, UseInv, InUse
<1>. QED
  BY <1>1, <1>2, <1>3, <1>4 DEF StoreInv

(* Every step keeps the types: the handlers never store an id outside the  *)
(* issued range, nor a negative count.                                     *)
LEMMA TypeStep ==
  ASSUME StoreInv, [Next]_vars
  PROVE  TypeOK'
<1> USE DEF StoreInv, TypeOK
<1>1. ASSUME NEW v \in VCPU, NEW t \in Tb, NEW keep \in BOOLEAN, Trans(v, t, keep)
      PROVE  TypeOK'
  <2>0. global_block_id \in BlockId
    BY <1>1 DEF Trans, BlockId
  <2>1. global_block_id' \in 0 .. MaxBlocks
    BY <1>1 DEF Trans
  <2>2. blocks' \in [Addr -> BlockId \cup {NoBlock}]
    BY <1>1, <2>0 DEF Trans
  <2>3. block_graveyard' \in [BlockId -> Nat]
    BY <1>1 DEF Trans
  <2>4. logged_ranges' \subseteq Addr
    BY <1>1, EndsInAddr, SegmentSubset DEF Trans
  <2>5. tb' \in [BlockId -> Tb \cup {NoTb}] /\ cached' \subseteq BlockId
    BY <1>1, <2>0 DEF Trans
  <2>6. fretranslated' \in [BlockId -> BOOLEAN]
    BY <1>1 DEF Trans
  <2>7. UNCHANGED <<written, running, phase>>
    BY <1>1 DEF Trans
  <2>. QED
    BY <2>1, <2>2, <2>3, <2>4, <2>5, <2>6, <2>7
<1>2. CASE TbFlush
  BY <1>2 DEF TbFlush
<1>3. CASE AtExit
  <2>1. \A i \in BlockId : Cardinality({a \in Addr : blocks[a] = i}) \in Nat
    BY EntryCount
  <2>. QED
    BY <1>3, <2>1 DEF AtExit
<1>4. ASSUME NEW v \in VCPU, LeaveTb(v) PROVE TypeOK'
  BY <1>4 DEF LeaveTb
<1>5. ASSUME NEW v \in VCPU, NEW i \in cached, Exec(v, i) PROVE TypeOK'
  BY <1>5 DEF Exec
<1>6. ASSUME NEW a \in Addr, Invalidate(a) PROVE TypeOK'
  BY <1>6 DEF Invalidate
<1>7. CASE UNCHANGED vars
  BY <1>7 DEF vars
<1>. QED
  BY <1>1, <1>2, <1>3, <1>4, <1>5, <1>6, <1>7 DEF Next

-----------------------------------------------------------------------------
(* What trans does to the map: the new id enters it, the blocks of the     *)
(* evicted entries leave it, and no other block moves.                     *)
Gone(t) == {blocks[a] : a \in Evicted(t)}

LEMMA TransMapped ==
  ASSUME StoreInv, NEW v \in VCPU, NEW t \in Tb, NEW keep \in BOOLEAN,
         Trans(v, t, keep)
  PROVE  /\ Gone(t) \subseteq Mapped
         /\ Mapped' = (Mapped \ Gone(t)) \cup {global_block_id}
         /\ global_block_id \in BlockId /\ global_block_id \notin Mapped
<1> USE DEF StoreInv
<1>1. Evicted(t) \subseteq Addr
  BY EndsInAddr DEF Evicted
<1>2. Gone(t) \subseteq Mapped
  BY <1>1 DEF Gone, Evicted, Mapped
<1>3. global_block_id \in BlockId /\ global_block_id \notin Mapped
  BY DEF Trans, TypeOK, BlockId, Mapped, MapInv, Issued
<1>4. t.loc \in Addr
  BY EndsInAddr
<1>5. blocks' = [a \in Addr |-> IF a = t.loc THEN global_block_id
                               ELSE IF a \in Evicted(t) THEN NoBlock ELSE blocks[a]]
  BY DEF Trans
<1>6. ASSUME NEW i \in Mapped' PROVE i \in (Mapped \ Gone(t)) \cup {global_block_id}
  <2>1. PICK a \in Addr : i = blocks'[a] /\ i # NoBlock
    BY <1>6 DEF Mapped
  <2>2. CASE a = t.loc
    BY <2>1, <2>2, <1>5
  <2>3. CASE a # t.loc
    <3>1. i = blocks[a] /\ a \notin Evicted(t) /\ i \in Mapped
      BY <2>1, <2>3, <1>5 DEF Mapped
    <3>2. \A b \in Evicted(t) : blocks[b] # i
      BY <3>1, <2>1, <1>1, OneEntry
    <3>. QED
      BY <3>1, <3>2 DEF Gone
  <2>. QED
    BY <2>2, <2>3
<1>7. ASSUME NEW i \in (Mapped \ Gone(t)) \cup {global_block_id} PROVE i \in Mapped'
  <2>1. CASE i = global_block_id
    <3>1. blocks'[t.loc] = i
      BY <1>4, <1>5, <2>1
    <3>. QED
      BY <3>1, <1>3, <1>4, <2>1 DEF Mapped, BlockId
  <2>2. CASE i \in Mapped \ Gone(t)
    <3>1. PICK a \in Addr : i = blocks[a] /\ i # NoBlock
      BY <2>2 DEF Mapped
    <3>2. a \notin Evicted(t)
      BY <2>2, <3>1 DEF Gone
    <3>3. a # t.loc
      BY <3>1, <3>2 DEF Evicted
    <3>4. blocks'[a] = i
      BY <1>5, <3>1, <3>2, <3>3
    <3>. QED
      BY <3>1, <3>4 DEF Mapped
  <2>. QED
    BY <1>7, <2>1, <2>2
<1>8. Mapped' = (Mapped \ Gone(t)) \cup {global_block_id}
  BY <1>6, <1>7
<1>. QED
  BY <1>2, <1>3, <1>8

(* Every step keeps entries at their blocks' own starts. *)
LEMMA MapStep ==
  ASSUME StoreInv, [Next]_vars
  PROVE  MapInv'
<1> USE DEF StoreInv, MapInv, Issued
<1>1. ASSUME NEW v \in VCPU, NEW t \in Tb, NEW keep \in BOOLEAN, Trans(v, t, keep)
      PROVE  MapInv'
  <2> SUFFICES ASSUME NEW a \in Addr, blocks'[a] # NoBlock
               PROVE  blocks'[a] \in Issued' /\ tb'[blocks'[a]].loc = a
    BY DEF MapInv
  <2>1. global_block_id \in BlockId /\ global_block_id' = global_block_id + 1
    BY <1>1, TransMapped DEF Trans
  <2>2. tb' = [tb EXCEPT ![global_block_id] = t] /\ tb \in [BlockId -> Tb \cup {NoTb}]
    BY <1>1 DEF Trans, TypeOK
  <2>3. CASE a = t.loc
    <3>1. blocks'[a] = global_block_id
      BY <1>1, <2>3 DEF Trans
    <3>. QED
      BY <2>1, <2>2, <2>3, <3>1 DEF BlockId
  <2>4. CASE a # t.loc
    <3>1. blocks'[a] = blocks[a] /\ blocks[a] # NoBlock
      BY <1>1, <2>4 DEF Trans
    <3>2. blocks[a] \in 0 .. global_block_id - 1 /\ tb[blocks[a]].loc = a
      BY <3>1
    <3>3. tb'[blocks[a]] = tb[blocks[a]]
      BY <2>1, <2>2, <3>2 DEF BlockId
    <3>. QED
      BY <2>1, <3>1, <3>2, <3>3 DEF BlockId
  <2>. QED
    BY <2>3, <2>4
<1>2. CASE TbFlush
  BY <1>2 DEF TbFlush
<1>3. CASE AtExit
  BY <1>3 DEF AtExit
<1>4. ASSUME NEW v \in VCPU, LeaveTb(v) PROVE MapInv'
  BY <1>4 DEF LeaveTb
<1>5. ASSUME NEW v \in VCPU, NEW i \in cached, Exec(v, i) PROVE MapInv'
  BY <1>5 DEF Exec
<1>6. ASSUME NEW a \in Addr, Invalidate(a) PROVE MapInv'
  BY <1>6 DEF Invalidate
<1>7. CASE UNCHANGED vars
  BY <1>7 DEF vars
<1>. QED
  BY <1>1, <1>2, <1>3, <1>4, <1>5, <1>6, <1>7 DEF Next

(* Every step keeps each block in one place, once, and an id that was not  *)
(* issued nowhere.                                                         *)
LEMMA HomeStep ==
  ASSUME StoreInv, [Next]_vars
  PROVE  OneHome' /\ FreshInv'
<1> USE DEF StoreInv, TypeOK, OneHome, FreshInv
<1>0. /\ Issued \subseteq BlockId
      /\ Mapped \subseteq Issued
      /\ \A i \in BlockId : block_graveyard[i] \in Nat /\ written[i] \in Nat
  BY DEF Issued, BlockId, Mapped, MapInv
<1>1. ASSUME NEW v \in VCPU, NEW t \in Tb, NEW keep \in BOOLEAN, Trans(v, t, keep)
      PROVE  OneHome' /\ FreshInv'
  <2>1. /\ Mapped' = (Mapped \ Gone(t)) \cup {global_block_id}
        /\ Gone(t) \subseteq Mapped
        /\ global_block_id \in BlockId /\ global_block_id \notin Mapped
    BY <1>1, TransMapped
  <2>2. /\ written' = written
        /\ \A i \in BlockId :
             block_graveyard'[i] = block_graveyard[i] + (IF i \in Gone(t) THEN 1 ELSE 0)
        /\ \A i \in BlockId : fretranslated'[i] => fretranslated[i] \/ i \in Gone(t)
    <3>1. UNCHANGED written
      BY <1>1 DEF Trans
    <3>2. block_graveyard' = [i \in BlockId |->
                                block_graveyard[i] + (IF i \in Gone(t) THEN 1 ELSE 0)]
      BY <1>1 DEF Trans, Gone
    <3>3. \A i \in BlockId : fretranslated'[i] => fretranslated[i] \/ i \in Gone(t)
      BY <1>1, Zenon DEF Trans, Gone
    <3>. QED
      BY <3>1, <3>2, <3>3
  <2>3. Issued' = Issued \cup {global_block_id} /\ global_block_id \notin Issued
    <3>1. global_block_id' = global_block_id + 1 /\ global_block_id \in Nat
      BY <1>1 DEF Trans
    <3>. QED
      BY <3>1 DEF Issued
  <2>4. ASSUME NEW i \in Issued'
        PROVE  block_graveyard'[i] + written'[i] = IF i \in Mapped' THEN 0 ELSE 1
    <3>1. CASE i = global_block_id
      <4>1. block_graveyard[i] = 0 /\ written[i] = 0 /\ i \notin Gone(t) /\ i \in Mapped'
        BY <2>1, <2>3, <3>1
      <4>. QED
        BY <2>1, <2>2, <3>1, <4>1
    <3>2. CASE i \in Issued
      <4>1. block_graveyard[i] + written[i] = IF i \in Mapped THEN 0 ELSE 1
        BY <3>2
      <4>2. i \in Mapped' <=> i \in Mapped /\ i \notin Gone(t)
        BY <2>1, <2>3, <3>2
      <4>3. i \in BlockId /\ (i \in Gone(t) => i \in Mapped)
        BY <1>0, <2>1, <3>2
      <4>. QED
        BY <1>0, <2>2, <4>1, <4>2, <4>3
    <3>. QED
      BY <2>3, <2>4, <3>1, <3>2
  <2>5. ASSUME NEW i \in BlockId \ Issued'
        PROVE  block_graveyard'[i] = 0 /\ written'[i] = 0 /\ ~fretranslated'[i]
    <3>1. i \in BlockId \ Issued /\ i \notin Gone(t)
      BY <1>0, <2>1, <2>3
    <3>. QED
      BY <1>0, <2>2, <3>1
  <2>. QED
    BY <2>4, <2>5
<1>2. CASE TbFlush
  <2>1. /\ Mapped' = Mapped /\ Issued' = Issued /\ fretranslated' = fretranslated
        /\ \A i \in BlockId : block_graveyard'[i] = 0
                              /\ written'[i] = written[i] + block_graveyard[i]
    BY <1>2 DEF TbFlush, Mapped, Issued
  <2>2. \A i \in Issued : block_graveyard'[i] + written'[i] = block_graveyard[i] + written[i]
    BY <1>0, <2>1
  <2>. QED
    BY <1>0, <2>1, <2>2
<1>3. CASE AtExit
  <2>1. /\ Mapped' = {} /\ Issued' = Issued /\ fretranslated' = fretranslated
        /\ \A i \in BlockId : block_graveyard'[i] = 0
    BY <1>3 DEF AtExit, Mapped, Issued
  <2>2. \A i \in BlockId : written'[i] = written[i] + block_graveyard[i]
                                         + (IF i \in Mapped THEN 1 ELSE 0)
    BY <1>3, EntryCount DEF AtExit
  <2>3. \A i \in Issued : block_graveyard'[i] + written'[i] = 1
    BY <1>0, <2>1, <2>2
  <2>4. \A i \in BlockId \ Issued : written'[i] = 0
    BY <1>0, <2>2
  <2>. QED
    BY <2>1, <2>3, <2>4
<1>4. ASSUME NEW v \in VCPU, LeaveTb(v) PROVE OneHome' /\ FreshInv'
  BY <1>4 DEF LeaveTb, Mapped, Issued
<1>5. ASSUME NEW v \in VCPU, NEW i \in cached, Exec(v, i) PROVE OneHome' /\ FreshInv'
  BY <1>5 DEF Exec, Mapped, Issued
<1>6. ASSUME NEW a \in Addr, Invalidate(a) PROVE OneHome' /\ FreshInv'
  BY <1>6 DEF Invalidate, Mapped, Issued
<1>7. CASE UNCHANGED vars
  BY <1>7 DEF vars, Mapped, Issued
<1>. QED
  BY <1>1, <1>2, <1>3, <1>4, <1>5, <1>6, <1>7 DEF Next

(* Every step keeps what QEMU can still run unwritten: tb_flush and at_exit *)
(* come only when nothing is in use afterwards.                            *)
LEMMA UseStep ==
  ASSUME StoreInv, [Next]_vars
  PROVE  UseInv'
<1> USE DEF StoreInv, TypeOK, UseInv, InUse, Issued
<1>1. ASSUME NEW v \in VCPU, NEW t \in Tb, NEW keep \in BOOLEAN, Trans(v, t, keep)
      PROVE  UseInv'
  <2>1. /\ global_block_id' = global_block_id + 1
        /\ global_block_id \in BlockId
        /\ InUse' \subseteq InUse \cup {global_block_id}
        /\ written' = written
    BY <1>1, TransMapped DEF Trans
  <2>2. written[global_block_id] = 0
    BY <2>1 DEF FreshInv
  <2>3. Issued' = Issued \cup {global_block_id}
    BY <2>1 DEF BlockId
  <2>4. \A i \in InUse' : i \in Issued' /\ written'[i] = 0
    BY <2>1, <2>2, <2>3
  <2>. QED
    BY <2>4
<1>2. CASE TbFlush
  <2>1. InUse' = {}
    BY <1>2 DEF TbFlush
  <2>. QED
    BY <2>1
<1>3. CASE AtExit
  <2>1. InUse' = {}
    BY <1>3 DEF AtExit
  <2>. QED
    BY <2>1
<1>4. ASSUME NEW v \in VCPU, LeaveTb(v) PROVE UseInv'
  BY <1>4 DEF LeaveTb
<1>5. ASSUME NEW v \in VCPU, NEW i \in cached, Exec(v, i) PROVE UseInv'
  BY <1>5 DEF Exec
<1>6. ASSUME NEW a \in Addr, Invalidate(a) PROVE UseInv'
  BY <1>6 DEF Invalidate
<1>7. CASE UNCHANGED vars
  BY <1>7 DEF vars
<1>. QED
  BY <1>1, <1>2, <1>3, <1>4, <1>5, <1>6, <1>7 DEF Next

(* The inductive invariant holds in every reachable state. *)
THEOREM StoreInvariant == Spec => []StoreInv
<1>1. Init => StoreInv
  BY StoreInit
<1>2. StoreInv /\ [Next]_vars => StoreInv'
  BY TypeStep, MapStep, HomeStep, UseStep DEF StoreInv
<1>. QED
  BY <1>1, <1>2, PTL DEF Spec

(* Type correctness of the block store. *)
THEOREM TypeCorrect == Spec => []TypeOK
  BY StoreInvariant, PTL DEF StoreInv

(* No block is lost by tb::trans, tb_flush or at_exit, and none is saved   *)
(* twice, for any number of vCPUs, blocks and address ranges.              *)
THEOREM BlocksHaveOneHome == Spec => []OneHome
  BY StoreInvariant, PTL DEF StoreInv

(* The raw block pointers QEMU's callbacks hold never dangle: a block that *)
(* QEMU can run or is running is owned by the map or the graveyard.        *)
THEOREM CallbacksSafe == Spec => []NoUseAfterFree
<1>1. StoreInv => NoUseAfterFree
  <2> SUFFICES ASSUME StoreInv, NEW i \in InUse PROVE i \in Alive
    BY DEF NoUseAfterFree
  <2>1. i \in Issued /\ i \in BlockId /\ written[i] = 0
    BY DEF StoreInv, UseInv, TypeOK, Issued, BlockId
  <2>2. i \in Mapped \/ block_graveyard[i] > 0
    BY <2>1 DEF StoreInv, OneHome, TypeOK
  <2>. QED
    BY <2>1, <2>2 DEF Alive
<1>. QED
  BY <1>1, StoreInvariant, PTL

(* What the flag of a block says stays true: trans flags what it takes out   *)
(* of the map, and the blocks it takes out start at one of its two ends.     *)
LEMMA FlagStep ==
  ASSUME StoreInv, FlagIffRetired, [Next]_vars
  PROVE  FlagIffRetired'
<1> USE DEF FlagIffRetired
<1>0. Issued \subseteq BlockId /\ global_block_id \in Nat
  BY DEF StoreInv, TypeOK, Issued, BlockId
<1>1. ASSUME NEW v \in VCPU, NEW t \in Tb, NEW keep \in BOOLEAN, Trans(v, t, keep)
      PROVE  FlagIffRetired'
  <2> DEFINE id == global_block_id
  <2>1. /\ Mapped' = (Mapped \ Gone(t)) \cup {id}
        /\ Gone(t) \subseteq Mapped
        /\ id \in BlockId /\ id \notin Mapped
    BY <1>1, TransMapped
  <2>2. /\ \A i \in BlockId : fretranslated'[i] <=> (fretranslated[i] \/ i \in Gone(t))
        /\ phase = "run"
    BY <1>1, Zenon DEF Trans, Gone
  <2>3. Issued' = Issued \cup {id} /\ \A i \in Issued : i \in Nat /\ i < id
    <3>1. id' = id + 1
      BY <1>1 DEF Trans
    <3>. QED
      BY <1>0, <3>1 DEF Issued
  <2>4. tb'[id] = t /\ \A i \in Issued : tb'[i] = tb[i]
    BY <1>1, <1>0, <2>1, <2>3 DEF Trans, StoreInv, TypeOK
  <2>5. ASSUME NEW i \in Issued', phase' = "run"
        PROVE  fretranslated'[i] <=> i \notin Mapped'
    <3>1. CASE i = id
      <4>1. ~fretranslated[id] /\ id \notin Gone(t)
        BY <2>1, <2>3 DEF StoreInv, FreshInv
      <4>. QED
        BY <2>1, <2>2, <3>1, <4>1
    <3>2. CASE i \in Issued
      <4>1. fretranslated[i] <=> i \notin Mapped
        BY <2>2, <3>2
      <4>. QED
        BY <1>0, <2>1, <2>2, <2>3, <3>2, <4>1
    <3>. QED
      BY <2>3, <2>5, <3>1, <3>2
  <2>6. ASSUME NEW i \in Issued', fretranslated'[i]
        PROVE  \E j \in Issued' : j > i /\ tb'[i].loc \in {tb'[j].loc, tb'[j].last}
    <3>1. i \in Issued
      BY <2>1, <2>2, <2>3, <2>6 DEF StoreInv, FreshInv
    <3>2. CASE fretranslated[i]
      <4>1. PICK j \in Issued : j > i /\ tb[i].loc \in {tb[j].loc, tb[j].last}
        BY <3>1, <3>2
      <4>. QED
        BY <2>3, <2>4, <3>1, <4>1
    <3>3. CASE i \in Gone(t)
      <4>1. PICK a \in {t.loc, t.last} : blocks[a] = i /\ blocks[a] # NoBlock
        BY <3>3 DEF Gone, Evicted
      <4>2. a \in Addr
        BY EndsInAddr
      <4>3. tb[i].loc = a
        BY <4>1, <4>2 DEF StoreInv, MapInv
      <4>. QED
        BY <2>3, <2>4, <3>1, <4>3
    <3>. QED
      BY <1>0, <2>2, <3>1, <3>2, <3>3, <2>6
  <2>. QED
    BY <2>5, <2>6
<1>2. CASE TbFlush
  BY <1>2 DEF TbFlush, Mapped, Issued
<1>3. CASE AtExit
  BY <1>3 DEF AtExit, Issued
<1>4. ASSUME NEW v \in VCPU, LeaveTb(v) PROVE FlagIffRetired'
  BY <1>4 DEF LeaveTb, Mapped, Issued
<1>5. ASSUME NEW v \in VCPU, NEW i \in cached, Exec(v, i) PROVE FlagIffRetired'
  BY <1>5 DEF Exec, Mapped, Issued
<1>6. ASSUME NEW a \in Addr, Invalidate(a) PROVE FlagIffRetired'
  BY <1>6 DEF Invalidate, Mapped, Issued
<1>7. CASE UNCHANGED vars
  BY <1>7 DEF vars, Mapped, Issued
<1>. QED
  BY <1>1, <1>2, <1>3, <1>4, <1>5, <1>6, <1>7 DEF Next

(* What the save file calls retranslated is what left the map, and a later    *)
(* block that starts or ends at its start displaced it, for any number of    *)
(* vCPUs, blocks and address ranges.                                       *)
THEOREM FlagsAreRight == Spec => []FlagIffRetired
<1>1. Init => FlagIffRetired
  BY DEF Init, FlagIffRetired, Issued
<1>2. StoreInv /\ FlagIffRetired /\ [Next]_vars => FlagIffRetired'
  BY FlagStep
<1>. QED
  BY <1>1, <1>2, StoreInvariant, PTL DEF Spec

-----------------------------------------------------------------------------
(* Refinement. Retired and saved blocks, as BlockLife sees them. *)
Retired == {i \in BlockId : block_graveyard[i] > 0}
Saved == {i \in BlockId : written[i] > 0}

(* trans is one BlockLife translation: it retires the evicted blocks. *)
LEMMA TransRefines ==
  ASSUME StoreInv, NEW v \in VCPU, NEW t \in Tb, NEW keep \in BOOLEAN,
         Trans(v, t, keep)
  PROVE  \E b, x, y \in BlockId : Life!Translate(b, x, y)
<1> DEFINE id == global_block_id
           pick(a) == IF a \in Evicted(t) THEN blocks[a] ELSE id
           x == pick(t.loc)
           y == pick(t.last)
<1>1. /\ Gone(t) \subseteq Mapped
      /\ Mapped' = (Mapped \ Gone(t)) \cup {id}
      /\ id \in BlockId /\ id \notin Mapped
  BY TransMapped
<1>2. Mapped \subseteq BlockId
  BY DEF StoreInv, TypeOK, Mapped
<1>3. x \in BlockId /\ y \in BlockId
  BY <1>1, <1>2 DEF Gone
<1>4. Mapped \cap {x, y} = Gone(t)
  BY <1>1 DEF Gone, Evicted
<1>5. id \notin Issued
  BY DEF StoreInv, TypeOK, Issued
<1>6. id \notin Mapped \cup Retired \cup Saved
  BY <1>1, <1>5 DEF Retired, Saved, StoreInv, FreshInv
<1>7. Retired' = Retired \cup (Mapped \cap {x, y})
  <2>1. \A i \in BlockId : block_graveyard'[i] =
                             block_graveyard[i] + (IF i \in Gone(t) THEN 1 ELSE 0)
    <3>1. block_graveyard' = [i \in BlockId |->
                                block_graveyard[i] + (IF i \in Gone(t) THEN 1 ELSE 0)]
      BY DEF Trans, Gone
    <3>. QED
      BY <3>1
  <2>2. \A i \in BlockId : block_graveyard[i] \in Nat
    BY DEF StoreInv, TypeOK
  <2>3. \A i \in BlockId : i \in Retired' <=> i \in Retired \/ i \in Gone(t)
    BY <2>1, <2>2 DEF Retired
  <2>4. Retired' \subseteq BlockId /\ Retired \subseteq BlockId
    BY DEF Retired
  <2>. QED
    BY <1>1, <1>2, <1>4, <2>3, <2>4
<1>8. Saved' = Saved
  BY DEF Trans, Saved
<1>9. InUse' = InUse \/ InUse' = InUse \cup {id}
  <2>1. (cached' = cached \/ cached' = cached \cup {id}) /\ running' = running
    BY DEF Trans
  <2>. QED
    BY <2>1 DEF InUse
<1>10. Mapped' = (Mapped \ {x, y}) \cup {id}
  BY <1>1, <1>4
<1>11. ASSUME NEW b \in BlockId, NEW c \in BlockId, NEW d \in BlockId,
              b = id, c = x, d = y
       PROVE  Life!Translate(b, c, d)
  BY <1>11, <1>4, <1>6, <1>7, <1>8, <1>9, <1>10 DEF Life!Translate, Retired, Saved
<1>. HIDE DEF x, y
<1>. QED
  BY <1>1, <1>3, <1>11

(* Every step of the block store is a step of BlockLife, or stutters. *)
LEMMA StepRefines ==
  ASSUME StoreInv, [Next]_vars
  PROVE  [Life!Next]_(Life!lifeVars)
<1>0. /\ Mapped \subseteq BlockId
      /\ \A i \in BlockId : block_graveyard[i] \in Nat /\ written[i] \in Nat
  BY DEF StoreInv, TypeOK, Mapped
<1>1. ASSUME NEW v \in VCPU, NEW t \in Tb, NEW keep \in BOOLEAN, Trans(v, t, keep)
      PROVE  Life!Next
  BY <1>1, TransRefines DEF Life!Next
<1>2. CASE TbFlush
  <2>1. Mapped' = Mapped /\ InUse' = {}
    BY <1>2 DEF TbFlush, Mapped, InUse
  <2>2. Retired' = {}
    BY <1>2 DEF TbFlush, Retired
  <2>3. Saved' = Saved \cup Retired
    <3>1. \A i \in BlockId : written'[i] = written[i] + block_graveyard[i]
      BY <1>2 DEF TbFlush
    <3>. QED
      BY <1>0, <3>1 DEF Saved, Retired
  <2>4. Life!SaveRetired
    BY <2>1, <2>2, <2>3 DEF Life!SaveRetired, Retired, Saved
  <2>. QED
    BY <2>4 DEF Life!Next
<1>3. CASE AtExit
  <2>1. Mapped' = {} /\ InUse' = {}
    BY <1>3 DEF AtExit, Mapped, InUse
  <2>2. Retired' = {}
    BY <1>3 DEF AtExit, Retired
  <2>3. Saved' = Saved \cup Retired \cup Mapped
    <3>1. \A i \in BlockId : written'[i] = written[i] + block_graveyard[i]
                                           + (IF i \in Mapped THEN 1 ELSE 0)
      BY <1>3, EntryCount DEF AtExit, StoreInv
    <3>2. \A i \in BlockId : i \in Saved' <=> i \in Saved \cup Retired \cup Mapped
      BY <1>0, <3>1 DEF Saved, Retired
    <3>3. Saved' \subseteq BlockId /\ Saved \cup Retired \subseteq BlockId
      BY DEF Saved, Retired
    <3>. QED
      BY <1>0, <3>2, <3>3
  <2>4. Life!SaveAll
    BY <2>1, <2>2, <2>3 DEF Life!SaveAll, Retired, Saved
  <2>. QED
    BY <2>4 DEF Life!Next
<1>4. ASSUME InUse' \subseteq InUse,
             UNCHANGED <<blocks, block_graveyard, written>>
      PROVE  Life!Next
  <2>1. Life!StopUsing
    BY <1>4 DEF Life!StopUsing, Mapped
  <2>. QED
    BY <2>1 DEF Life!Next
<1>5. ASSUME NEW v \in VCPU, LeaveTb(v) PROVE Life!Next
  <2>1. \A w \in VCPU : running'[w] \in {running[w], NoBlock}
    BY <1>5 DEF LeaveTb, StoreInv, TypeOK
  <2>2. InUse' \subseteq InUse /\ UNCHANGED <<blocks, block_graveyard, written>>
    BY <1>5, <2>1 DEF LeaveTb, InUse
  <2>. QED
    BY <1>4, <2>2
<1>6. ASSUME NEW v \in VCPU, NEW i \in cached, Exec(v, i) PROVE Life!Next
  <2>1. \A w \in VCPU : running'[w] = running[w] \/ running'[w] \in cached
    BY <1>6 DEF Exec, StoreInv, TypeOK
  <2>2. InUse' \subseteq InUse /\ UNCHANGED <<blocks, block_graveyard, written>>
    BY <1>6, <2>1 DEF Exec, InUse
  <2>. QED
    BY <1>4, <2>2
<1>7. ASSUME NEW a \in Addr, Invalidate(a) PROVE Life!Next
  BY <1>4, <1>7 DEF Invalidate, InUse
<1>8. CASE UNCHANGED vars
  <2>1. InUse' \subseteq InUse /\ UNCHANGED <<blocks, block_graveyard, written>>
    BY <1>8 DEF vars, InUse
  <2>. QED
    BY <1>4, <2>1
<1>. QED
  BY <1>1, <1>2, <1>3, <1>5, <1>6, <1>7, <1>8 DEF Next

(* The block store implements BlockLife: blocks are retired only by later   *)
(* translations, saved once they cannot run, and all saved at exit.        *)
THEOREM BlockStoreRefinesLife == Spec => ImplementsBlockLife
<1>1. Init => Life!Init
  <2> SUFFICES ASSUME Init PROVE Life!Init
    OBVIOUS
  <2>1. Mapped = {} /\ InUse = {}
    BY DEF Init, Mapped, InUse
  <2>2. Retired = {} /\ Saved = {}
    BY DEF Init, Retired, Saved
  <2>. QED
    BY <2>1, <2>2 DEF Life!Init, Retired, Saved
<1>2. StoreInv /\ [Next]_vars => [Life!Next]_(Life!lifeVars)
  BY StepRefines
<1>. QED
  BY <1>1, <1>2, StoreInvariant, PTL DEF Spec, ImplementsBlockLife, Life!Spec
=============================================================================
