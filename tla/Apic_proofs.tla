---------------------------- MODULE Apic_proofs ----------------------------
(***************************************************************************)
(* Proofs about Apic, for every number of vCPUs, every set of pages, all page  *)
(* tables and every guest: as long as plugin and machine agree on who is who, every     *)
(* start-up interrupt leaves its signal where the machine delivers it.       *)
(***************************************************************************)
EXTENDS Apic, TLAPS

USE ApicAssumption

(* The table of ids starts as the identity, and what the plugin reads never   *)
(* makes it better: the theorems are about machines whose ids are the indices *)
(* of the vCPUs, the only ones the table fits.                              *)
IndexIds == \A v \in VCPU : apic_id[v] = v

-----------------------------------------------------------------------------
(* The top byte of the register is the id written there. *)
LEMMA DestinationIsId == ASSUME NEW id \in 0 .. 255 PROVE Destination(id * 2^24) = id
  BY DEF Destination

LEMMA VcpuInTable == ASSUME NEW v \in VCPU PROVE v \in 0 .. MaxCores - 1
  BY DEF VCPU

-----------------------------------------------------------------------------
(* The cells keep their types whatever the guest does, whether or not plugin  *)
(* and machine agree.                                                      *)
Edge == [from : VCPU, target_pc : Page]

LEMMA StoreType ==
  ASSUME NEW cell \in [VCPU -> Edge \cup {None}], NEW targets, NEW s \in Edge
  PROVE  Store(cell, targets, s) \in [VCPU -> Edge \cup {None}]
  BY DEF Store

LEMMA SignalType ==
  ASSUME NEW v \in VCPU, NEW icr \in StartUp
  PROVE  Signal(v, icr) \in Edge /\ Signal(v, icr) # None
  BY DEF Signal, StartUp, Edge

LEMMA ApicInitTypes == ApicInit => ApicTypeOK
<1> SUFFICES ASSUME ApicInit PROVE ApicTypeOK
  OBVIOUS
<1>1. 0 \in 0 .. 255
  OBVIOUS
<1>. QED
  BY <1>1 DEF ApicInit, ApicTypeOK

LEMMA ApicTypesStep ==
  ASSUME ApicTypeOK, [ApicNext]_apicVars
  PROVE  ApicTypeOK'
<1> USE DEF ApicTypeOK
<1>1. ASSUME NEW v \in VCPU, NEW a \in Base, AccessId(v, a) PROVE ApicTypeOK'
  <2>1. v \in 0 .. MaxCores - 1
    BY VcpuInTable
  <2>2. map_id' \in [0 .. MaxCores - 1 -> 0 .. MaxCores - 1]
    BY <1>1, <2>1 DEF AccessId
  <2>. QED
    BY <1>1, <2>2 DEF AccessId
<1>2. ASSUME NEW v \in VCPU, NEW a \in Base, NEW id \in ApicId, WriteIcrHigh(v, a, id)
      PROVE  ApicTypeOK'
  <2>0. PICK w \in VCPU : id = apic_id[w]
    BY DEF ApicId
  <2>1. id \in 0 .. 255
    BY <2>0
  <2>2. Destination(id * 2^24) = id
    BY <2>1, DestinationIsId
  <2>3. /\ \/ hw_icr_high' = hw_icr_high
           \/ hw_icr_high' = [hw_icr_high EXCEPT ![v] = id]
        /\ \/ last_target_apic_id' = last_target_apic_id
           \/ last_target_apic_id' = [last_target_apic_id EXCEPT ![v] = id]
    BY <1>2, <2>2 DEF WriteIcrHigh
  <2> DEFINE Byte == 0 .. 255
  <2>4. /\ hw_icr_high \in [VCPU -> Byte] /\ last_target_apic_id \in [VCPU -> Byte] /\ id \in Byte
    BY <2>1
  <2>5. hw_icr_high' \in [VCPU -> Byte] /\ last_target_apic_id' \in [VCPU -> Byte]
    <3> HIDE DEF Byte, ApicTypeOK
    <3>. QED
      BY <2>3, <2>4
  <2>. QED
    BY <1>2, <2>5 DEF WriteIcrHigh
<1>3. ASSUME NEW v \in VCPU, NEW a \in Base, NEW icr \in StartUp, WriteIcrLow(v, a, icr)
      PROVE  ApicTypeOK'
  <2>1. Signal(v, icr) \in Edge
    BY SignalType
  <2>2. signaled_edges' \in [VCPU -> Edge \cup {None}] /\ hw_started' \in [VCPU -> Edge \cup {None}]
    BY <1>3, <2>1, StoreType DEF WriteIcrLow, AddEdges, Edge
  <2>3. hw_icr_low' \in [VCPU -> StartUp \cup {None}]
    BY <1>3 DEF WriteIcrLow
  <2>. QED
    BY <1>3, <2>2, <2>3 DEF WriteIcrLow, Edge
<1>4. ASSUME NEW v \in VCPU, NEW a \in Base, ReadIcrLow(v, a) PROVE ApicTypeOK'
  <2>1. hw_icr_low[v] \in StartUp
    BY <1>4 DEF ReadIcrLow
  <2>2. Signal(v, hw_icr_low[v]) \in Edge
    BY <2>1, SignalType
  <2>3. signaled_edges' \in [VCPU -> Edge \cup {None}]
    BY <1>4, <2>2, StoreType DEF ReadIcrLow, AddEdges, Edge
  <2>. QED
    BY <1>4, <2>3 DEF ReadIcrLow, Edge
<1>5. ASSUME NEW v \in VCPU, NEW b \in Base, WrmsrApicBase(v, b) PROVE ApicTypeOK'
  BY <1>5 DEF WrmsrApicBase
<1>6. ASSUME NEW v \in VCPU, RunBlock(v) PROVE ApicTypeOK'
  BY <1>6 DEF RunBlock
<1>7. ASSUME NEW v \in VCPU, NEW a \in Base, NEW p \in Base, MapPage(v, a, p)
      PROVE  ApicTypeOK'
  <2>1. hw_page' \in [VCPU -> [Base -> Base]]
    BY <1>7 DEF MapPage
  <2>. QED
    BY <1>7, <2>1 DEF MapPage
<1>8. CASE UNCHANGED apicVars
  BY <1>8 DEF apicVars
<1>. QED
  BY <1>1, <1>2, <1>3, <1>4, <1>5, <1>6, <1>7, <1>8 DEF ApicNext

(* Type correctness of the watcher. *)
THEOREM ApicTypeCorrect == ApicSpec => []ApicTypeOK
  BY ApicInitTypes, ApicTypesStep, PTL DEF ApicSpec

-----------------------------------------------------------------------------
(* While they agree, both find the same targets. *)
LEMMA SameTargets ==
  ASSUME IndexIds, Mapped, ApicTypeOK, NEW v \in VCPU, NEW icr \in StartUp, NEW w \in VCPU
  PROVE  w \in Targets(v, icr.shorthand) <=> w \in HwTargets(v, icr.shorthand)
<1>1. \A n \in 0 .. MaxCores - 1 : map_id[n] = n
  BY DEF Mapped, ApicTypeOK
<1>2. w \in 0 .. MaxCores - 1
  BY VcpuInTable
<1>3. w \in Lookup(last_target_apic_id[v]) <=> w = last_target_apic_id[v]
  BY <1>1, <1>2 DEF Lookup
<1>4. last_target_apic_id[v] = hw_icr_high[v]
  BY DEF Mapped
<1>5. w \in {u \in VCPU : apic_id[u] = hw_icr_high[v]} <=> w = hw_icr_high[v]
  BY DEF IndexIds
<1>6. icr.shorthand \in {"all_but_self", "all", "self", "none"}
  BY DEF StartUp
<1>. QED
  BY <1>3, <1>4, <1>5, <1>6 DEF Targets, HwTargets

(* ... and an access the plugin watches is one that reaches the APIC. *)
LEMMA WatchedReaches ==
  ASSUME Mapped, NEW v \in VCPU, NEW a \in Base
  PROVE  Watched(a) <=> Reaches(v, a)
  BY DEF Mapped, Reaches

(* What keeps plugin and machine agreed on the page and on the ids. *)
LEMMA MappedStep ==
  ASSUME ApicTypeOK, Mapped, ApicNext, ~Moves, ~Remaps, ~Garbles
  PROVE  Mapped'
<1> USE DEF Mapped, Watched, ApicTypeOK
<1>1. ASSUME NEW v \in VCPU, NEW a \in Base, AccessId(v, a) PROVE Mapped'
  <2>1. a = base => v = 0
    BY <1>1 DEF Garbles
  <2>2. 0 \in DOMAIN map_id /\ (map_id' = map_id \/ map_id' = [map_id EXCEPT ![0] = 0])
    BY <1>1, <2>1, VcpuInTable DEF AccessId
  <2>3. map_id' = map_id
    BY <2>2
  <2>. QED
    BY <1>1, <2>3 DEF AccessId
<1>2. ASSUME NEW v \in VCPU, NEW a \in Base, NEW id \in ApicId, WriteIcrHigh(v, a, id)
      PROVE  Mapped'
  <2>1. Destination(id * 2^24) = id
    BY DestinationIsId DEF ApicId
  <2>2. Watched(a) <=> Reaches(v, a)
    BY WatchedReaches
  <2>. QED
    BY <1>2, <2>1, <2>2 DEF WriteIcrHigh
<1>3. ASSUME NEW v \in VCPU, NEW a \in Base,
             (\E icr \in StartUp : WriteIcrLow(v, a, icr)) \/ ReadIcrLow(v, a)
      PROVE  Mapped'
  BY <1>3 DEF WriteIcrLow, ReadIcrLow
<1>4. ASSUME NEW v \in VCPU, RunBlock(v) PROVE Mapped'
  BY <1>4 DEF RunBlock
<1>5. ASSUME NEW v \in VCPU, NEW b \in Base, WrmsrApicBase(v, b) PROVE Mapped'
  <2>1. b = hw_base[v]
    BY <1>5 DEF Moves
  <2>. QED
    BY <1>5, <2>1 DEF WrmsrApicBase
<1>6. ASSUME NEW v \in VCPU, NEW a \in Base, NEW p \in Base, MapPage(v, a, p) PROVE Mapped'
  <2>1. p = base <=> a = base
    BY <1>6 DEF Remaps
  <2>2. \A w \in VCPU, c \in Base : hw_page'[w][c] = IF w = v /\ c = a THEN p ELSE hw_page[w][c]
    BY <1>6 DEF MapPage
  <2>. QED
    BY <1>6, <2>1, <2>2 DEF MapPage
<1>. QED
  BY <1>1, <1>2, <1>3, <1>4, <1>5, <1>6 DEF ApicNext

(* Plugin and machine store the same signals for the same interrupt. *)
LEMMA SameStore ==
  ASSUME IndexIds, Mapped, ApicTypeOK, NEW v \in VCPU, NEW a \in Base, NEW icr \in StartUp,
         WriteIcrLow(v, a, icr), NEW w \in VCPU
  PROVE  \/ /\ signaled_edges'[w] = Signal(v, icr)
            /\ hw_started'[w] = Signal(v, icr)
         \/ /\ signaled_edges'[w] = signaled_edges[w]
            /\ hw_started'[w] = hw_started[w]
<1>1. CASE ~Watched(a)
  BY <1>1, WatchedReaches DEF WriteIcrLow, AddEdges
<1>2. CASE Watched(a)
  <2>1. /\ signaled_edges' = Store(signaled_edges, Targets(v, icr.shorthand), Signal(v, icr))
        /\ hw_started' = Store(hw_started, HwTargets(v, icr.shorthand), Signal(v, icr))
    BY <1>2, WatchedReaches DEF WriteIcrLow, AddEdges
  <2>. QED
    BY <2>1, SameTargets DEF Store
<1>. QED
  BY <1>1, <1>2

(* As long as the APIC is, for every guest, at the virtual address that the    *)
(* plugin has as its physical one, no vCPU but the first touches its id        *)
(* register and no guest reads its command register back, every start-up       *)
(* interrupt leaves its signal at exactly the vCPUs the machine starts.        *)
THEOREM SignalsFollowMachine ==
  ASSUME IndexIds
  PROVE  ApicSpec => SyncKept
<1>1. ASSUME ApicTypeOK, [ApicNext]_apicVars, InSync, ~Moves, ~Remaps, ~Garbles, ~Polls
      PROVE  InSync'
  <2>1. CASE ApicNext
    <3>1. Mapped'
      BY <1>1, <2>1, MappedStep DEF InSync
    <3>2. ASSUME NEW w \in VCPU PROVE signaled_edges'[w] = hw_started'[w]
      <4>1. CASE \E v \in VCPU, a \in Base, icr \in StartUp : WriteIcrLow(v, a, icr)
        BY <1>1, <4>1, SameStore DEF InSync
      <4>2. CASE \E v \in VCPU : RunBlock(v)
        BY <1>1, <4>2 DEF RunBlock, InSync, ApicTypeOK
      <4>3. CASE UNCHANGED <<signaled_edges, hw_started>>
        BY <1>1, <4>3 DEF InSync
      <4>. QED
        BY <1>1, <2>1, <4>1, <4>2, <4>3
           DEF ApicNext, Polls, AccessId, WriteIcrHigh, WrmsrApicBase, MapPage
    <3>. QED
      BY <3>1, <3>2 DEF InSync
  <2>2. CASE UNCHANGED apicVars
    BY <1>1, <2>2 DEF apicVars, InSync, Mapped, Watched
  <2>. QED
    BY <1>1, <2>1, <2>2
<1>2. ApicTypeOK /\ [ApicNext]_apicVars => [InSync /\ ~Moves /\ ~Remaps /\ ~Garbles /\ ~Polls => InSync']_apicVars
  BY <1>1
<1>. QED
  BY <1>2, ApicTypeCorrect, PTL DEF ApicSpec, SyncKept

(* Also with guests that read their command register back, every vCPU that the *)
(* machine started and that has not run a block since has a signal pending.    *)
THEOREM StartedAreSignaled ==
  ASSUME IndexIds
  PROVE  ApicSpec => NoSignalMissed
<1>1. ASSUME ApicTypeOK, [ApicNext]_apicVars, NoneMissed, ~Moves, ~Remaps, ~Garbles
      PROVE  NoneMissed'
  <2>1. CASE ApicNext
    <3>1. Mapped'
      BY <1>1, <2>1, MappedStep DEF NoneMissed
    <3>2. ASSUME NEW w \in VCPU, hw_started'[w] # None PROVE signaled_edges'[w] # None
      <4>1. ASSUME NEW v \in VCPU, NEW a \in Base, NEW icr \in StartUp, WriteIcrLow(v, a, icr)
            PROVE  signaled_edges'[w] # None
        BY <1>1, <3>2, <4>1, SameStore, SignalType DEF NoneMissed
      <4>2. CASE \E v \in VCPU : RunBlock(v)
        BY <1>1, <3>2, <4>2 DEF RunBlock, NoneMissed, ApicTypeOK
      <4>3. ASSUME NEW v \in VCPU, NEW a \in Base, ReadIcrLow(v, a) PROVE signaled_edges'[w] # None
        <5>1. hw_icr_low[v] \in StartUp
          BY <1>1, <4>3 DEF ReadIcrLow, ApicTypeOK
        <5>2. Signal(v, hw_icr_low[v]) # None
          BY <5>1, SignalType
        <5>3. signaled_edges[w] # None
          BY <1>1, <3>2, <4>3 DEF ReadIcrLow, NoneMissed
        <5>. QED
          BY <4>3, <5>2, <5>3 DEF ReadIcrLow, AddEdges, Store
      <4>4. CASE UNCHANGED <<signaled_edges, hw_started>>
        BY <1>1, <3>2, <4>4 DEF NoneMissed
      <4>. QED
        BY <2>1, <4>1, <4>2, <4>3, <4>4 DEF ApicNext, AccessId, WriteIcrHigh, WrmsrApicBase, MapPage
    <3>. QED
      BY <3>1, <3>2 DEF NoneMissed
  <2>2. CASE UNCHANGED apicVars
    BY <1>1, <2>2 DEF apicVars, NoneMissed, Mapped, Watched
  <2>. QED
    BY <1>1, <2>1, <2>2
<1>2. ApicTypeOK /\ [ApicNext]_apicVars => [NoneMissed /\ ~Moves /\ ~Remaps /\ ~Garbles => NoneMissed']_apicVars
  BY <1>1
<1>. QED
  BY <1>2, ApicTypeCorrect, PTL DEF ApicSpec, NoSignalMissed
=============================================================================
