-------------------------------- MODULE Apic --------------------------------
(***************************************************************************)
(* How the plugin learns which vCPU a start-up interrupt goes to: it        *)
(* watches accesses to the local APIC page (x86::mem::access, called by      *)
(* inst::mem_write) and WRMSR to the APIC base (first_wrmsr_exec and         *)
(* wrmsr_exec in QEMU/src/archs/X86.hpp). The machine itself is external:    *)
(* each vCPU has its own APIC base, APIC id, interrupt command register and   *)
(* page tables. The base WRMSR is given is a physical address, the address    *)
(* access() is given a virtual one: the plugin compares the two, the machine   *)
(* translates the second first.                                            *)
(*                                                                         *)
(* Reading the high half of the command register back is, for the plugin,   *)
(* writing the same destination again: WriteIcrHigh stands for both.        *)
(***************************************************************************)
EXTENDS Integers, FiniteSets

CONSTANTS
  NumVcpu,     \* vCPUs are 0 .. NumVcpu - 1
  MaxCores,    \* MAX_CORES, length of map_id
  apic_id,     \* machine: APIC id of each vCPU
  Base,        \* pages: an APIC page can be moved to them (physical) and it
               \* can be accessed through them (virtual)
  Page,        \* start addresses a start-up interrupt can carry
  ResetBase,   \* 0xFEE00000, where every APIC page is after a reset
  IdReaders,   \* vCPUs whose guest accesses its APIC id register
  Pollers,     \* vCPUs whose guest reads its ICR back
  Pagers,      \* vCPUs whose guest turns paging on or changes its page tables
  None

VCPU == 0 .. NumVcpu - 1
ApicId == {apic_id[v] : v \in VCPU}
StartUp == [shorthand : {"all_but_self", "all", "self", "none"}, page : Page]

ASSUME ApicAssumption ==
  /\ NumVcpu \in Nat \ {0} /\ MaxCores \in Nat /\ NumVcpu <= MaxCores
  /\ apic_id \in [VCPU -> 0 .. 255]
  /\ \A v, w \in VCPU : apic_id[v] = apic_id[w] => v = w
  /\ ResetBase \in Base
  /\ IdReaders \subseteq VCPU /\ Pollers \subseteq VCPU /\ Pagers \subseteq VCPU
  /\ None \notin StartUp \cup [from : VCPU, target_pc : Page]

VARIABLES
  map_id,               \* the plugin's table of MAX_CORES ids
  last_target_apic_id,  \* destination each vCPU last put in its ICR
  base,                 \* the one APIC page the plugin watches
  signaled_edges,       \* pending signal of each vCPU (see Edges.tla)
  hw_base,              \* machine: APIC page of each vCPU
  hw_page,              \* machine: each vCPU's virtual pages -> physical pages
  hw_icr_high,          \* machine: destination id in each vCPU's ICR
  hw_icr_low,           \* machine: start-up interrupt in each vCPU's ICR, or None
                        \* (kept for the vCPUs that read it back)
  hw_started            \* machine: start-up interrupt each vCPU got and has
                        \* not run a block since, or None

apicVars == <<map_id, last_target_apic_id, base, signaled_edges, hw_base, hw_page,
              hw_icr_high, hw_icr_low, hw_started>>

ApicInit ==
  /\ map_id = [n \in 0 .. MaxCores - 1 |-> n]
  /\ last_target_apic_id = [v \in VCPU |-> 0]
  /\ base = ResetBase
  /\ signaled_edges = [v \in VCPU |-> None]
  /\ hw_base = [v \in VCPU |-> ResetBase]
  /\ hw_page = [v \in VCPU |-> [a \in Base |-> a]]
  /\ hw_icr_high = [v \in VCPU |-> 0]
  /\ hw_icr_low = [v \in VCPU |-> None]
  /\ hw_started = [v \in VCPU |-> None]

(* An access of v to virtual page a: access() goes on only if a is the page it *)
(* knows; the APIC is reached if a translates to where it is.              *)
Watched(a) == a = base
Reaches(v, a) == hw_page[v][a] = hw_base[v]

(* The vCPU a destination id stands for: the first index whose entry is it. *)
Lookup(raw) ==
  {idx \in 0 .. MaxCores - 1 :
     map_id[idx] = raw /\ \A k \in 0 .. idx - 1 : map_id[k] # raw}

(* Mutants, one plausible bug each: the sender is not skipped, the sender is *)
(* always skipped.                                                         *)
TargetsWithSelf(v, shorthand) ==
  CASE shorthand \in {"all_but_self", "all"} -> VCPU
    [] shorthand = "self" -> {v}
    [] shorthand = "none" -> Lookup(last_target_apic_id[v])
TargetsNeverSelf(v, shorthand) ==
  CASE shorthand \in {"all_but_self", "all", "self"} -> VCPU \ {v}
    [] shorthand = "none" -> Lookup(last_target_apic_id[v])

(* The destination field is the top byte of the register. *)
Destination(icr_high) == (icr_high \div 2^24) % 256

(* The ids by destination shorthand, as the switch in access() finds them. *)
Targets(v, shorthand) ==
  CASE shorthand = "all_but_self" -> VCPU \ {v}
    [] shorthand = "all" -> VCPU
    [] shorthand = "self" -> {v}
    [] shorthand = "none" -> Lookup(last_target_apic_id[v])

(* ... and as the machine does. *)
HwTargets(v, shorthand) ==
  CASE shorthand = "all_but_self" -> VCPU \ {v}
    [] shorthand = "all" -> VCPU
    [] shorthand = "self" -> {v}
    [] shorthand = "none" -> {w \in VCPU : apic_id[w] = hw_icr_high[v]}

(* The id register is touched: the value read is never copied out of its    *)
(* buffer, so entry 0 gets this vCPU.                                       *)
AccessId(v, a) ==
  /\ v \in IdReaders
  /\ map_id' = IF Watched(a) THEN [map_id EXCEPT ![0] = v] ELSE map_id
  /\ UNCHANGED <<last_target_apic_id, base, signaled_edges, hw_base, hw_page,
                 hw_icr_high, hw_icr_low, hw_started>>

(* The guest writes a destination where page a has the high half of an ICR.  *)
WriteIcrHigh(v, a, id) ==
  /\ hw_icr_high' = IF Reaches(v, a) THEN [hw_icr_high EXCEPT ![v] = id] ELSE hw_icr_high
  /\ last_target_apic_id' =
       IF Watched(a) THEN [last_target_apic_id EXCEPT ![v] = Destination(id * 2^24)]
       ELSE last_target_apic_id
  /\ UNCHANGED <<map_id, base, signaled_edges, hw_base, hw_page, hw_icr_low, hw_started>>

(* add_edge for every target of the start-up interrupt in icr. *)
Signal(v, icr) == [from |-> v, target_pc |-> icr.page]
Store(cell, targets, s) == [w \in VCPU |-> IF w \in targets THEN s ELSE cell[w]]
AddEdges(v, a, icr) ==
  signaled_edges' = IF Watched(a)
                    THEN Store(signaled_edges, Targets(v, icr.shorthand), Signal(v, icr))
                    ELSE signaled_edges

(* The guest writes a start-up interrupt where page a has the low half: it is *)
(* sent if a leads to the APIC; on a page of memory it is only data.         *)
WriteIcrLow(v, a, icr) ==
  /\ hw_icr_low' = IF Reaches(v, a) /\ v \in Pollers
                   THEN [hw_icr_low EXCEPT ![v] = icr] ELSE hw_icr_low
  /\ hw_started' = IF Reaches(v, a)
                   THEN Store(hw_started, HwTargets(v, icr.shorthand), Signal(v, icr))
                   ELSE hw_started
  /\ AddEdges(v, a, icr)
  /\ UNCHANGED <<map_id, last_target_apic_id, base, hw_base, hw_page, hw_icr_high>>

(* The guest reads the low half back, to wait for delivery. mem_write is     *)
(* registered for reads too, and access() cannot tell.                      *)
ReadIcrLow(v, a) ==
  /\ v \in Pollers /\ hw_icr_low[v] # None /\ Reaches(v, a)
  /\ AddEdges(v, a, hw_icr_low[v])
  /\ UNCHANGED <<map_id, last_target_apic_id, base, hw_base, hw_page, hw_icr_high,
                 hw_icr_low, hw_started>>

(* The guest writes its APIC base: the plugin's one base follows. *)
WrmsrApicBase(v, b) ==
  /\ hw_base' = [hw_base EXCEPT ![v] = b]
  /\ base' = b
  /\ UNCHANGED <<map_id, last_target_apic_id, signaled_edges, hw_page, hw_icr_high,
                 hw_icr_low, hw_started>>

(* The guest maps virtual page a to physical page p: the plugin is not told. *)
MapPage(v, a, p) ==
  /\ v \in Pagers
  /\ hw_page' = [hw_page EXCEPT ![v][a] = p]
  /\ UNCHANGED <<map_id, last_target_apic_id, base, signaled_edges, hw_base, hw_icr_high,
                 hw_icr_low, hw_started>>

(* The vCPU runs a block: tb::exec takes its pending signal. *)
RunBlock(v) ==
  /\ signaled_edges' = [signaled_edges EXCEPT ![v] = None]
  /\ hw_started' = [hw_started EXCEPT ![v] = None]
  /\ UNCHANGED <<map_id, last_target_apic_id, base, hw_base, hw_page, hw_icr_high,
                 hw_icr_low>>

ApicNext ==
  \E v \in VCPU :
    \/ \E a \in Base : \/ AccessId(v, a)
                       \/ \E id \in ApicId : WriteIcrHigh(v, a, id)
                       \/ \E icr \in StartUp : WriteIcrLow(v, a, icr)
                       \/ ReadIcrLow(v, a)
                       \/ \E p \in Base : MapPage(v, a, p)
    \/ \E b \in Base : WrmsrApicBase(v, b)
    \/ RunBlock(v)

ApicSpec == ApicInit /\ [][ApicNext]_apicVars

-----------------------------------------------------------------------------
(* Type invariant. *)
ApicTypeOK ==
  /\ map_id \in [0 .. MaxCores - 1 -> 0 .. MaxCores - 1]
  /\ last_target_apic_id \in [VCPU -> 0 .. 255]
  /\ base \in Base
  /\ signaled_edges \in [VCPU -> [from : VCPU, target_pc : Page] \cup {None}]
  /\ hw_base \in [VCPU -> Base]
  /\ hw_page \in [VCPU -> [Base -> Base]]
  /\ hw_icr_high \in [VCPU -> 0 .. 255]
  /\ hw_icr_low \in [VCPU -> StartUp \cup {None}]
  /\ hw_started \in [VCPU -> [from : VCPU, target_pc : Page] \cup {None}]

(* Each vCPU has its APIC at the one page the plugin knows, and reaches it     *)
(* through that page and no other (paging is off, or maps the page to itself); *)
(* the plugin's table of ids is the one it started with.                    *)
Mapped ==
  /\ \A v \in VCPU : /\ hw_base[v] = base
                     /\ \A a \in Base : hw_page[v][a] = base <=> Watched(a)
                     /\ last_target_apic_id[v] = hw_icr_high[v]
  /\ \A n \in DOMAIN map_id : map_id[n] = n

(* Steps after which the plugin may lose track: an APIC page moves, the page   *)
(* tables lead elsewhere from its address or to it from elsewhere, a vCPU      *)
(* other than 0 touches its id register, or a guest reads its ICR back.       *)
Moves == \E v \in VCPU, b \in Base : WrmsrApicBase(v, b) /\ b # hw_base[v]
Remaps == \E v \in VCPU, a, p \in Base : MapPage(v, a, p) /\ ~(Watched(a) <=> p = base)
Garbles == \E v \in VCPU \ {0} : AccessId(v, base)
Polls == \E v \in VCPU, a \in Base : ReadIcrLow(v, a)

(* X86.hpp:93 "Specific VCPU" and :22 "Map VCPUs IDs": from any state,       *)
(* however reached, in which plugin and machine agree, every later start-up  *)
(* interrupt leaves its signal at exactly the vCPUs the machine starts, the  *)
(* newest one winning at both, until a step that makes it lose track. (The    *)
(* plugin compares a virtual address with a physical one: where paging maps    *)
(* the APIC to another address it sees none of its interrupts.)              *)
InSync == Mapped /\ \A v \in VCPU : signaled_edges[v] = hw_started[v]
SyncKept == [][InSync /\ ~Moves /\ ~Remaps /\ ~Garbles /\ ~Polls => InSync']_apicVars

(* Reading ICRs back can only add signals: a vCPU that was started and has   *)
(* not run a block since has a signal pending, from whoever.                *)
NoneMissed == Mapped /\ \A v \in VCPU : hw_started[v] # None => signaled_edges[v] # None
NoSignalMissed == [][NoneMissed /\ ~Moves /\ ~Remaps /\ ~Garbles => NoneMissed']_apicVars
=============================================================================
