------------------------------ MODULE Details ------------------------------
(***************************************************************************)
(* What the profile library (luramas/profile) computes of a loaded profile:  *)
(* the order of execution with the alternatives of each instruction, and the  *)
(* search for bytes.                                                        *)
(*                                                                         *)
(* The file is read record by record. A record is an instruction where the    *)
(* builder (Profile.tla) puts it and its alternatives ("discrepancies"), built *)
(* at the next address or copied; the tool that records a program decides of  *)
(* each alternative whether it is in lane and what its bytes are. A file is   *)
(* appended to: another builder, which counts from 0 again, may have written   *)
(* the records that follow. Unordered maps are walked, and equal keys sorted,  *)
(* in any order: a result is one of a set.                                  *)
(*                                                                         *)
(* Left out: where instructions go to, and with it the labels, entry points,   *)
(* pages and externals, which none of the queries here reads.                *)
(***************************************************************************)
EXTENDS Integers, Sequences, FiniteSets, SequencesExt, Functions

CONSTANTS
  Module,     \* modules in the file
  Code,       \* the bytes of an instruction, a sequence
  AltCode(_), \* given an instruction's bytes, those of its alternatives
  Shape,      \* module -> of an alternative: inlane, and whether it is a copy
  MaxRecords, \* bound: records in the file
  MaxSaves,   \* bound: builders that wrote the records of a module
  MaxAlts     \* bound: alternatives of an instruction of each module

ASSUME DetailsAssumption ==
  /\ Code \subseteq Seq(Nat) \ {<<>>}
  /\ \A c \in Code : AltCode(c) \subseteq Seq(Nat) \ {<<>>}
  /\ Shape \in [Module -> SUBSET [inlane : BOOLEAN, copy : BOOLEAN]]
  /\ MaxRecords \in Nat /\ MaxSaves \in Nat /\ MaxAlts \in [Module -> Nat]

VARIABLES
  map,     \* module -> address -> the record loaded there (res[mid].map)
  builder, \* module -> the builder's next address, and its instructions so far
  saves,   \* module -> builders that have written records of it
  written  \* records in the file, those that load drops included

detailsVars == <<map, builder, saves, written>>

NewBuilder == [next |-> 0, size |-> 0]
DetailsInit ==
  /\ map = [m \in Module |-> <<>>]
  /\ builder = [m \in Module |-> NewBuilder]
  /\ saves = [m \in Module |-> 1]
  /\ written = 0

len(i) == Len(i.bytes)
accumulate(r) == Range(r.discrepancies) \cup {r.first}
Inst(pc, real_pc, code, did, inlane) ==
  [pc |-> pc, real_pc |-> real_pc, bytes |-> code, did |-> did, inlane |-> inlane]

(* Mutant: the instruction itself is counted with its alternatives.          *)
AlternativeFromFirst(alt, did, at, size, code) ==
  IF alt.copy THEN Inst(at, size, alt.bytes, did + 1, alt.inlane)
  ELSE Inst(at + did * Len(code), size + 1, alt.bytes, did + 1, alt.inlane)

(* An alternative takes the address range of the instruction once more and    *)
(* the real PC of the next one, or it is a copy. load numbers alternatives:   *)
(* did is the position, 0 that of an instruction that is none.               *)
Alternative(alt, did, at, size, code) ==
  IF alt.copy THEN Inst(at, size, alt.bytes, did, alt.inlane)
  ELSE Inst(at + did * Len(code), size + 1, alt.bytes, did, alt.inlane)

AltOf(m, code) == {[bytes |-> c, inlane |-> s.inlane, copy |-> s.copy] :
                     c \in AltCode(code), s \in Shape[m]}

(* One record of load: an address that is there already keeps its record.     *)
Load(m, code, alts) ==
  LET at == builder[m].next
      size == builder[m].size
      r == [first |-> Inst(at, size, code, 0, TRUE),
            discrepancies |-> [d \in DOMAIN alts |-> Alternative(alts[d], d, at, size, code)]] IN
  /\ map' = [map EXCEPT ![m] = @ @@ (at :> r)]
  /\ builder' = [builder EXCEPT ![m] =
       [next |-> at + Len(code) * (1 + Cardinality({d \in DOMAIN alts : ~alts[d].copy})),
        size |-> size + 1]]
  /\ written' = written + 1
  /\ UNCHANGED saves

(* The records that follow in the file are those of another builder.          *)
SaveAgain(m) ==
  /\ saves[m] < MaxSaves
  /\ builder[m] # NewBuilder
  /\ builder' = [builder EXCEPT ![m] = NewBuilder]
  /\ saves' = [saves EXCEPT ![m] = @ + 1]
  /\ UNCHANGED <<map, written>>

(* Bound: the alternatives of an instruction are all built, right after it, or *)
(* all copied.                                                             *)
Alike(alts) == \A d, e \in DOMAIN alts : alts[d].copy = alts[e].copy

DetailsNext ==
  \E m \in Module :
    \/ SaveAgain(m)
    \/ \E code \in Code : \E alts \in SeqOf(AltOf(m, code), MaxAlts[m]) :
         /\ written < MaxRecords
         /\ Alike(alts)
         /\ Load(m, code, alts)

DetailsSpec == DetailsInit /\ [][DetailsNext]_detailsVars

-----------------------------------------------------------------------------
Insts(m) == UNION {accumulate(r) : r \in Range(map[m])}
AllInsts == UNION {Insts(m) : m \in Module}

(* Mutant: alternatives in lane are taken for those out of lane.             *)
OutOfLaneIn(r) == SelectSeq(r.discrepancies, LAMBDA i : i.inlane)

(* find::next, of an instruction that does not go to another.                *)
lookup(m, a) == {map[m][p] : p \in DOMAIN map[m] \cap {a}}
NextOf(m, i) == lookup(m, i.pc + len(i))

(* Real PCs collide: the last version of a record wins in it, any record.     *)
WithRealPc(r, p) == SelectSeq(<<r.first>> \o r.discrepancies, LAMBDA i : i.real_pc = p)
real_pc_maps(m) ==
  LET RealPcs == {i.real_pc : i \in Insts(m)}
      Candidates(p) == {Last(WithRealPc(r, p)) :
                          r \in {s \in Range(map[m]) : WithRealPc(s, p) # <<>>}} IN
  FoldSet(LAMBDA p, maps : {f @@ (p :> i) : f \in maps, i \in Candidates(p)}, {<<>>}, RealPcs)

(* After a second save two instructions may have one real PC, in any order.   *)
RealPcOf(m, a) == map[m][a].first.real_pc
order_of_execution(m) ==
  {o \in [1 .. Cardinality(DOMAIN map[m]) -> DOMAIN map[m]] :
     /\ IsInjective(o)
     /\ \A n \in DOMAIN o \ {1} : RealPcOf(m, o[n - 1]) <= RealPcOf(m, o[n])}

(* inlane_discrepancies, of one real_pc_map: runs of alternatives in lane. It *)
(* reserves a place for a run under the PC it starts at and fills the one     *)
(* under its real PC.                                                       *)
InRun(rm, p, q) == \A x \in DOMAIN rm \cap (p .. q) : rm[x].did # 0 /\ rm[x].inlane
Heads(rm) == {p \in DOMAIN rm : InRun(rm, p, p) /\ \A q \in DOMAIN rm : q < p => ~InRun(rm, q, p)}
inlane_discrepancies(rm) ==
  [a \in Heads(rm) \cup {rm[p].pc : p \in Heads(rm)} |->
     IF a \notin Heads(rm) THEN <<>>
     ELSE LET run == {q \in DOMAIN rm : q >= a /\ InRun(rm, a, q)} IN
          [n \in 1 .. Cardinality(run) |-> rm[SetToSortSeq(run, <)[n]]]]

(* order_of_execution_organized: an instruction, its alternatives out of      *)
(* lane, the run in lane found under its address (the scope flags left out).  *)
(* After a second save the record at an alternative's address may be another   *)
(* one, with fewer alternatives: what is read behind them is undefined, and no *)
(* property here looks at it.                                               *)
OutOfLane(r) == SelectSeq(r.discrepancies, LAMBDA i : ~i.inlane)
Entry(k, i) == [k |-> k, real_pc |-> i.real_pc, pc |-> i.pc, did |-> i.did]
Known(m, disc, a) ==
  SelectSeq(IF a \in DOMAIN disc THEN disc[a] ELSE <<>>, LAMBDA i : i.pc \in DOMAIN map[m])
Indexed(m, i) ==
  LET alts == map[m][i.pc].discrepancies IN
  IF i.did \in DOMAIN alts THEN Entry("inlaned", alts[i.did])
  ELSE [k |-> "inlaned", real_pc |-> -1, pc |-> -1, did |-> i.did]
Organized(m, disc, a) ==
  LET r == map[m][a]
      out == OutOfLane(r)
      known == Known(m, disc, a)
      kind == IF out = <<>> /\ known = <<>> THEN "normal" ELSE "first" IN
  <<Entry(kind, r.first)>>
    \o [n \in DOMAIN out |-> Entry("optional", r.discrepancies[out[n].did])]
    \o [n \in DOMAIN known |-> Indexed(m, known[n])]
order_of_execution_organized(m, order, rm) ==
  LET disc == inlane_discrepancies(rm) IN
  FlattenSeq([n \in DOMAIN order |-> Organized(m, disc, order[n])])

(* real_inst::compare: 0 is the first, -1 none. *)
cmp(i, bytes, offset) ==
  offset + len(i) <= Len(bytes) /\ SubSeq(bytes, offset + 1, offset + len(i)) = i.bytes
compare(r, bytes, offset) ==
  LET hits == {d \in DOMAIN r.discrepancies : cmp(r.discrepancies[d], bytes, offset)} IN
  IF cmp(r.first, bytes, offset) THEN 0
  ELSE IF hits = {} THEN -1 ELSE CHOOSE d \in hits : \A e \in hits : d <= e

(* find::addr compares the same instruction again and again: the address it   *)
(* looks up never moves. The result of compare is used as an index counted    *)
(* from 0: it names the alternative after the one that matched, or nothing,   *)
(* and then whatever is read as a length does not count as found.           *)
Eaten(r, bytes) ==
  LET eats[offset \in 0 .. Len(bytes)] ==
        LET opt == compare(r, bytes, offset)
            after == offset + IF opt = 0 THEN len(r.first) ELSE len(r.discrepancies[opt + 1]) IN
        IF offset = Len(bytes) THEN TRUE
        ELSE /\ opt # -1
             /\ opt = 0 \/ opt + 1 \in DOMAIN r.discrepancies
             /\ after >= Len(bytes) \/ eats[after] IN
  eats[0]
addr(bytes) == UNION {{<<m, a>> : a \in {b \in DOMAIN map[m] : Eaten(map[m][b], bytes)}} :
                        m \in Module}

-----------------------------------------------------------------------------
(* Whatever order the hash map and the sort give to instructions with one      *)
(* real PC, also in a file that was saved to twice, the organized order has     *)
(* each loaded instruction once, in the order of execution, and right behind    *)
(* it each of its alternatives out of lane once (profile.hpp:227: "First       *)
(* instruction next will either be optional or inlaned").                    *)
OrganizedComplete ==
  \A m \in Module : \A order \in order_of_execution(m), rm \in real_pc_maps(m) :
    LET org == order_of_execution_organized(m, order, rm)
        IsFirst(e) == e.k \in {"first", "normal"}
        Behind(n) == {k \in n + 1 .. Len(org) : \A x \in n + 1 .. k : ~IsFirst(org[x])} IN
    /\ LET firsts == SelectSeq(org, IsFirst) IN [n \in DOMAIN firsts |-> firsts[n].pc] = order
    /\ \A n \in DOMAIN org : IsFirst(org[n]) =>
         /\ org[n].k = "first" <=> Behind(n) # {}
         /\ LET alts == map[m][org[n].pc].discrepancies
                optional == SelectSeq(SubSeq(org, n + 1, n + Cardinality(Behind(n))),
                                      LAMBDA e : e.k = "optional") IN
            /\ {e.did : e \in Range(optional)} = {d \in DOMAIN alts : ~alts[d].inlane}
            /\ \A x, y \in DOMAIN optional : x < y => optional[x].did < optional[y].did

(* A run of alternatives in lane holds addresses and numbers (profile.cpp:768), *)
(* and order_of_execution_organized looks each up again as a number into the    *)
(* record at the address (827): whichever of those with one real PC the run     *)
(* has, it finds that alternative itself, in a file written by one builder, and *)
(* in one written by several as long as alternatives have the address of their  *)
(* instruction.                                                            *)
InlanedFound ==
  \A m \in Module : \A rm \in real_pc_maps(m) :
    \/ saves[m] > 1 /\ \E a \in DOMAIN map[m] : \E i \in accumulate(map[m][a]) : i.pc # a
    \/ \A a \in DOMAIN map[m] : \A i \in Range(Known(m, inlane_discrepancies(rm), a)) :
         Indexed(m, i) = Entry("inlaned", i)

(* profile.hpp:218: "Generate inlane discrepncies {PC, {{PC, INLANE ID}, ...}}": *)
(* a run is found under the PC it starts at.                                *)
InlaneByPc ==
  \A m \in Module : \A rm \in real_pc_maps(m) :
    LET disc == inlane_discrepancies(rm) IN
    \A a \in DOMAIN disc : disc[a] # <<>> => a = disc[a][1].pc

(* profile.hpp:242: "Find address and module ID given bytes": the bytes of     *)
(* two instructions that follow one another are found.                      *)
AddrFindsBytes ==
  \A m \in Module : \A r \in Range(map[m]) :
    \A s \in NextOf(m, r.first) : addr(r.first.bytes \o s.first.bytes) # {}

(* profile.hpp:121: compare "returns module_id, 0 = first": what it returns    *)
(* for an alternative is not an index into the alternatives.                 *)
ComparedInRange ==
  \A m \in Module : \A r \in Range(map[m]) : \A i \in AllInsts :
    LET opt == compare(r, i.bytes, 0) IN opt > 0 => opt + 1 \in DOMAIN r.discrepancies
=============================================================================
