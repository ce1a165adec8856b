------------------------------ MODULE Profile ------------------------------
(***************************************************************************)
(* The profile library (luramas/profile): a builder that lays instructions   *)
(* out, with alternatives ("discrepancies") and labels patched in later, and *)
(* the file its map is appended to and loaded from.                         *)
(*                                                                         *)
(* Callers pass as "existing" an address an emit gave them. An instruction's *)
(* bytes are their number; its module id is the builder's and never changes. *)
(***************************************************************************)
EXTENDS Integers, Sequences, FiniteSets, SequencesExt

CONSTANTS
  Label,     \* label ids
  Lens,      \* lengths of instructions
  Kinds,     \* inst_kinds given for an instruction that refers to a label
  MaxNext,   \* bound: the builder stops emitting beyond this address
  MaxSaves,  \* bound: saves to the file
  MaxPlaced, \* bound: times a label is emitted, alternatives of an instruction
  NotLoaded  \* nothing loaded yet

ASSUME ProfileAssumption ==
  /\ Lens \subseteq Nat \ {0}
  /\ Kinds \subseteq {"normal", "jump_to", "call_to", "return_to", "memset"}
  /\ MaxNext \in Nat /\ MaxSaves \in Nat /\ MaxPlaced \in Nat

VARIABLES
  next,   \* address of the next instruction
  map,    \* address -> first instruction and discrepancies
  labels, \* label -> finalized, loc, pending
  file,   \* the maps appended to the file
  loaded, \* inst_result of the last load
  uses,   \* history: instructions that refer to a label, and how often it was placed then
  placed  \* history: label -> where it was placed, and before which instruction

profileVars == <<next, map, labels, file, loaded, uses, placed>>

NoLabel == [finalized |-> FALSE, loc |-> 0, pending |-> <<>>]

ProfileInit ==
  /\ next = 0 /\ map = <<>>
  /\ labels = [l \in Label |-> NoLabel]
  /\ file = <<>> /\ loaded = NotLoaded
  /\ uses = {} /\ placed = [l \in Label |-> <<>>]

Put(m, a, x) == [p \in DOMAIN m \cup {a} |-> IF p = a THEN x ELSE m[p]]

(* Mutants, one plausible bug each: real PCs are addresses, a label is placed *)
(* at the last instruction, only the newest reference is patched, a load     *)
(* lets the newest version of an instruction win.                           *)
RealPcIsPc == next
HereLast == IF map = <<>> THEN 0 ELSE next - 1
ToPatchNewest(l) == IF labels[l].pending = <<>> THEN {} ELSE {Last(labels[l].pending)}
VersionNewest(p) == CHOOSE n \in DOMAIN file : p \in DOMAIN file[n]
                      /\ \A k \in n + 1 .. Len(file) : p \notin DOMAIN file[k]

RealPc == Cardinality(DOMAIN map)
Here == next
ToPatch(l) == Range(labels[l].pending)
Version(p) == CHOOSE n \in DOMAIN file : p \in DOMAIN file[n]
                /\ \A k \in 1 .. n - 1 : p \notin DOMAIN file[k]

(* construct: the caller advances next. *)
Construct(len, k, loc, entry) ==
  [pc |-> next, real_pc |-> RealPc, k |-> k, loc |-> loc, len |-> len, entry |-> entry]
Locate(l) == IF labels[l].finalized THEN labels[l].loc ELSE 0
Wait(l, at, idx) ==
  IF labels[l].finalized THEN labels
  ELSE [labels EXCEPT ![l].pending = Append(@, [at |-> at, idx |-> idx])]
Use(l, at, idx) == [label |-> l, at |-> at, idx |-> idx, seen |-> Len(placed[l])]

Emit(len, entry) ==
  /\ next < MaxNext
  /\ map' = Put(map, next, [first |-> Construct(len, "normal", 0, entry), discrepancies |-> <<>>])
  /\ next' = next + len
  /\ UNCHANGED <<labels, file, loaded, uses, placed>>

(* An instruction that refers to a label. *)
EmitGoto(len, k, l) ==
  /\ next < MaxNext
  /\ map' = Put(map, next, [first |-> Construct(len, k, Locate(l), FALSE), discrepancies |-> <<>>])
  /\ next' = next + len
  /\ labels' = Wait(l, next, 0)
  /\ uses' = uses \cup {Use(l, next, 0)}
  /\ UNCHANGED <<file, loaded, placed>>

(* An alternative of an instruction, built at the next address: it takes the  *)
(* address range from the instructions after it and the real PC of the next  *)
(* one.                                                                    *)
EmitDiscrepancy(a, k, l) ==
  LET r == map[a] IN
  /\ next < MaxNext /\ a \in DOMAIN map /\ Len(r.discrepancies) < MaxPlaced
  /\ map' = [map EXCEPT ![a].discrepancies =
               Append(@, Construct(r.first.len, k, Locate(l), FALSE))]
  /\ next' = next + r.first.len
  /\ labels' = Wait(l, a, Len(r.discrepancies) + 1)
  /\ uses' = uses \cup {Use(l, a, Len(r.discrepancies) + 1)}
  /\ UNCHANGED <<file, loaded, placed>>

(* The other overload copies the instruction, its location too. *)
EmitCopy(a, k, l) ==
  LET r == map[a]
      loc == IF labels[l].finalized THEN labels[l].loc ELSE r.first.loc IN
  /\ a \in DOMAIN map /\ Len(r.discrepancies) < MaxPlaced
  /\ map' = [map EXCEPT ![a].discrepancies = Append(@, [r.first EXCEPT !.k = k, !.loc = loc])]
  /\ labels' = Wait(l, a, Len(r.discrepancies) + 1)
  /\ uses' = uses \cup {Use(l, a, Len(r.discrepancies) + 1)}
  /\ UNCHANGED <<next, file, loaded, placed>>

(* A label is placed, again if it was before: what waits for it is patched   *)
(* each time, what used it since keeps the location it had.                 *)
EmitLabel(l) ==
  LET patched(i, at, idx) == IF [at |-> at, idx |-> idx] \in ToPatch(l)
                             THEN [i EXCEPT !.loc = Here] ELSE i IN
  /\ Len(placed[l]) < MaxPlaced
  /\ map' = [a \in DOMAIN map |->
               [first |-> patched(map[a].first, a, 0),
                discrepancies |-> [n \in DOMAIN map[a].discrepancies |->
                                     patched(map[a].discrepancies[n], a, n)]]]
  /\ labels' = [labels EXCEPT ![l].finalized = TRUE, ![l].loc = Here]
  /\ placed' = [placed EXCEPT ![l] = Append(@, [loc |-> Here, before |-> RealPc])]
  /\ UNCHANGED <<next, file, loaded, uses>>

Clear ==
  /\ map # <<>>
  /\ next' = 0 /\ map' = <<>>
  /\ labels' = [l \in Label |-> NoLabel]
  /\ uses' = {} /\ placed' = [l \in Label |-> <<>>]
  /\ UNCHANGED <<file, loaded>>

(* Only jumps, calls, returns and memory sets have their location written.   *)
Written(i) == IF i.k = "normal" THEN [i EXCEPT !.loc = 0] ELSE i
Stored(r) == [first |-> Written(r.first),
              discrepancies |-> [n \in DOMAIN r.discrepancies |-> Written(r.discrepancies[n])]]

(* The file is opened to append. *)
Save ==
  /\ Len(file) < MaxSaves
  /\ file' = Append(file, [a \in DOMAIN map |-> Stored(map[a])])
  /\ UNCHANGED <<next, map, labels, loaded, uses, placed>>

Versions(r) == {r.first} \cup Range(r.discrepancies)
GoesTo(i) == i.k \in {"jump_to", "call_to", "return_to"}

(* All records count for labels and entries, the first of an address for map. *)
Load ==
  LET records == UNION {Range(file[n]) : n \in DOMAIN file}
      addresses == UNION {DOMAIN file[n] : n \in DOMAIN file} IN
  /\ loaded' = [map |-> [p \in addresses |-> file[Version(p)][p]],
                labels |-> {i.loc : i \in {j \in UNION {Versions(r) : r \in records} : GoesTo(j)}},
                entries |-> {r.first.pc : r \in {s \in records : \E i \in Versions(s) : i.entry}}]
  /\ UNCHANGED <<next, map, labels, file, uses, placed>>

ProfileNext ==
  \/ \E len \in Lens, entry \in BOOLEAN : Emit(len, entry)
  \/ \E len \in Lens, k \in Kinds, l \in Label : EmitGoto(len, k, l)
  \/ \E a \in DOMAIN map, k \in Kinds, l \in Label : EmitDiscrepancy(a, k, l)
  \/ \E a \in DOMAIN map, k \in Kinds, l \in Label : EmitCopy(a, k, l)
  \/ \E l \in Label : EmitLabel(l)
  \/ Clear
  \/ Save
  \/ Load

ProfileSpec == ProfileInit /\ [][ProfileNext]_profileVars

-----------------------------------------------------------------------------
User(u) == IF u.idx = 0 THEN map[u.at].first ELSE map[u.at].discrepancies[u.idx]
Resolved(u) == placed[u.label] # <<>>
Place(u) == placed[u.label][IF u.seen = 0 THEN Len(placed[u.label]) ELSE u.seen]

(* Whatever order instructions, alternatives and labels are emitted in, an    *)
(* instruction that refers to a label goes where the label was when it was   *)
(* emitted or, if the label came later, where it was placed last.           *)
LabelsResolved == \A u \in uses : Resolved(u) => User(u).loc = Place(u).loc

(* Instructions are numbered without a gap in the order of their addresses,  *)
(* however alternatives move the addresses.                                 *)
RealPcsInOrder ==
  /\ {map[a].first.real_pc : a \in DOMAIN map} = 0 .. Cardinality(DOMAIN map) - 1
  /\ \A a, b \in DOMAIN map : a < b => map[a].first.real_pc < map[b].first.real_pc

(* find::next: where an instruction goes. *)
Target(i) == IF GoesTo(i) THEN i.loc ELSE i.pc + i.len

(* find::next never answers a wrong instruction: from one that falls through *)
(* it is the one emitted next, from one that goes to a placed label the one  *)
(* emitted after the label. (It may find none: an alternative leaves a gap.) *)
NextIsRight ==
  /\ \A a \in DOMAIN map : LET i == map[a].first IN
       ~GoesTo(i) /\ Target(i) \in DOMAIN map => map[Target(i)].first.real_pc = i.real_pc + 1
  /\ \A u \in uses : LET i == User(u) IN
       GoesTo(i) /\ Resolved(u) /\ Target(i) \in DOMAIN map =>
         map[Target(i)].first.real_pc = Place(u).before

(* A load gives every address that was ever saved, as it was saved first,    *)
(* alternatives in their order; labels and entries cover what the map needs. *)
LoadedIsFirstSaved ==
  [][loaded' # loaded =>
       /\ DOMAIN loaded'.map = UNION {DOMAIN file[n] : n \in DOMAIN file}
       /\ \A n \in DOMAIN file, p \in DOMAIN loaded'.map :
            p \in DOMAIN file[n] /\ (\A k \in 1 .. n - 1 : p \notin DOMAIN file[k])
            => loaded'.map[p] = file[n][p]
       /\ \A p \in DOMAIN loaded'.map :
            /\ loaded'.map[p].first.entry => p \in loaded'.entries
            /\ \A i \in Versions(loaded'.map[p]) : GoesTo(i) => i.loc \in loaded'.labels]_profileVars
=============================================================================
