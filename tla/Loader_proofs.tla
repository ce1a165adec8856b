--------------------------- MODULE Loader_proofs ---------------------------
(***************************************************************************)
(* Proofs about Loader, for every set of vCPUs and blocks, every content of   *)
(* the files, every point at which the emulator is killed and every order in  *)
(* which the program opens the files.                                       *)
(***************************************************************************)
EXTENDS Loader, FiniteSetTheorems, SequenceTheorems, WellFoundedInduction, TLAPS

(* Records as they are written to a file: blocks, interrupts and states in   *)
(* the main one, edge sets in the others. Of the last one the end may be      *)
(* missing.                                                                 *)
BlockItems(b) == [n \in 1 .. Length[b] |-> <<b, n>>]
AnyItem == Inst \cup Interrupt \cup State \cup SUBSET Edge
AnyRecord == [type : {"block", "interrupts", "vcpu_states", "edge_map"},
              items : Seq(AnyItem), stored : Int]
IsMain(r) ==
  \/ r.type = "block" /\ \E b \in Block : r.items = BlockItems(b)
  \/ r.type = "interrupts" /\ r.items \in Seq(Interrupt)
  \/ r.type = "vcpu_states" /\ r.items \in Seq(State)
IsEdges(r) == r.type = "edge_map" /\ \E es \in SUBSET Edge : r.items = <<es>>
MainRecord == {r \in AnyRecord : IsMain(r) /\ r.items # <<>> /\ r.stored \in -1 .. Len(r.items)}
EdgeRecord == {r \in AnyRecord : IsEdges(r) /\ r.stored \in -1 .. Len(r.items)}
FileRecord(f) == IF f = save THEN MainRecord ELSE EdgeRecord

(* The blocks in the main file, none of them written twice. *)
BlocksIn(s) == {s[n].items : n \in {m \in DOMAIN s : s[m].type = "block"}}
BlocksOnce(s) ==
  \A m, n \in DOMAIN s :
    s[m].type = "block" /\ s[n].type = "block" /\ s[m].items = s[n].items => m = n

DiskInv ==
  /\ disk = [f \in File |-> disk[f]]
  /\ \A f \in File : disk[f] \in Seq(FileRecord(f))
  /\ \A f \in File : \A n \in DOMAIN disk[f] :
       Whole(disk[f][n]) \/ (killed /\ n = Len(disk[f]))
  /\ BlocksOnce(disk[save])
  /\ unsaved \subseteq Block
  /\ stage = "run" => BlocksIn(disk[save]) \subseteq {BlockItems(b) : b \in Block \ unsaved}

(* Before the program starts it has loaded nothing. *)
NothingLoaded ==
  /\ interrupts = <<>> /\ block_states = <<>> /\ edge_map = {}
  /\ block_map = [k \in Key |-> None]

(* The records of a file that the program has read. *)
Read(f) == IF f \in left THEN 0 ELSE IF f = file THEN pos - 1 ELSE Len(disk[f])

StageInv ==
  /\ killed \in BOOLEAN
  /\ stage \in {"run", "load", "done", "crashed"}
  /\ stage = "run" => ~killed /\ left = File /\ file = None /\ NothingLoaded
  /\ left \subseteq File /\ file \in File \cup {None} /\ file \notin left
  /\ pos \in Nat /\ good \in BOOLEAN
  /\ file # None => pos \in 1 .. Len(disk[file]) + 1
  /\ file # None /\ ~good => pos = Len(disk[file]) + 1
  /\ stage = "done" => left = {} /\ file = None
  /\ stage = "crashed" => killed /\ CutShort

(* What was read of the interrupts, or of the states, is the whole items of   *)
(* the records read; only the last record of a cut file leaves blanks.       *)
Part(r, type) == IF r.type = type /\ r.stored > 0 THEN SubSeq(r.items, 1, r.stored) ELSE <<>>
Stored(type, n) == FlattenSeq([k \in 1 .. n |-> Part(disk[save][k], type)])
IsRead(type, out) ==
  \E n \in Nat : /\ n = 0 \/ (killed /\ Read(save) = Len(disk[save]))
                 /\ out = Stored(type, Read(save)) \o Blanks(n)
ItemsInv == IsRead("interrupts", interrupts) /\ IsRead("vcpu_states", block_states)

EdgesInv ==
  \A e : e \in edge_map <=>
    \E v \in VCPU : \E n \in 1 .. Read(v) : Whole(disk[v][n]) /\ e \in disk[v][n].items[1]

(* Every block that was read whole is under its key, if it ran, but for one   *)
(* at most that the record the cut went through replaced.                   *)
Ran(r) == r.type = "block" /\ r.items[1] \in Executed /\ real_pc[r.items[1]] # 0
FoundBut(gone) ==
  \A n \in 1 .. Read(save) :
    Ran(disk[save][n]) /\ Whole(disk[save][n]) /\ real_pc[disk[save][n].items[1]] # gone =>
      block_map[real_pc[disk[save][n].items[1]]] = disk[save][n].items
BlocksInv ==
  /\ block_map = [k \in Key |-> block_map[k]]
  /\ \E gone \in {0} \cup TornPcs(Read(save)) : FoundBut(gone)
  /\ ~killed => \A k \in Key : block_map[k] # None => Blank \notin Range(block_map[k])

LoaderInv == DiskInv /\ StageInv /\ ItemsInv /\ EdgesInv /\ BlocksInv

-----------------------------------------------------------------------------
(* What holds of 0 and passes from each number to the next holds of all:      *)
(* stated of sets, where the library's induction is stated of operators.     *)

LEMMA LeastNumber ==
  ASSUME NEW T \in SUBSET Nat, T # {}
  PROVE  \E x \in T : \A y \in T : x <= y
<1> DEFINE R == OpToRel(<, Nat)
<1>1. IsWellFoundedOn(R, Nat)
  BY NatLessThanWellFounded
<1>2. \A x, y \in Nat : <<y, x>> \in R <=> y < x
  BY DEF OpToRel
<1> HIDE DEF R
<1>3. PICK x \in T : \A y \in T : ~(<<y, x>> \in R)
  BY <1>1, WFMin
<1>4. \A y \in T : x \in Nat /\ y \in Nat /\ ~(y < x)
  BY <1>2, <1>3
<1>5. \A y \in T : x <= y
  BY <1>4
<1> QED
  BY <1>5

LEMMA NumberInduction ==
  ASSUME NEW S, 0 \in S, \A n \in Nat : n \in S => n + 1 \in S
  PROVE  Nat \subseteq S
<1> SUFFICES ASSUME NEW b \in Nat, b \notin S
             PROVE  FALSE
  OBVIOUS
<1> DEFINE T == {n \in Nat : n \notin S}
<1>1. PICK x \in T : \A y \in T : x <= y
  <2>1. b \in T
    OBVIOUS
  <2>2. T \in SUBSET Nat /\ T # {}
    BY <2>1
  <2> QED
    BY <2>2, LeastNumber
<1>2. x # 0 /\ x \in Nat /\ x \notin S
  OBVIOUS
<1>3. x - 1 \in Nat /\ x - 1 \in S
  BY <1>1, <1>2
<1> QED
  BY <1>2, <1>3

(* Sequences of sequences: what they are made of, and how two are joined. *)
Vec(S) == Seq(S)
Parts(S) == Seq(Seq(S))

LEMMA PartsAre ==
  ASSUME NEW S, NEW s \in Parts(S)
  PROVE  /\ Len(s) \in Nat /\ DOMAIN s = 1 .. Len(s)
         /\ \A i \in 1 .. Len(s) : s[i] \in Vec(S)
  BY LenProperties, ElementOfSeq DEF Parts, Vec

LEMMA Concat ==
  ASSUME NEW S, NEW a \in Vec(S), NEW b \in Vec(S)
  PROVE  a \o b \in Vec(S) /\ <<>> \o a = a /\ a \o <<>> = a /\ <<>> \in Vec(S)
  BY ConcatProperties, ConcatEmptySeq, EmptySeq DEF Vec

(* The parts joined one by one. *)
Joins(S, s) ==
  {f \in [0 .. Len(s) -> Vec(S)] : /\ f[0] = <<>>
                                   /\ \A i \in 0 .. Len(s) - 1 : f[i + 1] = f[i] \o s[i + 1]}

(* FlattenSeq gives the last of them. *)
LEMMA FlattenAt ==
  ASSUME NEW S, NEW s \in Parts(S), NEW f \in Joins(S, s)
  PROVE  FlattenSeq(s) = f[Len(s)]
<1> DEFINE n == Len(s)
           flat == CHOOSE g : g = [i \in 1 .. n |-> IF i = 1 THEN s[i] ELSE g[i - 1] \o s[i]]
<1>0. /\ n \in Nat /\ f \in [0 .. n -> Vec(S)] /\ f[0] = <<>>
      /\ \A i \in 0 .. n - 1 : f[i + 1] = f[i] \o s[i + 1]
      /\ \A i \in 1 .. n : s[i] \in Vec(S)
  BY PartsAre DEF Joins
<1>1. n = 0 => FlattenSeq(s) = f[n]
  <2>1. n = 0 => s = <<>>
    BY EmptySeq DEF Parts
  <2> QED
    BY <1>0, <2>1 DEF FlattenSeq
<1>2. ASSUME n # 0 PROVE FlattenSeq(s) = f[n]
  <2> DEFINE h == [i \in 1 .. n |-> f[i]]
  <2>1. h = [i \in 1 .. n |-> IF i = 1 THEN s[i] ELSE h[i - 1] \o s[i]]
    <3>1. ASSUME NEW i \in 1 .. n PROVE f[i] = IF i = 1 THEN s[i] ELSE h[i - 1] \o s[i]
      <4>1. i - 1 \in 0 .. n - 1 /\ (i - 1) + 1 = i
        BY <1>0
      <4>2. f[i] = f[i - 1] \o s[i] /\ s[i] \in Vec(S)
        BY <1>0, <4>1
      <4>3. CASE i = 1
        <5>1. f[i] = <<>> \o s[i]
          <6>1. i - 1 = 0
            BY <4>3
          <6> QED
            BY <1>0, <4>2, <6>1
        <5> QED
          BY <4>2, <4>3, <5>1, Concat
      <4>4. CASE i # 1
        <5>1. i - 1 \in 1 .. n
          BY <1>0, <4>4
        <5>2. h[i - 1] = f[i - 1]
          BY <5>1
        <5> QED
          BY <4>2, <4>4, <5>2
      <4> QED
        BY <4>3, <4>4
    <3> QED
      BY <3>1
  <2> HIDE DEF h
  <2>2. flat = [i \in 1 .. n |-> IF i = 1 THEN s[i] ELSE flat[i - 1] \o s[i]]
    BY <2>1
  <2>3. FlattenSeq(s) = flat[n]
    BY <1>2 DEF FlattenSeq
  <2> HIDE DEF flat
  <2>4. flat[1] = s[1] /\ \A i \in 1 .. n - 1 : flat[i + 1] = flat[i] \o s[i + 1]
    <3>1. \A i \in 1 .. n : flat[i] = IF i = 1 THEN s[i] ELSE flat[i - 1] \o s[i]
      BY <2>2
    <3>2. ASSUME NEW i \in 1 .. n - 1 PROVE flat[i + 1] = flat[i] \o s[i + 1]
      <4>1. i + 1 \in 1 .. n /\ i + 1 # 1 /\ (i + 1) - 1 = i
        BY <1>0
      <4> QED
        BY <3>1, <4>1, Zenon
    <3>3. 1 \in 1 .. n
      BY <1>0, <1>2
    <3> QED
      BY <3>1, <3>2, <3>3
  <2> DEFINE T == {i \in Nat : i + 1 \in 1 .. n => flat[i + 1] = f[i + 1]}
  <2>5. Nat \subseteq T
    <3>1. 0 \in T
      <4>1. 0 \in 0 .. n - 1 /\ 1 \in 1 .. n /\ 0 + 1 = 1
        BY <1>0, <1>2
      <4>2. f[1] = <<>> \o s[1] /\ s[1] \in Vec(S)
        BY <1>0, <4>1
      <4>3. f[1] = s[1]
        BY <4>2, Concat
      <4> QED
        BY <2>4, <4>1, <4>3
    <3>2. ASSUME NEW i \in Nat, i \in T PROVE i + 1 \in T
      <4> SUFFICES ASSUME (i + 1) + 1 \in 1 .. n PROVE flat[(i + 1) + 1] = f[(i + 1) + 1]
        OBVIOUS
      <4>1. i + 1 \in 0 .. n - 1 /\ i + 1 \in 1 .. n - 1 /\ i + 1 \in 1 .. n
        BY <1>0
      <4>2. flat[i + 1] = f[i + 1]
        BY <3>2, <4>1
      <4>3. f[(i + 1) + 1] = f[i + 1] \o s[(i + 1) + 1]
        BY <1>0, <4>1, Zenon
      <4>4. flat[(i + 1) + 1] = flat[i + 1] \o s[(i + 1) + 1]
        BY <2>4, <4>1, Zenon
      <4> QED
        BY <4>2, <4>3, <4>4
    <3> HIDE DEF T
    <3> QED
      BY <3>1, <3>2, NumberInduction
  <2>6. n - 1 \in Nat /\ (n - 1) + 1 = n /\ n \in 1 .. n
    BY <1>0, <1>2
  <2>7. flat[n] = f[n]
    <3>1. (n - 1) + 1 \in 1 .. n => flat[(n - 1) + 1] = f[(n - 1) + 1]
      BY <2>5, <2>6
    <3> QED
      BY <2>6, <3>1
  <2> QED
    BY <2>3, <2>7
<1> QED
  BY <1>1, <1>2

LEMMA JoinsExist == ASSUME NEW S, NEW s \in Parts(S) PROVE \E f : f \in Joins(S, s)
<1> DEFINE J(n) == {f \in [0 .. n -> Vec(S)] :
                      f[0] = <<>> /\ \A i \in 0 .. n - 1 : f[i + 1] = f[i] \o s[i + 1]}
           T == {n \in Nat : n <= Len(s) => J(n) # {}}
<1>0. Len(s) \in Nat /\ \A i \in 1 .. Len(s) : s[i] \in Vec(S)
  BY PartsAre
<1>1. 0 \in T
  <2>1. <<>> \in Vec(S)
    BY EmptySeq DEF Vec
  <2>2. [i \in 0 .. 0 |-> <<>>] \in J(0)
    BY <2>1
  <2> QED
    BY <2>2
<1>2. ASSUME NEW n \in Nat, n \in T PROVE n + 1 \in T
  <2> HIDE DEF J
  <2> SUFFICES ASSUME n + 1 <= Len(s) PROVE J(n + 1) # {}
    OBVIOUS
  <2>1. J(n) # {}
    <3>1. n <= Len(s)
      BY <1>0
    <3> QED
      BY <1>2, <3>1
  <2> USE DEF J
  <2>2. PICK f \in [0 .. n -> Vec(S)] :
          f[0] = <<>> /\ \A i \in 0 .. n - 1 : f[i + 1] = f[i] \o s[i + 1]
    BY <2>1
  <2> DEFINE g == [i \in 0 .. n + 1 |-> IF i = n + 1 THEN f[n] \o s[n + 1] ELSE f[i]]
  <2>3. f[n] \in Vec(S) /\ s[n + 1] \in Vec(S)
    BY <1>0, <2>2
  <2>4. f[n] \o s[n + 1] \in Vec(S)
    BY <2>3, Concat
  <2>5. g \in [0 .. n + 1 -> Vec(S)] /\ g[0] = <<>>
    BY <2>2, <2>4
  <2>6. ASSUME NEW i \in 0 .. n PROVE g[i + 1] = g[i] \o s[i + 1]
    <3>0. i \in 0 .. n + 1 /\ i + 1 \in 0 .. n + 1 /\ i # n + 1 /\ g[i] = f[i]
      OBVIOUS
    <3>1. CASE i = n
      BY <3>0, <3>1
    <3>2. CASE i # n
      <4>1. i \in 0 .. n - 1 /\ i + 1 # n + 1
        BY <3>2
      <4>2. g[i + 1] = f[i + 1]
        BY <3>0, <4>1
      <4>3. f[i + 1] = f[i] \o s[i + 1]
        BY <2>2, <4>1
      <4> QED
        BY <3>0, <4>2, <4>3
    <3> QED
      BY <3>1, <3>2
  <2> HIDE DEF g
  <2>7. (n + 1) - 1 = n
    OBVIOUS
  <2>8. g \in J(n + 1)
    BY <2>5, <2>6, <2>7
  <2> QED
    BY <2>8
<1> HIDE DEF J
<1>3. Len(s) \in T
  <2> HIDE DEF T
  <2> QED
    BY <1>0, <1>1, <1>2, NumberInduction
<1>4. J(Len(s)) # {}
  BY <1>0, <1>3
<1> QED
  BY <1>4 DEF J, Joins

(* What follows of FlattenSeq: its type, how it grows, what is in it. *)
LEMMA FlattenType ==
  ASSUME NEW S, NEW s \in Parts(S)
  PROVE  FlattenSeq(s) \in Vec(S)
<1>1. PICK f : f \in Joins(S, s)
  BY JoinsExist
<1>2. f[Len(s)] \in Vec(S)
  <2>1. Len(s) \in 0 .. Len(s)
    BY PartsAre
  <2> QED
    BY <1>1, <2>1 DEF Joins
<1> QED
  BY <1>1, <1>2, FlattenAt

LEMMA FlattenAppend ==
  ASSUME NEW S, NEW s \in Parts(S), NEW x \in Vec(S)
  PROVE  FlattenSeq(Append(s, x)) = FlattenSeq(s) \o x /\ Append(s, x) \in Parts(S)
<1> DEFINE t == Append(s, x)
           n == Len(s)
<1>1. /\ t \in Parts(S) /\ n \in Nat /\ Len(t) = n + 1 /\ t[n + 1] = x
      /\ \A i \in 1 .. n : t[i] = s[i]
  BY AppendProperties DEF Parts, Vec
<1> HIDE DEF t
<1>2. PICK g : g \in Joins(S, t)
  BY <1>1, JoinsExist
<1>3. /\ g \in [0 .. n + 1 -> Vec(S)] /\ g[0] = <<>>
      /\ \A i \in 0 .. n : g[i + 1] = g[i] \o t[i + 1]
  <2>1. Len(t) - 1 = n
    BY <1>1
  <2> QED
    BY <1>1, <1>2, <2>1 DEF Joins
<1> DEFINE f == [i \in 0 .. n |-> g[i]]
<1>4. f \in Joins(S, s) /\ f[n] = g[n]
  <2>1. f \in [0 .. n -> Vec(S)] /\ f[0] = <<>> /\ f[n] = g[n]
    BY <1>1, <1>3
  <2>2. ASSUME NEW i \in 0 .. n - 1 PROVE f[i + 1] = f[i] \o s[i + 1]
    <3>1. i \in 0 .. n /\ i + 1 \in 0 .. n /\ i + 1 \in 1 .. n
      BY <1>1
    <3>2. f[i] = g[i] /\ f[i + 1] = g[i + 1] /\ t[i + 1] = s[i + 1]
      BY <1>1, <3>1
    <3>3. g[i + 1] = g[i] \o t[i + 1]
      BY <1>3, <3>1
    <3> QED
      BY <3>2, <3>3
  <2> HIDE DEF f
  <2> QED
    BY <2>1, <2>2 DEF Joins
<1> HIDE DEF f
<1>5. FlattenSeq(s) = g[n] /\ FlattenSeq(t) = g[n + 1]
  <2>1. FlattenSeq(s) = f[n]
    BY <1>4, FlattenAt
  <2>2. FlattenSeq(t) = g[Len(t)]
    BY <1>1, <1>2, FlattenAt
  <2> QED
    BY <1>1, <1>4, <2>1, <2>2
<1>6. g[n + 1] = g[n] \o x
  <2>1. n \in 0 .. n
    BY <1>1
  <2> QED
    BY <1>1, <1>3, <2>1
<1> QED
  BY <1>1, <1>5, <1>6 DEF t

LEMMA FlattenEmpty == ASSUME NEW S PROVE FlattenSeq(<<>>) = <<>> /\ <<>> \in Parts(S)
  BY EmptySeq DEF FlattenSeq, Parts

(* The elements of the whole are those of the parts. *)
LEMMA RangeConcat ==
  ASSUME NEW S, NEW a \in Vec(S), NEW b \in Vec(S)
  PROVE  Range(a \o b) = Range(a) \cup Range(b)
<1>1. /\ Len(a) \in Nat /\ Len(b) \in Nat /\ DOMAIN a = 1 .. Len(a) /\ DOMAIN b = 1 .. Len(b)
      /\ DOMAIN (a \o b) = 1 .. Len(a) + Len(b)
      /\ \A i \in 1 .. Len(a) + Len(b) :
           (a \o b)[i] = IF i <= Len(a) THEN a[i] ELSE b[i - Len(a)]
  BY ConcatProperties, LenProperties DEF Vec
<1> DEFINE c == a \o b
<1> HIDE DEF c
<1>2. \A i \in DOMAIN c : c[i] \in Range(a) \cup Range(b)
  <2> SUFFICES ASSUME NEW i \in 1 .. Len(a) + Len(b) PROVE c[i] \in Range(a) \cup Range(b)
    BY <1>1 DEF c
  <2>1. CASE i <= Len(a)
    <3>1. i \in DOMAIN a /\ c[i] = a[i]
      BY <1>1, <2>1 DEF c
    <3> QED
      BY <3>1 DEF Range
  <2>2. CASE ~(i <= Len(a))
    <3>1. i - Len(a) \in DOMAIN b /\ c[i] = b[i - Len(a)]
      BY <1>1, <2>2 DEF c
    <3> QED
      BY <3>1 DEF Range
  <2> QED
    BY <2>1, <2>2
<1>3. \A i \in DOMAIN a : i \in DOMAIN c /\ c[i] = a[i]
  BY <1>1 DEF c
<1>4. ASSUME NEW i \in DOMAIN b PROVE b[i] \in Range(c)
  <2>1. Len(a) + i \in 1 .. Len(a) + Len(b) /\ ~(Len(a) + i <= Len(a)) /\ (Len(a) + i) - Len(a) = i
    BY <1>1
  <2>2. Len(a) + i \in DOMAIN c /\ c[Len(a) + i] = b[i]
    BY <1>1, <2>1 DEF c
  <2> QED
    BY <2>2 DEF Range
<1>5. Range(c) = Range(a) \cup Range(b)
  BY <1>2, <1>3, <1>4 DEF Range
<1> QED
  BY <1>5 DEF c

LEMMA FlattenRange ==
  ASSUME NEW S, NEW s \in Parts(S)
  PROVE  Range(FlattenSeq(s)) = UNION {Range(s[i]) : i \in DOMAIN s}
<1>1. PICK f : f \in Joins(S, s)
  BY JoinsExist
<1>2. /\ f \in [0 .. Len(s) -> Vec(S)] /\ f[0] = <<>> /\ Len(s) \in Nat
      /\ \A i \in 0 .. Len(s) - 1 : f[i + 1] = f[i] \o s[i + 1]
      /\ \A i \in 1 .. Len(s) : s[i] \in Vec(S)
      /\ DOMAIN s = 1 .. Len(s)
  BY <1>1, PartsAre DEF Joins
<1> DEFINE T == {n \in Nat : n \in 0 .. Len(s) => Range(f[n]) = UNION {Range(s[i]) : i \in 1 .. n}}
<1>3. 0 \in T
  BY <1>2 DEF Range
<1>4. ASSUME NEW n \in Nat, n \in T PROVE n + 1 \in T
  <2> SUFFICES ASSUME n + 1 \in 0 .. Len(s)
               PROVE  Range(f[n + 1]) = UNION {Range(s[i]) : i \in 1 .. n + 1}
    OBVIOUS
  <2>0. n \in 0 .. Len(s) - 1 /\ n + 1 \in 1 .. Len(s) /\ n \in 0 .. Len(s)
    BY <1>2
  <2>1. f[n + 1] = f[n] \o s[n + 1] /\ f[n] \in Vec(S) /\ s[n + 1] \in Vec(S)
    BY <1>2, <2>0
  <2>2. Range(f[n + 1]) = Range(f[n]) \cup Range(s[n + 1])
    BY <2>1, RangeConcat
  <2>3. Range(f[n]) = UNION {Range(s[i]) : i \in 1 .. n}
    BY <1>4, <2>0
  <2>4. 1 .. n + 1 = (1 .. n) \cup {n + 1}
    OBVIOUS
  <2> DEFINE K == 1 .. n
  <2> HIDE DEF K
  <2>5. UNION {Range(s[i]) : i \in K \cup {n + 1}} = (UNION {Range(s[i]) : i \in K}) \cup Range(s[n + 1])
    OBVIOUS
  <2> USE DEF K
  <2> QED
    BY <2>2, <2>3, <2>4, <2>5
<1>5. Len(s) \in T
  <2> HIDE DEF T
  <2> QED
    BY <1>2, <1>3, <1>4, NumberInduction
<1>6. Range(f[Len(s)]) = UNION {Range(s[i]) : i \in 1 .. Len(s)}
  BY <1>2, <1>5
<1> QED
  BY <1>1, <1>2, <1>6, FlattenAt

-----------------------------------------------------------------------------
(* What the writers write: whole records, of a block no second one. *)
WholeRecord(f) == {r \in FileRecord(f) : Whole(r)}

LEMMA RecordIs ==
  ASSUME NEW f \in File, NEW r \in FileRecord(f)
  PROVE  /\ Len(r.items) \in Nat /\ Len(r.items) # 0 /\ r.items # <<>>
         /\ r.stored \in -1 .. Len(r.items)
         /\ r.type \in {"block", "interrupts", "vcpu_states", "edge_map"}
         /\ r = [type |-> r.type, items |-> r.items, stored |-> r.stored]
         /\ r.items \in Seq(AnyItem)
<1>1. r \in AnyRecord /\ r.stored \in -1 .. Len(r.items)
  BY DEF FileRecord, MainRecord, EdgeRecord
<1>2. r.items # <<>>
  <2>1. CASE f = save
    BY <2>1 DEF FileRecord, MainRecord
  <2>2. CASE f # save
    <3>1. PICK es : r.items = <<es>>
      BY <2>2 DEF FileRecord, EdgeRecord, IsEdges
    <3> QED
      BY <3>1
  <2> QED
    BY <2>1, <2>2
<1>3. r.items \in Seq(AnyItem)
  BY <1>1 DEF AnyRecord
<1>4. Len(r.items) \in Nat /\ Len(r.items) # 0
  BY <1>2, <1>3, EmptySeq
<1> QED
  BY <1>1, <1>2, <1>3, <1>4 DEF AnyRecord

LEMMA BlockItemsAre ==
  ASSUME NEW b \in Block
  PROVE  /\ BlockItems(b) \in Seq(Inst) /\ Len(BlockItems(b)) = Length[b]
         /\ Length[b] \in Nat \ {0} /\ BlockItems(b)[1] = <<b, 1>> /\ BlockItems(b) # <<>>
<1>1. Length[b] \in Nat \ {0}
  BY LoaderAssumption DEF LoaderAssumption
<1>2. \A n \in 1 .. Length[b] : <<b, n>> \in Inst
  BY DEF Inst
<1>3. BlockItems(b) \in [1 .. Length[b] -> Inst]
  BY <1>2 DEF BlockItems
<1>4. BlockItems(b) \in Seq(Inst) /\ Len(BlockItems(b)) = Length[b]
  BY <1>1, <1>3
<1>5. BlockItems(b)[1] = <<b, 1>>
  BY <1>1 DEF BlockItems
<1>6. BlockItems(b) # <<>>
  BY <1>1, <1>4, EmptySeq
<1> QED
  BY <1>1, <1>4, <1>5, <1>6

LEMMA FirstInst == ASSUME NEW b \in Block PROVE <<b, 1>> \in Inst
<1>1. 1 \in 1 .. Length[b]
  BY BlockItemsAre
<1>2. <<b, 1>> \in {b} \X (1 .. Length[b])
  BY <1>1
<1> QED
  BY <1>2 DEF Inst

LEMMA BlockItemsDiffer ==
  ASSUME NEW b \in Block, NEW c \in Block, BlockItems(b) = BlockItems(c)
  PROVE  b = c
  BY BlockItemsAre

(* A non-empty vector is one whole record. *)
LEMMA MainWritten ==
  ASSUME NEW r, r \in {Record("block", BlockItems(b)) : b \in Block}
                \/ (\E x \in Seq(Interrupt) \ {<<>>} : r = Record("interrupts", x))
                \/ (\E x \in Seq(State) \ {<<>>} : r = Record("vcpu_states", x))
  PROVE  r \in WholeRecord(save)
<1>1. Seq(Inst) \subseteq Seq(AnyItem) /\ Seq(Interrupt) \subseteq Seq(AnyItem)
      /\ Seq(State) \subseteq Seq(AnyItem)
  BY SeqMonotonic DEF AnyItem
<1>2. CASE \E b \in Block : r = Record("block", BlockItems(b))
  <2>1. PICK b \in Block : r = Record("block", BlockItems(b))
    BY <1>2
  <2> DEFINE x == BlockItems(b)
  <2>2. x \in Seq(AnyItem) /\ x # <<>> /\ Len(x) \in Nat
    BY <1>1, BlockItemsAre
  <2>3. r.type = "block" /\ r.items = x /\ r.stored = Len(x) /\ r \in AnyRecord
    BY <2>1, <2>2 DEF Record, AnyRecord
  <2>4. IsMain(r)
    BY <2>3 DEF IsMain
  <2> HIDE DEF x
  <2> QED
    BY <2>2, <2>3, <2>4 DEF WholeRecord, FileRecord, MainRecord, Whole
<1>3. ASSUME NEW S \in {Interrupt, State}, NEW x \in Seq(S) \ {<<>>}, NEW t,
             r = Record(t, x),
             (t = "interrupts" /\ S = Interrupt) \/ (t = "vcpu_states" /\ S = State)
      PROVE  r \in WholeRecord(save)
  <2>1. x \in Seq(AnyItem) /\ x # <<>> /\ Len(x) \in Nat
    BY <1>1, <1>3
  <2>2. r.type = t /\ r.items = x /\ r.stored = Len(x) /\ r \in AnyRecord
    BY <1>3, <2>1 DEF Record, AnyRecord
  <2>3. IsMain(r)
    BY <1>3, <2>2 DEF IsMain
  <2> QED
    BY <2>1, <2>2, <2>3 DEF WholeRecord, FileRecord, MainRecord, Whole
<1> QED
  BY <1>2, <1>3

LEMMA EdgesWritten ==
  ASSUME NEW v \in VCPU, NEW es \in SUBSET Edge
  PROVE  WriteEdges(es) \in Seq(WholeRecord(v))
<1>1. v # save
  BY LoaderAssumption DEF LoaderAssumption
<1> DEFINE r == Record("edge_map", <<es>>)
<1>2. <<es>> \in Seq(AnyItem) /\ Len(<<es>>) = 1 /\ <<es>> # <<>>
  BY DEF AnyItem
<1>3. r.type = "edge_map" /\ r.items = <<es>> /\ r.stored = 1 /\ r \in AnyRecord
  BY <1>2 DEF Record, AnyRecord
<1>5. WriteEdges(es) = IF es = {} THEN <<>> ELSE <<r>>
  BY <1>2 DEF WriteEdges, Write
<1> HIDE DEF r
<1>4. r \in WholeRecord(v)
  <2>1. IsEdges(r) /\ Whole(r) /\ r.stored \in -1 .. Len(r.items)
    BY <1>2, <1>3 DEF IsEdges, Whole
  <2> QED
    BY <1>1, <1>3, <2>1 DEF WholeRecord, FileRecord, EdgeRecord
<1> QED
  BY <1>4, <1>5, EmptySeq

(* Concatenation, by index. *)
LEMMA Elements ==
  ASSUME NEW S, NEW a \in Seq(S), NEW b \in Seq(S)
  PROVE  /\ a \o b \in Seq(S)
         /\ DOMAIN a = 1 .. Len(a) /\ DOMAIN b = 1 .. Len(b) /\ Len(a) \in Nat /\ Len(b) \in Nat
         /\ Len(a \o b) = Len(a) + Len(b) /\ DOMAIN (a \o b) = 1 .. Len(a) + Len(b)
         /\ \A i \in 1 .. Len(a) : (a \o b)[i] = a[i] /\ a[i] \in S
         /\ \A i \in Len(a) + 1 .. Len(a) + Len(b) :
              (a \o b)[i] = b[i - Len(a)] /\ i - Len(a) \in 1 .. Len(b) /\ b[i - Len(a)] \in S
<1>1. /\ Len(a) \in Nat /\ Len(b) \in Nat /\ DOMAIN a = 1 .. Len(a) /\ DOMAIN b = 1 .. Len(b)
      /\ \A i \in 1 .. Len(a) : a[i] \in S
      /\ \A i \in 1 .. Len(b) : b[i] \in S
  BY LenProperties, ElementOfSeq
<1> DEFINE c == a \o b
<1>2. /\ c \in Seq(S) /\ Len(c) = Len(a) + Len(b)
      /\ \A i \in 1 .. Len(a) + Len(b) : c[i] = IF i <= Len(a) THEN a[i] ELSE b[i - Len(a)]
  BY ConcatProperties
<1> HIDE DEF c
<1>3. DOMAIN c = 1 .. Len(a) + Len(b)
  BY <1>2, LenProperties
<1>4. \A i \in 1 .. Len(a) : i \in 1 .. Len(a) + Len(b) /\ i <= Len(a)
  BY <1>1
<1>5. \A i \in Len(a) + 1 .. Len(a) + Len(b) :
        i \in 1 .. Len(a) + Len(b) /\ ~(i <= Len(a)) /\ i - Len(a) \in 1 .. Len(b)
  BY <1>1
<1>6. \A i \in 1 .. Len(a) : c[i] = a[i] /\ a[i] \in S
  BY <1>1, <1>2, <1>4
<1>7. \A i \in Len(a) + 1 .. Len(a) + Len(b) :
        c[i] = b[i - Len(a)] /\ i - Len(a) \in 1 .. Len(b) /\ b[i - Len(a)] \in S
  BY <1>1, <1>2, <1>5
<1> QED
  BY <1>1, <1>2, <1>3, <1>6, <1>7 DEF c

LEMMA Split ==
  ASSUME NEW S, NEW a \in Seq(S), NEW b \in Seq(S), NEW i \in DOMAIN (a \o b)
  PROVE  \/ i \in DOMAIN a /\ (a \o b)[i] = a[i]
         \/ i - Len(a) \in DOMAIN b /\ (a \o b)[i] = b[i - Len(a)]
<1>1. i \in 1 .. Len(a) \/ i \in Len(a) + 1 .. Len(a) + Len(b)
  BY Elements
<1> QED
  BY <1>1, Elements

(* Blocks stay written once when others are appended. *)
LEMMA OnceConcat ==
  ASSUME NEW S, NEW a \in Seq(S), NEW b \in Seq(S), BlocksOnce(a), BlocksOnce(b),
         BlocksIn(a) \cap BlocksIn(b) = {}
  PROVE  BlocksOnce(a \o b) /\ BlocksIn(a \o b) \subseteq BlocksIn(a) \cup BlocksIn(b)
<1> DEFINE c == a \o b
<1>0. Len(a) \in Nat /\ DOMAIN c \subseteq Int
  BY Elements
<1>1. \A i \in DOMAIN c : \/ i \in DOMAIN a /\ c[i] = a[i]
                          \/ i - Len(a) \in DOMAIN b /\ c[i] = b[i - Len(a)]
  BY Split
<1> HIDE DEF c
<1>2. ASSUME NEW i \in DOMAIN c, c[i].type = "block"
      PROVE  \/ i \in DOMAIN a /\ c[i] = a[i] /\ c[i].items \in BlocksIn(a)
             \/ i - Len(a) \in DOMAIN b /\ c[i] = b[i - Len(a)] /\ c[i].items \in BlocksIn(b)
  BY <1>1, <1>2 DEF BlocksIn
<1>3. BlocksIn(c) \subseteq BlocksIn(a) \cup BlocksIn(b)
  <2> SUFFICES ASSUME NEW x \in BlocksIn(c) PROVE x \in BlocksIn(a) \cup BlocksIn(b)
    OBVIOUS
  <2>1. PICK i \in DOMAIN c : c[i].type = "block" /\ x = c[i].items
    BY DEF BlocksIn
  <2> QED
    BY <1>2, <2>1
<1>4. BlocksOnce(c)
  <2> SUFFICES ASSUME NEW m \in DOMAIN c, NEW n \in DOMAIN c, c[m].type = "block",
                      c[n].type = "block", c[m].items = c[n].items
               PROVE  m = n
    BY DEF BlocksOnce
  <2>1. CASE m \in DOMAIN a /\ n \in DOMAIN a /\ c[m] = a[m] /\ c[n] = a[n]
    BY <2>1 DEF BlocksOnce
  <2>2. CASE /\ m - Len(a) \in DOMAIN b /\ n - Len(a) \in DOMAIN b
             /\ c[m] = b[m - Len(a)] /\ c[n] = b[n - Len(a)]
    <3>1. m - Len(a) = n - Len(a)
      BY <2>2 DEF BlocksOnce
    <3>2. m \in Int /\ n \in Int
      BY <1>0
    <3> QED
      BY <1>0, <3>1, <3>2
  <2> QED
    BY <1>2, <2>1, <2>2
<1> QED
  BY <1>3, <1>4 DEF c

LEMMA NoBlocksOnce ==
  ASSUME NEW a, \A i \in DOMAIN a : a[i].type # "block"
  PROVE  BlocksOnce(a) /\ BlocksIn(a) = {}
  BY DEF BlocksOnce, BlocksIn

(* The records of distinct blocks, one by one. *)
LEMMA BlocksWritten ==
  ASSUME NEW n \in Nat, NEW bs \in [1 .. n -> Block],
         \A i, j \in 1 .. n : i # j => bs[i] # bs[j]
  PROVE  /\ WriteBlocks(bs) \in Seq(WholeRecord(save))
         /\ BlocksOnce(WriteBlocks(bs))
         /\ BlocksIn(WriteBlocks(bs)) \subseteq {BlockItems(b) : b \in Range(bs)}
<1> DEFINE R(b) == Record("block", BlockItems(b))
           W == WholeRecord(save)
           parts == [i \in 1 .. n |-> <<R(bs[i])>>]
           out(i) == [k \in 1 .. i |-> R(bs[k])]
           joined == [i \in 0 .. n |-> out(i)]
<1>1. \A i \in 1 .. n : bs[i] \in Block /\ R(bs[i]) \in W /\ WriteBlock(bs[i]) = <<R(bs[i])>>
  <2>1. ASSUME NEW b \in Block PROVE R(b) \in W /\ WriteBlock(b) = <<R(b)>>
    <3>1. R(b) \in W
      BY MainWritten
    <3>2. BlockItems(b) # <<>>
      BY BlockItemsAre
    <3> QED
      BY <3>1, <3>2 DEF WriteBlock, Write, BlockItems
  <2> QED
    BY <2>1
<1>2. WriteBlocks(bs) = FlattenSeq(parts)
  <2>1. DOMAIN bs = 1 .. n
    OBVIOUS
  <2>2. [i \in DOMAIN bs |-> WriteBlock(bs[i])] = parts
    BY <1>1, <2>1
  <2> QED
    BY <2>2 DEF WriteBlocks
<1> HIDE DEF R, W
<1>3. ASSUME NEW i \in 0 .. n
      PROVE  out(i) \in Seq(W) /\ Len(out(i)) = i
  <2>1. out(i) \in [1 .. i -> W]
    BY <1>1
  <2> QED
    BY <2>1
<1>4. parts \in Parts(W) /\ Len(parts) = n
  <2>1. parts \in [1 .. n -> Seq(W)]
    BY <1>1
  <2> QED
    BY <2>1 DEF Parts
<1>5. joined \in Joins(W, parts)
  <2>1. joined \in [0 .. n -> Vec(W)]
    BY <1>3 DEF Vec
  <2>2. joined[0] = <<>>
    <3>1. joined[0] = out(0) /\ Len(out(0)) = 0 /\ out(0) \in Seq(W)
      BY <1>3
    <3> HIDE DEF joined, out
    <3> QED
      BY <3>1, EmptySeq
  <2>3. ASSUME NEW i \in 0 .. n - 1 PROVE joined[i + 1] = joined[i] \o parts[i + 1]
    <3>1. i \in 0 .. n /\ i + 1 \in 0 .. n /\ i + 1 \in 1 .. n
      OBVIOUS
    <3> DEFINE x == R(bs[i + 1])
    <3>2. x \in W /\ parts[i + 1] = <<x>>
      BY <1>1, <3>1
    <3>3. joined[i] = out(i) /\ joined[i + 1] = out(i + 1)
      BY <3>1
    <3>4. out(i) \in Seq(W) /\ Len(out(i)) = i /\ out(i + 1) \in Seq(W) /\ Len(out(i + 1)) = i + 1
      BY <1>3, <3>1
    <3>5. \A k \in 1 .. i : out(i + 1)[k] = out(i)[k]
      OBVIOUS
    <3>6. out(i + 1)[i + 1] = x
      OBVIOUS
    <3> HIDE DEF joined, parts, x, out
    <3>7. /\ out(i) \o <<x>> \in Seq(W) /\ Len(out(i) \o <<x>>) = i + 1
          /\ \A k \in 1 .. i + 1 : (out(i) \o <<x>>)[k] = IF k <= i THEN out(i)[k] ELSE x
      <4>1. <<x>> \in Seq(W) /\ Len(<<x>>) = 1 /\ <<x>>[1] = x
        BY <3>2
      <4>2. ASSUME NEW k \in 1 .. i + 1, ~(k <= i) PROVE k - i = 1
        BY <4>2
      <4> QED
        BY <3>4, <4>1, <4>2, ConcatProperties
    <3>8. \A k \in 1 .. i + 1 : out(i + 1)[k] = (out(i) \o <<x>>)[k]
      <4>1. \A k \in 1 .. i + 1 : k \in 1 .. i \/ k = i + 1
        OBVIOUS
      <4> QED
        BY <3>5, <3>6, <3>7, <4>1
    <3>9. out(i + 1) = out(i) \o <<x>>
      BY <3>4, <3>7, <3>8, SeqEqual
    <3> QED
      BY <3>2, <3>3, <3>9
  <2> HIDE DEF joined, parts
  <2> QED
    BY <1>4, <2>1, <2>2, <2>3 DEF Joins
<1>6. WriteBlocks(bs) = out(n)
  <2>1. FlattenSeq(parts) = joined[n] /\ joined[n] = out(n)
    <3>1. joined[n] = out(n)
      OBVIOUS
    <3> HIDE DEF joined, parts
    <3> QED
      BY <1>4, <1>5, <3>1, FlattenAt
  <2> QED
    BY <1>2, <2>1
<1>7. out(n) \in Seq(W) /\ DOMAIN out(n) = 1 .. n /\ \A k \in 1 .. n : out(n)[k] = R(bs[k])
  BY <1>3
<1>8. \A k \in 1 .. n : out(n)[k].items = BlockItems(bs[k])
  BY <1>7 DEF R, Record
<1> HIDE DEF out
<1>9. BlocksOnce(out(n))
  <2> SUFFICES ASSUME NEW i \in 1 .. n, NEW j \in 1 .. n, BlockItems(bs[i]) = BlockItems(bs[j])
               PROVE  i = j
    BY <1>7, <1>8 DEF BlocksOnce
  <2> QED
    BY <1>1, BlockItemsDiffer
<1>10. BlocksIn(out(n)) \subseteq {BlockItems(b) : b \in Range(bs)}
  <2>1. \A k \in 1 .. n : bs[k] \in Range(bs)
    BY DEF Range
  <2> QED
    BY <1>7, <1>8, <2>1 DEF BlocksIn
<1> QED
  BY <1>6, <1>7, <1>9, <1>10 DEF W

LEMMA EachWritten ==
  ASSUME NEW S, NEW t, (t = "interrupts" /\ S = Interrupt) \/ (t = "vcpu_states" /\ S = State),
         NEW vectors \in PerVcpu(S)
  PROVE  WriteEach(t, vectors) \in Seq({r \in WholeRecord(save) : r.type # "block"})
<1> DEFINE W == {r \in WholeRecord(save) : r.type # "block"}
           N == Cardinality(VCPU)
           parts == [n \in 1 .. N |-> Write(t, vectors[n])]
<1>1. N \in Nat
  BY LoaderAssumption, FS_CardinalityType DEF LoaderAssumption
<1>2. vectors \in [1 .. N -> Vectors(S)] /\ Len(vectors) = N
  BY <1>1 DEF PerVcpu
<1>3. ASSUME NEW x \in Vectors(S) PROVE Write(t, x) \in Seq(W)
  <2>1. x \in Seq(S)
    <3>1. PICK n \in 0 .. MaxItems : x \in [1 .. n -> S]
      BY DEF Vectors
    <3>2. n \in Nat
      BY LoaderAssumption DEF LoaderAssumption
    <3> QED
      BY <3>1, <3>2
  <2>2. CASE x = <<>>
    BY <2>2, EmptySeq DEF Write
  <2>3. CASE x # <<>>
    <3> DEFINE r == Record(t, x)
    <3>1. r \in WholeRecord(save)
      BY <2>1, <2>3, MainWritten
    <3>2. r.type # "block"
      BY DEF Record
    <3>3. Write(t, x) = <<r>>
      BY <2>3 DEF Write
    <3> HIDE DEF r
    <3>4. r \in W
      BY <3>1, <3>2
    <3> HIDE DEF W
    <3> QED
      BY <3>3, <3>4
  <2> QED
    BY <2>2, <2>3
<1> HIDE DEF W
<1>4. parts \in Parts(W)
  <2>1. parts \in [1 .. N -> Seq(W)]
    BY <1>2, <1>3
  <2> HIDE DEF parts, N
  <2> QED
    BY <1>1, <2>1 DEF Parts
<1>5. WriteEach(t, vectors) = FlattenSeq(parts)
  BY <1>2 DEF WriteEach
<1> HIDE DEF parts
<1> QED
  BY <1>4, <1>5, FlattenType DEF Vec, W

(* What tb_flush or at_exit writes to the main file. *)
LEMMA MainRecordsAre ==
  ASSUME NEW T \in SUBSET Block, NEW bs \in SetToSeqs(T),
         NEW ints \in PerVcpu(Interrupt), NEW states \in PerVcpu(State)
  PROVE  /\ MainRecords(bs, ints, states) \in Seq(WholeRecord(save))
         /\ BlocksOnce(MainRecords(bs, ints, states))
         /\ BlocksIn(MainRecords(bs, ints, states)) \subseteq {BlockItems(b) : b \in T}
         /\ BlocksIn(MainRecords(bs, ints, states)) \subseteq {BlockItems(b) : b \in Range(bs)}
<1> DEFINE W == WholeRecord(save)
           V == {r \in W : r.type # "block"}
           n == Cardinality(T)
           A == WriteBlocks(bs)
           B == WriteEach("interrupts", ints)
           C == WriteEach("vcpu_states", states)
<1>1. n \in Nat /\ bs \in [1 .. n -> T] /\ \A i, j \in 1 .. n : i # j => bs[i] # bs[j]
  <2>1. IsFiniteSet(T)
    BY LoaderAssumption, FS_Subset DEF LoaderAssumption
  <2> QED
    BY <2>1, FS_CardinalityType DEF SetToSeqs
<1>2. bs \in [1 .. n -> Block]
  BY <1>1
<1>3. A \in Seq(W) /\ BlocksOnce(A) /\ BlocksIn(A) \subseteq {BlockItems(b) : b \in Range(bs)}
  BY <1>1, <1>2, BlocksWritten
<1>4. Range(bs) \subseteq T
  BY <1>1 DEF Range
<1>5. B \in Seq(V) /\ C \in Seq(V)
  BY EachWritten
<1> HIDE DEF A, B, C, n
<1>6. ASSUME NEW s \in Seq(V) PROVE s \in Seq(W) /\ BlocksOnce(s) /\ BlocksIn(s) = {}
  <2>1. V \subseteq W
    OBVIOUS
  <2>2. s \in Seq(W)
    BY <2>1, SeqMonotonic
  <2>3. \A i \in DOMAIN s : s[i] \in V
    BY LenProperties, ElementOfSeq
  <2>4. \A i \in DOMAIN s : s[i].type # "block"
    BY <2>3
  <2> QED
    BY <2>2, <2>4, NoBlocksOnce
<1> HIDE DEF W, V
<1>7. A \o B \in Seq(W) /\ BlocksOnce(A \o B) /\ BlocksIn(A \o B) \subseteq BlocksIn(A)
  <2>1. BlocksIn(A) \cap BlocksIn(B) = {} /\ B \in Seq(W) /\ BlocksOnce(B) /\ BlocksIn(B) = {}
    BY <1>5, <1>6
  <2>2. A \o B \in Seq(W)
    BY <1>3, <2>1, Elements
  <2>3. BlocksOnce(A \o B) /\ BlocksIn(A \o B) \subseteq BlocksIn(A) \cup BlocksIn(B)
    BY <1>3, <2>1, OnceConcat
  <2> QED
    BY <2>1, <2>2, <2>3
<1> DEFINE D == A \o B
<1> HIDE DEF D
<1>8. D \o C \in Seq(W) /\ BlocksOnce(D \o C) /\ BlocksIn(D \o C) \subseteq BlocksIn(D)
  <2>1. BlocksIn(D) \cap BlocksIn(C) = {} /\ C \in Seq(W) /\ BlocksOnce(C) /\ BlocksIn(C) = {}
    BY <1>5, <1>6
  <2>2. D \in Seq(W) /\ BlocksOnce(D)
    BY <1>7 DEF D
  <2>3. D \o C \in Seq(W)
    BY <2>1, <2>2, Elements
  <2>4. BlocksOnce(D \o C) /\ BlocksIn(D \o C) \subseteq BlocksIn(D) \cup BlocksIn(C)
    BY <2>1, <2>2, OnceConcat
  <2> QED
    BY <2>1, <2>3, <2>4
<1>9. MainRecords(bs, ints, states) = D \o C
  BY DEF MainRecords, A, B, C, D
<1>10. BlocksIn(D \o C) \subseteq {BlockItems(b) : b \in Range(bs)}
  BY <1>3, <1>7, <1>8 DEF D
<1> QED
  BY <1>4, <1>8, <1>9, <1>10 DEF W

-----------------------------------------------------------------------------
(* When nothing was read, nothing has to be loaded. *)
NothingRead == (\A f \in File : Read(f) = 0) /\ NothingLoaded

LEMMA NothingReadInv == NothingRead => ItemsInv /\ EdgesInv /\ BlocksInv
<1> SUFFICES ASSUME NothingRead PROVE ItemsInv /\ EdgesInv /\ BlocksInv
  OBVIOUS
<1>1. \A f \in File : Read(f) = 0 /\ 1 .. Read(f) = {}
  BY DEF NothingRead
<1>2. save \in File
  BY DEF File
<1>3. \A t : Stored(t, 0) \o Blanks(0) = <<>>
  <2>1. Blanks(0) = <<>>
    BY DEF Blanks
  <2>2. \A t : Stored(t, 0) = <<>>
    <3>1. \A t : [k \in 1 .. 0 |-> Part(disk[save][k], t)] = <<>>
      OBVIOUS
    <3> QED
      BY <3>1, FlattenEmpty DEF Stored
  <2>3. <<>> \o <<>> = <<>>
    OBVIOUS
  <2> QED
    BY <2>1, <2>2, <2>3
<1>4. ItemsInv
  BY <1>1, <1>2, <1>3 DEF ItemsInv, IsRead, NothingRead, NothingLoaded
<1>5. EdgesInv
  BY <1>1 DEF EdgesInv, File, NothingRead, NothingLoaded
<1>6. BlocksInv
  <2>1. block_map = [k \in Key |-> block_map[k]] /\ \A k \in Key : block_map[k] = None
    BY DEF NothingRead, NothingLoaded
  <2> QED
    BY <1>1, <1>2, <2>1 DEF BlocksInv, FoundBut
<1> QED
  BY <1>4, <1>5, <1>6

LEMMA LoaderInit_Inv == LoaderInit => LoaderInv
<1> SUFFICES ASSUME LoaderInit PROVE LoaderInv
  OBVIOUS
<1> USE DEF LoaderInit
<1>1. \A f \in File : disk[f] = <<>> /\ Read(f) = 0
  BY DEF Read
<1>2. save \in File /\ None \notin File
  BY LoaderAssumption DEF File, LoaderAssumption
<1>3. DiskInv
  <2>1. \A f \in File : disk[f] \in Seq(FileRecord(f))
    BY <1>1, EmptySeq
  <2>2. \A f \in File : DOMAIN disk[f] = {}
    <3>1. DOMAIN <<>> = {}
      OBVIOUS
    <3> QED
      BY <1>1, <3>1
  <2>3. BlocksOnce(disk[save]) /\ BlocksIn(disk[save]) = {}
    BY <1>2, <2>2, NoBlocksOnce
  <2>4. disk = [f \in File |-> disk[f]] /\ unsaved \subseteq Block
    OBVIOUS
  <2> QED
    BY <2>1, <2>2, <2>3, <2>4 DEF DiskInv
<1>4. NothingLoaded
  BY DEF NothingLoaded
<1>5. StageInv
  BY <1>2, <1>4 DEF StageInv
<1>6. ItemsInv /\ EdgesInv /\ BlocksInv
  BY <1>1, <1>4, NothingReadInv DEF NothingRead
<1> QED
  BY <1>3, <1>5, <1>6 DEF LoaderInv

(* The emulator runs: whatever is written, nothing was read of it. *)
LEMMA WriterStep ==
  ASSUME LoaderInv, stage = "run", DiskInv', UNCHANGED <<reader, loaded>>,
         stage' \in {"run", "load"}, killed' \in BOOLEAN, stage' = "run" => ~killed'
  PROVE  LoaderInv'
<1>1. /\ left' = File /\ file' = None /\ NothingLoaded /\ None \notin File
      /\ pos' \in Nat /\ good' \in BOOLEAN
  BY LoaderAssumption DEF LoaderInv, StageInv, reader, LoaderAssumption, File
<1>2. NothingLoaded'
  BY <1>1 DEF NothingLoaded, loaded
<1>3. StageInv'
  BY <1>1, <1>2 DEF StageInv
<1>4. NothingRead'
  BY <1>1, <1>2 DEF NothingRead, Read
<1>5. ItemsInv' /\ EdgesInv' /\ BlocksInv'
  BY <1>4, NothingReadInv, PTL
<1> QED
  BY <1>3, <1>5 DEF LoaderInv

(* Every file grows by whole records, the main one by blocks not in it. *)
LEMMA FilesGrow ==
  ASSUME LoaderInv, stage = "run", NEW w, \A f \in File : w[f] \in Seq(WholeRecord(f)),
         disk' = [f \in File |-> disk[f] \o w[f]],
         BlocksOnce(w[save]), BlocksIn(w[save]) \subseteq {BlockItems(b) : b \in unsaved}
  PROVE  /\ disk' = [f \in File |-> disk'[f]]
         /\ \A f \in File : disk'[f] \in Seq(FileRecord(f))
         /\ \A f \in File : \A n \in DOMAIN disk'[f] : Whole(disk'[f][n])
         /\ BlocksOnce(disk'[save])
         /\ BlocksIn(disk'[save]) \subseteq BlocksIn(disk[save]) \cup BlocksIn(w[save])
<1>0. save \in File
  BY DEF File
<1>1. \A f \in File : disk'[f] = disk[f] \o w[f]
  OBVIOUS
<1>2. ASSUME NEW f \in File
      PROVE  /\ disk[f] \in Seq(FileRecord(f)) /\ w[f] \in Seq(FileRecord(f))
             /\ \A n \in DOMAIN disk[f] : Whole(disk[f][n])
             /\ \A n \in DOMAIN w[f] : Whole(w[f][n])
  <2>1. disk[f] \in Seq(FileRecord(f)) /\ \A n \in DOMAIN disk[f] : Whole(disk[f][n])
    BY DEF LoaderInv, DiskInv, StageInv
  <2>2. WholeRecord(f) \subseteq FileRecord(f)
    BY DEF WholeRecord
  <2>3. w[f] \in Seq(FileRecord(f))
    BY <2>2, SeqMonotonic
  <2>4. \A n \in DOMAIN w[f] : w[f][n] \in WholeRecord(f)
    BY LenProperties, ElementOfSeq
  <2>5. \A n \in DOMAIN w[f] : Whole(w[f][n])
    BY <2>4 DEF WholeRecord
  <2> QED
    BY <2>1, <2>3, <2>5
<1>3. ASSUME NEW f \in File
      PROVE  disk'[f] \in Seq(FileRecord(f)) /\ \A n \in DOMAIN disk'[f] : Whole(disk'[f][n])
  <2>1. disk'[f] \in Seq(FileRecord(f))
    BY <1>1, <1>2, Elements
  <2>2. ASSUME NEW n \in DOMAIN disk'[f] PROVE Whole(disk'[f][n])
    <3>1. \/ n \in DOMAIN disk[f] /\ disk'[f][n] = disk[f][n]
          \/ n - Len(disk[f]) \in DOMAIN w[f] /\ disk'[f][n] = w[f][n - Len(disk[f])]
      <4>1. n \in DOMAIN (disk[f] \o w[f]) /\ disk'[f] = disk[f] \o w[f]
        BY <1>1
      <4>2. disk[f] \in Seq(FileRecord(f)) /\ w[f] \in Seq(FileRecord(f))
        BY <1>2
      <4> QED
        BY <4>1, <4>2, Split
    <3> QED
      BY <1>2, <3>1
  <2> QED
    BY <2>1, <2>2
<1>4. BlocksIn(disk[save]) \cap BlocksIn(w[save]) = {}
  <2>1. BlocksIn(disk[save]) \subseteq {BlockItems(b) : b \in Block \ unsaved} /\ unsaved \subseteq Block
    BY DEF LoaderInv, DiskInv
  <2>2. ASSUME NEW x \in BlocksIn(disk[save]), x \in BlocksIn(w[save]) PROVE FALSE
    <3>1. PICK b \in Block \ unsaved : x = BlockItems(b)
      BY <2>1
    <3>2. PICK c \in unsaved : x = BlockItems(c)
      BY <2>2
    <3> QED
      BY <2>1, <3>1, <3>2, BlockItemsDiffer
  <2> QED
    BY <2>2
<1>5. /\ BlocksOnce(disk'[save])
      /\ BlocksIn(disk'[save]) \subseteq BlocksIn(disk[save]) \cup BlocksIn(w[save])
  <2>1. BlocksOnce(disk[save])
    BY DEF LoaderInv, DiskInv
  <2> QED
    BY <1>0, <1>1, <1>2, <1>4, <2>1, OnceConcat
<1>6. disk' = [f \in File |-> disk'[f]]
  BY <1>1
<1> QED
  BY <1>3, <1>5, <1>6

LEMMA TbFlush_Inv == LoaderInv /\ FlushSome => LoaderInv'
<1> SUFFICES ASSUME LoaderInv, FlushSome PROVE LoaderInv'
  OBVIOUS
<1>0. save \in File /\ unsaved \subseteq Block
  BY DEF File, LoaderInv, DiskInv
<1>1. PICK T \in SUBSET unsaved : \E bs \in SetToSeqs(T), ints \in PerVcpu(Interrupt),
                                    states \in PerVcpu(State) : TbFlush(bs, ints, states)
  BY DEF FlushSome
<1>2. PICK bs \in SetToSeqs(T), ints \in PerVcpu(Interrupt), states \in PerVcpu(State) :
        TbFlush(bs, ints, states)
  BY <1>1
<1> DEFINE M == MainRecords(bs, ints, states)
           w == [f \in File |-> IF f = save THEN M ELSE <<>>]
<1>3. /\ stage = "run" /\ disk' = [disk EXCEPT ![save] = @ \o M]
      /\ unsaved' = unsaved \ Range(bs) /\ UNCHANGED <<killed, stage, reader, loaded>>
  BY <1>2 DEF TbFlush
<1>4. /\ M \in Seq(WholeRecord(save)) /\ BlocksOnce(M)
      /\ BlocksIn(M) \subseteq {BlockItems(b) : b \in T}
      /\ BlocksIn(M) \subseteq {BlockItems(b) : b \in Range(bs)}
  BY <1>0, <1>2, MainRecordsAre
<1> HIDE DEF M
<1>5. \A f \in File : w[f] \in Seq(WholeRecord(f))
  BY <1>4, EmptySeq
<1>6. w[save] = M
  BY <1>0
<1>7. disk' = [f \in File |-> disk[f] \o w[f]]
  <2>1. disk = [f \in File |-> disk[f]] /\ \A f \in File : disk[f] \in Seq(FileRecord(f))
    BY DEF LoaderInv, DiskInv
  <2>2. \A f \in File : disk[f] \o <<>> = disk[f]
    BY <2>1, ConcatEmptySeq
  <2>3. disk' = [f \in File |-> IF f = save THEN disk[f] \o M ELSE disk[f]]
    BY <1>3, <2>1
  <2>4. \A f \in File : disk[f] \o w[f] = IF f = save THEN disk[f] \o M ELSE disk[f]
    BY <2>2
  <2> QED
    BY <2>3, <2>4
<1> HIDE DEF w
<1>8. BlocksIn(w[save]) \subseteq {BlockItems(b) : b \in unsaved}
  BY <1>4, <1>6
<1>9. /\ disk' = [f \in File |-> disk'[f]]
      /\ \A f \in File : disk'[f] \in Seq(FileRecord(f))
      /\ \A f \in File : \A n \in DOMAIN disk'[f] : Whole(disk'[f][n])
      /\ BlocksOnce(disk'[save])
      /\ BlocksIn(disk'[save]) \subseteq BlocksIn(disk[save]) \cup BlocksIn(w[save])
  BY <1>3, <1>4, <1>5, <1>6, <1>7, <1>8, FilesGrow
<1>10. BlocksIn(disk'[save]) \subseteq {BlockItems(b) : b \in Block \ unsaved'}
  <2>1. BlocksIn(disk[save]) \subseteq {BlockItems(b) : b \in Block \ unsaved}
    BY <1>3 DEF LoaderInv, DiskInv
  <2>2. Range(bs) \subseteq Block
    <3>1. bs \in [1 .. Cardinality(T) -> T]
      BY <1>2 DEF SetToSeqs
    <3> QED
      BY <1>0, <3>1 DEF Range
  <2> QED
    BY <1>3, <1>4, <1>6, <1>9, <2>1, <2>2
<1>11. DiskInv'
  BY <1>0, <1>3, <1>9, <1>10 DEF DiskInv
<1> QED
  BY <1>3, <1>11, WriterStep DEF LoaderInv, StageInv

LEMMA SaveEdges_Inv ==
  ASSUME LoaderInv, NEW v \in VCPU, NEW es \in SUBSET Edge, SaveEdges(v, es)
  PROVE  LoaderInv'
<1>0. v \in File /\ save \in File /\ v # save
  BY LoaderAssumption DEF File, LoaderAssumption
<1> DEFINE M == WriteEdges(es)
           w == [f \in File |-> IF f = v THEN M ELSE <<>>]
<1>1. /\ stage = "run" /\ disk' = [disk EXCEPT ![v] = @ \o M]
      /\ UNCHANGED <<unsaved, killed, stage, reader, loaded>>
  BY DEF SaveEdges
<1>2. M \in Seq(WholeRecord(v))
  BY EdgesWritten
<1> HIDE DEF M
<1>3. \A f \in File : w[f] \in Seq(WholeRecord(f))
  BY <1>2, EmptySeq
<1>4. w[save] = <<>>
  BY <1>0
<1>5. BlocksOnce(w[save]) /\ BlocksIn(w[save]) = {}
  <2>1. DOMAIN <<>> = {}
    OBVIOUS
  <2> QED
    BY <1>4, <2>1, NoBlocksOnce
<1>6. disk' = [f \in File |-> disk[f] \o w[f]]
  <2>1. disk = [f \in File |-> disk[f]] /\ \A f \in File : disk[f] \in Seq(FileRecord(f))
    BY DEF LoaderInv, DiskInv
  <2>2. \A f \in File : disk[f] \o <<>> = disk[f]
    BY <2>1, ConcatEmptySeq
  <2>3. disk' = [f \in File |-> IF f = v THEN disk[f] \o M ELSE disk[f]]
    BY <1>1, <2>1
  <2>4. \A f \in File : disk[f] \o w[f] = IF f = v THEN disk[f] \o M ELSE disk[f]
    BY <2>2
  <2> QED
    BY <2>3, <2>4
<1> HIDE DEF w
<1>7. /\ disk' = [f \in File |-> disk'[f]]
      /\ \A f \in File : disk'[f] \in Seq(FileRecord(f))
      /\ \A f \in File : \A n \in DOMAIN disk'[f] : Whole(disk'[f][n])
      /\ BlocksOnce(disk'[save])
      /\ BlocksIn(disk'[save]) \subseteq BlocksIn(disk[save]) \cup BlocksIn(w[save])
  <2>1. BlocksIn(w[save]) \subseteq {BlockItems(b) : b \in unsaved}
    BY <1>5
  <2> QED
    BY <1>1, <1>3, <1>5, <1>6, <2>1, FilesGrow
<1>8. BlocksIn(disk'[save]) \subseteq {BlockItems(b) : b \in Block \ unsaved'}
  BY <1>1, <1>5, <1>7 DEF LoaderInv, DiskInv
<1>9. unsaved' \subseteq Block
  BY <1>1 DEF LoaderInv, DiskInv
<1>10. DiskInv'
  BY <1>7, <1>8, <1>9 DEF DiskInv
<1> QED
  BY <1>1, <1>10, WriterStep DEF LoaderInv, StageInv

LEMMA AtExit_Inv == LoaderInv /\ ExitWithAll => LoaderInv'
<1> SUFFICES ASSUME LoaderInv, ExitWithAll PROVE LoaderInv'
  OBVIOUS
<1>0. save \in File /\ unsaved \in SUBSET Block /\ \A f \in File : f # save => f \in VCPU
  BY DEF File, LoaderInv, DiskInv
<1>1. PICK bs \in SetToSeqs(unsaved), ints \in PerVcpu(Interrupt), states \in PerVcpu(State),
           es \in [VCPU -> SUBSET Edge] : AtExit(bs, ints, states, es)
  BY DEF ExitWithAll
<1> DEFINE M == MainRecords(bs, ints, states)
           w == [f \in File |-> IF f = save THEN M ELSE WriteEdges(es[f])]
<1>2. /\ stage = "run" /\ disk' = [f \in File |-> disk[f] \o w[f]]
      /\ unsaved' = {} /\ stage' = "load" /\ UNCHANGED <<killed, reader, loaded>>
  BY <1>1 DEF AtExit
<1>3. /\ M \in Seq(WholeRecord(save)) /\ BlocksOnce(M)
      /\ BlocksIn(M) \subseteq {BlockItems(b) : b \in unsaved}
  BY <1>0, MainRecordsAre
<1> HIDE DEF M
<1>4. \A f \in File : w[f] \in Seq(WholeRecord(f))
  <2>1. \A f \in VCPU : WriteEdges(es[f]) \in Seq(WholeRecord(f))
    BY EdgesWritten
  <2> QED
    BY <1>0, <1>3, <2>1
<1>5. w[save] = M
  BY <1>0
<1> HIDE DEF w
<1>6. /\ disk' = [f \in File |-> disk'[f]]
      /\ \A f \in File : disk'[f] \in Seq(FileRecord(f))
      /\ \A f \in File : \A n \in DOMAIN disk'[f] : Whole(disk'[f][n])
      /\ BlocksOnce(disk'[save])
  BY <1>2, <1>3, <1>4, <1>5, FilesGrow
<1>7. DiskInv'
  BY <1>2, <1>6 DEF DiskInv
<1> QED
  BY <1>2, <1>7, WriterStep DEF LoaderInv, StageInv

(* A prefix of a file: its last record may be cut, and is the same otherwise. *)
LEMMA CutFileIs ==
  ASSUME NEW f \in File, NEW s \in Seq(FileRecord(f)), \A n \in DOMAIN s : Whole(s[n]),
         NEW t \in CutFiles(s)
  PROVE  /\ t \in Seq(FileRecord(f)) /\ DOMAIN t \subseteq DOMAIN s
         /\ \A n \in DOMAIN t : t[n].type = s[n].type /\ t[n].items = s[n].items
         /\ \A n \in DOMAIN t : Whole(t[n]) \/ n = Len(t)
<1> DEFINE R == FileRecord(f)
<1>1. Len(s) \in Nat /\ DOMAIN s = 1 .. Len(s) /\ \A n \in 1 .. Len(s) : s[n] \in R
  BY LenProperties, ElementOfSeq
<1>2. ASSUME NEW n \in 0 .. Len(s)
      PROVE  /\ SubSeq(s, 1, n) \in Seq(R) /\ Len(SubSeq(s, 1, n)) = n
             /\ \A i \in 1 .. n : SubSeq(s, 1, n)[i] = s[i]
  <2>1. /\ 1 \in Int /\ n \in Int /\ \A i \in 1 .. n : s[i] \in R
        /\ n - 1 + 1 = n /\ (1 <= n => n - 1 + 1 = n) /\ (~(1 <= n) => n = 0)
    BY <1>1
  <2>2. SubSeq(s, 1, n) \in Seq(R) /\ Len(SubSeq(s, 1, n)) = n
    BY <2>1, SubSeqProperties
  <2>3. \A i \in 1 .. n : SubSeq(s, 1, n)[i] = s[1 + i - 1]
    BY <2>1, SubSeqProperties
  <2>4. \A i \in 1 .. n : 1 + i - 1 = i
    OBVIOUS
  <2> QED
    BY <2>2, <2>3, <2>4
<1>3. CASE t \in {SubSeq(s, 1, n) : n \in 0 .. Len(s)}
  <2>1. PICK n \in 0 .. Len(s) : t = SubSeq(s, 1, n)
    BY <1>3
  <2>2. t \in Seq(R) /\ Len(t) = n /\ \A i \in 1 .. n : t[i] = s[i]
    BY <1>2, <2>1
  <2>3. DOMAIN t = 1 .. n /\ 1 .. n \subseteq DOMAIN s
    BY <1>1, <2>2, LenProperties
  <2> HIDE DEF R
  <2> QED
    BY <2>2, <2>3 DEF R
<1>4. CASE t \in UNION {{Append(SubSeq(s, 1, n - 1), [s[n] EXCEPT !.stored = k]) :
                            k \in -1 .. Len(s[n].items) - 1} : n \in 1 .. Len(s)}
  <2>1. PICK n \in 1 .. Len(s) :
          t \in {Append(SubSeq(s, 1, n - 1), [s[n] EXCEPT !.stored = k]) :
                   k \in -1 .. Len(s[n].items) - 1}
    BY <1>4
  <2>2. PICK k \in -1 .. Len(s[n].items) - 1 :
          t = Append(SubSeq(s, 1, n - 1), [s[n] EXCEPT !.stored = k])
    BY <2>1
  <2> DEFINE x == [s[n] EXCEPT !.stored = k]
             p == SubSeq(s, 1, n - 1)
  <2>3. s[n] \in R /\ n - 1 \in 0 .. Len(s) /\ n \in Nat
    BY <1>1
  <2>4. x \in R /\ x.type = s[n].type /\ x.items = s[n].items
    <3>1. /\ Len(s[n].items) \in Nat /\ s[n].items # <<>>
          /\ s[n] = [type |-> s[n].type, items |-> s[n].items, stored |-> s[n].stored]
      BY <2>3, RecordIs
    <3>2. x = [type |-> s[n].type, items |-> s[n].items, stored |-> k]
      BY <3>1
    <3>3. k \in -1 .. Len(s[n].items) /\ k \in Int
      BY <3>1
    <3>4. s[n] \in AnyRecord
      BY <2>3 DEF FileRecord, MainRecord, EdgeRecord
    <3>5. x \in AnyRecord /\ x.type = s[n].type /\ x.items = s[n].items /\ x.stored = k
      BY <3>2, <3>3, <3>4 DEF AnyRecord
    <3> HIDE DEF x
    <3>6. (IsMain(s[n]) => IsMain(x)) /\ (IsEdges(s[n]) => IsEdges(x))
      BY <3>5 DEF IsMain, IsEdges
    <3>7. CASE f = save
      BY <2>3, <3>1, <3>3, <3>5, <3>6, <3>7 DEF FileRecord, MainRecord
    <3>8. CASE f # save
      BY <2>3, <3>1, <3>3, <3>5, <3>6, <3>8 DEF FileRecord, EdgeRecord
    <3> QED
      BY <3>5, <3>7, <3>8
  <2>5. p \in Seq(R) /\ Len(p) = n - 1 /\ \A i \in 1 .. n - 1 : p[i] = s[i]
    BY <1>2, <2>3
  <2> HIDE DEF R, x, p
  <2>6. /\ t \in Seq(R) /\ Len(t) = (n - 1) + 1 /\ t[n] = x
        /\ \A i \in 1 .. n - 1 : t[i] = s[i]
    <3>1. t = Append(p, x)
      BY <2>2 DEF x, p
    <3>2. (n - 1) + 1 = n
      BY <2>3
    <3> QED
      BY <2>4, <2>5, <3>1, <3>2, AppendProperties
  <2>7. Len(t) = n /\ DOMAIN t = 1 .. n /\ 1 .. n \subseteq DOMAIN s
    BY <1>1, <2>3, <2>6, LenProperties
  <2>8. \A i \in 1 .. n : i \in 1 .. n - 1 \/ i = n
    BY <2>3
  <2>9. \A i \in 1 .. n - 1 : i \in DOMAIN s
    BY <2>3, <2>7
  <2> QED
    BY <2>4, <2>6, <2>7, <2>8, <2>9 DEF R
<1> QED
  BY <1>3, <1>4 DEF CutFiles

LEMMA Kill_Inv == LoaderInv /\ Kill => LoaderInv'
<1> SUFFICES ASSUME LoaderInv, Kill PROVE LoaderInv'
  OBVIOUS
<1>1. /\ stage = "run" /\ killed' = TRUE /\ stage' = "load"
      /\ UNCHANGED <<unsaved, reader, loaded>>
      /\ \A f \in File : disk'[f] \in CutFiles(disk[f])
      /\ disk' \in [File -> UNION {CutFiles(disk[f]) : f \in File}]
  BY DEF Kill
<1>2. ASSUME NEW f \in File
      PROVE  disk[f] \in Seq(FileRecord(f)) /\ \A n \in DOMAIN disk[f] : Whole(disk[f][n])
  BY <1>1 DEF LoaderInv, DiskInv, StageInv
<1>3. ASSUME NEW f \in File
      PROVE  /\ disk'[f] \in Seq(FileRecord(f)) /\ DOMAIN disk'[f] \subseteq DOMAIN disk[f]
             /\ \A n \in DOMAIN disk'[f] : /\ disk'[f][n].type = disk[f][n].type
                                           /\ disk'[f][n].items = disk[f][n].items
             /\ \A n \in DOMAIN disk'[f] : Whole(disk'[f][n]) \/ n = Len(disk'[f])
  <2>1. disk'[f] \in CutFiles(disk[f])
    BY <1>1
  <2> QED
    BY <1>2, <2>1, CutFileIs
<1>4. BlocksOnce(disk'[save])
  <2>1. save \in File
    BY DEF File
  <2>2. BlocksOnce(disk[save])
    BY DEF LoaderInv, DiskInv
  <2> QED
    BY <1>3, <2>1, <2>2 DEF BlocksOnce
<1>5. DiskInv'
  <2>1. disk' = [f \in File |-> disk'[f]]
    BY <1>1
  <2>2. unsaved' \subseteq Block
    BY <1>1 DEF LoaderInv, DiskInv
  <2> QED
    BY <1>1, <1>3, <1>4, <2>1, <2>2 DEF DiskInv
<1> QED
  BY <1>1, <1>5, WriterStep DEF LoaderInv, StageInv

-----------------------------------------------------------------------------
(* Reading a record: the part of its items that is stored comes first.        *)
LEMMA BlanksAre ==
  ASSUME NEW n \in Nat
  PROVE  /\ Blanks(n) \in Seq({Blank}) /\ Len(Blanks(n)) = n
         /\ \A k \in 1 .. n : Blanks(n)[k] = Blank
<1>1. Blanks(n) \in [1 .. n -> {Blank}]
  BY DEF Blanks
<1>2. Blanks(n) \in Seq({Blank})
  BY <1>1
<1>3. Len(Blanks(n)) = n
  BY <1>1, <1>2, LenProperties DEF Blanks
<1> QED
  BY <1>2, <1>3 DEF Blanks

LEMMA NoBlanks == Blanks(0) = <<>>
  BY BlanksAre, EmptySeq

BlankItem == AnyItem \cup {Blank}

LEMMA PartIs ==
  ASSUME NEW f \in File, NEW r \in FileRecord(f), NEW t
  PROVE  /\ Part(r, t) \in Seq(AnyItem)
         /\ r.type # t => Part(r, t) = <<>>
         /\ r.type = t /\ Whole(r) => Part(r, t) = r.items
         /\ r.type = t => Len(Part(r, t)) = IF r.stored > 0 THEN r.stored ELSE 0
         /\ r.type = t => \A k \in 1 .. Len(Part(r, t)) : Part(r, t)[k] = r.items[k]
<1> DEFINE x == r.items
           k == r.stored
<1>1. Len(x) \in Nat /\ Len(x) # 0 /\ k \in -1 .. Len(x) /\ x \in Seq(AnyItem)
  BY RecordIs
<1> DEFINE p == SubSeq(x, 1, k)
<1>2. ASSUME k > 0
      PROVE  p \in Seq(AnyItem) /\ Len(p) = k /\ \A i \in 1 .. k : p[i] = x[i]
  <2>1. /\ 1 \in Int /\ k \in Int /\ 1 <= k /\ k - 1 + 1 = k
        /\ \A i \in 1 .. k : x[i] \in AnyItem
    BY <1>1, <1>2, ElementOfSeq
  <2> HIDE DEF x, k
  <2>2. p \in Seq(AnyItem) /\ Len(p) = k
    BY <2>1, SubSeqProperties
  <2>3. \A i \in 1 .. k : p[i] = x[1 + i - 1]
    BY <2>1, SubSeqProperties
  <2>4. \A i \in 1 .. k : 1 + i - 1 = i
    BY <2>1
  <2> QED
    BY <2>2, <2>3, <2>4
<1>3. Whole(r) => p = x /\ k > 0
  <2>1. SubSeq(x, 1, Len(x)) = x
    BY <1>1, SubSeqFull
  <2> QED
    BY <1>1, <2>1 DEF Whole
<1>4. Part(r, t) = IF r.type = t /\ k > 0 THEN p ELSE <<>>
  BY DEF Part
<1> HIDE DEF x, k, p
<1>5. <<>> \in Seq(AnyItem) /\ Len(<<>>) = 0
  BY EmptySeq
<1>6. Part(r, t) \in Seq(AnyItem) /\ (r.type # t => Part(r, t) = <<>>)
      /\ (r.type = t /\ Whole(r) => Part(r, t) = x)
  BY <1>2, <1>3, <1>4, <1>5
<1>7. r.type = t => Len(Part(r, t)) = IF k > 0 THEN k ELSE 0
  BY <1>2, <1>4, <1>5
<1>8. r.type = t => \A i \in 1 .. Len(Part(r, t)) : Part(r, t)[i] = x[i]
  BY <1>2, <1>4, <1>5
<1> QED
  BY <1>6, <1>7, <1>8 DEF x, k

LEMMA ItemsAre ==
  ASSUME NEW f \in File, NEW r \in FileRecord(f), NEW v \in Items(r)
  PROVE  \E m \in Nat : v = Part(r, r.type) \o Blanks(m) /\ (Whole(r) => m = 0)
<1> DEFINE p == Part(r, r.type)
           n == Len(r.items)
           read(k) == [i \in 1 .. n |-> IF i <= k THEN r.items[i] ELSE Blank]
           q == IF r.stored > 0 THEN r.stored ELSE 0
<1>1. n \in Nat /\ n # 0 /\ r.stored \in -1 .. n /\ r.items \in Seq(AnyItem)
  BY RecordIs
<1>2. p \in Seq(AnyItem) /\ Len(p) = q /\ \A k \in 1 .. q : p[k] = r.items[k]
  BY PartIs
<1>3. q \in 0 .. n /\ n - q \in Nat /\ (Whole(r) => n - q = 0)
  BY <1>1 DEF Whole
<1>4. (v = <<>> /\ r.stored < 0) \/ v = read(q)
  BY <1>1 DEF Items
<1>5. CASE v = <<>> /\ r.stored < 0
  <2>1. q = 0 /\ p = <<>>
    BY <1>1, <1>2, <1>5, EmptySeq
  <2>2. p \o Blanks(0) = <<>>
    BY <2>1, NoBlanks, ConcatEmptySeq, EmptySeq
  <2> QED
    BY <1>5, <2>2
<1>6. CASE v = read(q)
  <2>1. read(q) \in Seq(BlankItem) /\ Len(read(q)) = n
    <3>1. \A i \in 1 .. n : r.items[i] \in AnyItem
      BY <1>1, ElementOfSeq
    <3>2. read(q) \in [1 .. n -> BlankItem]
      BY <3>1 DEF BlankItem
    <3> HIDE DEF q
    <3> QED
      BY <1>1, <3>2
  <2>2. p \in Seq(BlankItem) /\ Blanks(n - q) \in Seq(BlankItem)
    <3>1. AnyItem \subseteq BlankItem /\ {Blank} \subseteq BlankItem
      BY DEF BlankItem
    <3>2. Blanks(n - q) \in Seq({Blank})
      BY <1>3, BlanksAre
    <3> QED
      BY <1>2, <3>1, <3>2, SeqMonotonic
  <2>3. \A i \in 1 .. n : read(q)[i] = IF i <= q THEN r.items[i] ELSE Blank
    OBVIOUS
  <2>4. Len(Blanks(n - q)) = n - q /\ \A i \in 1 .. n - q : Blanks(n - q)[i] = Blank
    BY <1>3, BlanksAre
  <2> DEFINE c == p \o Blanks(n - q)
             w == read(q)
  <2> HIDE DEF p, q, n, read
  <2>5. /\ c \in Seq(BlankItem) /\ Len(c) = n
        /\ \A i \in 1 .. n : c[i] = IF i <= q THEN p[i] ELSE Blanks(n - q)[i - q]
    <3>1. q \in Nat /\ n \in Nat /\ q + (n - q) = n
      BY <1>1, <1>3
    <3>2. /\ c \in Seq(BlankItem) /\ Len(c) = Len(p) + Len(Blanks(n - q))
          /\ \A i \in 1 .. Len(p) + Len(Blanks(n - q)) :
               c[i] = IF i <= Len(p) THEN p[i] ELSE Blanks(n - q)[i - Len(p)]
      BY <2>2, ConcatProperties
    <3> HIDE DEF c
    <3> QED
      BY <1>2, <2>4, <3>1, <3>2
  <2> HIDE DEF c
  <2>6. ASSUME NEW i \in 1 .. n PROVE w[i] = c[i]
    <3>0. w[i] = (IF i <= q THEN r.items[i] ELSE Blank) /\ q \in Nat /\ n \in Nat
      BY <1>1, <1>3, <2>3 DEF w
    <3>1. CASE i <= q
      <4>1. i \in 1 .. q
        BY <3>0, <3>1
      <4> QED
        BY <1>2, <2>5, <3>0, <3>1, <4>1
    <3>2. CASE ~(i <= q)
      <4>1. i - q \in 1 .. n - q
        BY <3>0, <3>2
      <4> QED
        BY <2>4, <2>5, <3>0, <3>2, <4>1
    <3> QED
      BY <3>1, <3>2
  <2>7. w = c
    <3>1. w \in Seq(BlankItem) /\ Len(w) = n
      BY <2>1 DEF w
    <3> QED
      BY <2>5, <2>6, <3>1, SeqEqual
  <2>8. v = p \o Blanks(n - q)
    BY <1>6, <2>7 DEF w, c
  <2> QED
    BY <1>3, <2>8 DEF p
<1> QED
  BY <1>4, <1>5, <1>6

(* The items of one more record. *)
LEMMA StoredNext ==
  ASSUME LoaderInv, NEW n \in 1 .. Len(disk[save]), NEW t
  PROVE  /\ Stored(t, n - 1) \in Seq(AnyItem)
         /\ Stored(t, n) = Stored(t, n - 1) \o Part(disk[save][n], t)
<1> DEFINE P(k) == Part(disk[save][k], t)
           s == [k \in 1 .. n - 1 |-> P(k)]
           u == [k \in 1 .. n |-> P(k)]
<1>1. save \in File /\ Len(disk[save]) \in Nat
      /\ \A k \in 1 .. Len(disk[save]) : disk[save][k] \in FileRecord(save)
  <2>1. save \in File
    BY DEF File
  <2>2. disk[save] \in Seq(FileRecord(save))
    BY <2>1 DEF LoaderInv, DiskInv
  <2> QED
    BY <2>1, <2>2, LenProperties, ElementOfSeq
<1>2. \A k \in 1 .. n : P(k) \in Vec(AnyItem)
  BY <1>1, PartIs DEF Vec
<1> HIDE DEF P
<1>3. s \in Parts(AnyItem) /\ Len(s) = n - 1
  <2>1. s \in [1 .. n - 1 -> Vec(AnyItem)] /\ n - 1 \in Nat
    BY <1>2
  <2> QED
    BY <2>1 DEF Parts, Vec
<1>4. u \in Seq(Vec(AnyItem)) /\ Len(u) = n
  <2>1. u \in [1 .. n -> Vec(AnyItem)] /\ n \in Nat
    BY <1>2
  <2> QED
    BY <2>1
<1>5. P(n) \in Vec(AnyItem) /\ \A k \in 1 .. n - 1 : u[k] = s[k]
  BY <1>2
<1>6. u[n] = P(n)
  OBVIOUS
<1> HIDE DEF s, u
<1>7. Append(s, P(n)) = u
  <2> DEFINE a == Append(s, P(n))
  <2>1. /\ a \in Seq(Vec(AnyItem)) /\ Len(a) = (n - 1) + 1
        /\ \A k \in 1 .. n - 1 : a[k] = s[k]
        /\ a[(n - 1) + 1] = P(n)
    BY <1>3, <1>5, AppendProperties DEF Parts, Vec
  <2> HIDE DEF a
  <2>2. (n - 1) + 1 = n /\ \A k \in 1 .. n : k \in 1 .. n - 1 \/ k = n
    OBVIOUS
  <2>3. \A k \in 1 .. n : a[k] = u[k]
    BY <1>5, <1>6, <2>1, <2>2
  <2>4. a = u
    BY <1>4, <2>1, <2>2, <2>3, SeqEqual
  <2> QED
    BY <2>4 DEF a
<1>8. FlattenSeq(u) = FlattenSeq(s) \o P(n) /\ FlattenSeq(s) \in Vec(AnyItem)
  BY <1>3, <1>5, <1>7, FlattenAppend, FlattenType
<1> QED
  BY <1>8 DEF Stored, s, u, P, Vec

-----------------------------------------------------------------------------
(* A step that reads no record loads nothing. *)
LEMMA SameRead ==
  ASSUME LoaderInv, UNCHANGED <<disk, killed, loaded>>, \A f \in File : Read(f)' = Read(f)
  PROVE  ItemsInv' /\ EdgesInv' /\ BlocksInv'
<1>0. save \in File /\ VCPU \subseteq File
  BY DEF File
<1>1. ItemsInv'
  <2>1. ItemsInv
    BY DEF LoaderInv
  <2> QED
    BY <1>0, <2>1 DEF ItemsInv, IsRead, Stored, loaded
<1>2. EdgesInv'
  <2>1. EdgesInv
    BY DEF LoaderInv
  <2>2. \A v \in VCPU : Read(v)' = Read(v)
    BY <1>0
  <2> QED
    BY <2>1, <2>2 DEF EdgesInv, loaded
<1>3. BlocksInv'
  <2>1. BlocksInv
    BY DEF LoaderInv
  <2> QED
    BY <1>0, <2>1 DEF BlocksInv, FoundBut, TornPcs, loaded
<1> QED
  BY <1>1, <1>2, <1>3

(* Once the emulator is gone the files stay as they are. *)
LEMMA SameDisk ==
  ASSUME LoaderInv, UNCHANGED <<disk, unsaved, killed>>, stage' # "run"
  PROVE  DiskInv'
  BY DEF LoaderInv, DiskInv

LEMMA Other_Inv ==
  ASSUME LoaderInv,
         (\E f \in File : OpenFile(f)) \/ ReadNone \/ CloseFile \/ LoadDone
  PROVE  LoaderInv'
<1>0. StageInv /\ None \notin File
  BY LoaderAssumption DEF LoaderInv, LoaderAssumption, File
<1>1. \A f \in File : Len(disk[f]) \in Nat
  BY LenProperties DEF LoaderInv, DiskInv
<1>2. CASE \E f \in File : OpenFile(f)
  <2>1. PICK f \in File : OpenFile(f)
    BY <1>2
  <2> USE DEF OpenFile
  <2>2. StageInv' /\ stage' = "load"
    BY <1>0, <1>1, <2>1 DEF StageInv
  <2>3. \A g \in File : Read(g)' = Read(g)
    BY <1>0, <2>1 DEF Read
  <2> QED
    BY <2>1, <2>2, <2>3, SameRead, SameDisk DEF LoaderInv
<1>3. CASE ReadNone
  <2> USE DEF ReadNone, Reading
  <2>1. StageInv' /\ stage' = "load"
    <3>1. file \in File /\ pos \in 1 .. Len(disk[file]) + 1 /\ Len(disk[file]) \in Nat
      BY <1>0, <1>1, <1>3 DEF StageInv
    <3>2. pos = Len(disk[file]) + 1
      BY <1>3, <3>1
    <3>3. good' \in BOOLEAN
      BY <1>3 DEF GoodAtEnd
    <3> QED
      BY <1>0, <1>3, <3>1, <3>2, <3>3 DEF StageInv
  <2>2. \A g \in File : Read(g)' = Read(g)
    BY <1>3 DEF Read
  <2> QED
    BY <1>3, <2>1, <2>2, SameRead, SameDisk DEF LoaderInv
<1>4. CASE CloseFile
  <2> USE DEF CloseFile
  <2>1. StageInv' /\ stage' = "load"
    BY <1>0, <1>4 DEF StageInv
  <2>2. ASSUME NEW g \in File PROVE Read(g)' = Read(g)
    <3>1. CASE g = file
      <4>1. pos = Len(disk[file]) + 1 /\ file \notin left /\ Len(disk[file]) \in Nat
        BY <1>0, <1>1, <1>4, <3>1 DEF StageInv
      <4> QED
        BY <1>0, <1>4, <3>1, <4>1 DEF Read
    <3>2. CASE g # file
      BY <1>0, <1>4, <3>2 DEF Read
    <3> QED
      BY <3>1, <3>2
  <2> QED
    BY <1>4, <2>1, <2>2, SameRead, SameDisk DEF LoaderInv
<1>5. CASE LoadDone
  <2> USE DEF LoadDone, reader
  <2>1. StageInv' /\ stage' = "done"
    BY <1>0, <1>5 DEF StageInv
  <2>2. \A g \in File : Read(g)' = Read(g)
    BY <1>5 DEF Read
  <2> QED
    BY <1>5, <2>1, <2>2, SameRead, SameDisk DEF LoaderInv
<1> QED
  BY <1>2, <1>3, <1>4, <1>5

(* A step that reads a record reads one more of its file, the last one if it  *)
(* is not whole.                                                            *)
LEMMA StepIs ==
  ASSUME LoaderInv, NEW t, At(t), Step, stage' = "load" \/ (stage' = "crashed" /\ killed /\ CutShort)
  PROVE  /\ file \in File /\ pos \in 1 .. Len(disk[file]) /\ stage = "load"
         /\ disk[file][pos] \in FileRecord(file)
         /\ Whole(disk[file][pos]) \/ (killed /\ pos = Len(disk[file]))
         /\ (file = save) <=> (t # "edge_map")
         /\ \A f \in File : f = file => Read(f) = pos - 1 /\ Read(f)' = pos
         /\ \A f \in File : f # file => Read(f)' = Read(f)
         /\ DiskInv' /\ StageInv'
         /\ UNCHANGED <<disk, killed>>
<1>1. /\ stage = "load" /\ file # None /\ good /\ pos <= Len(disk[file])
      /\ disk[file][pos].type = t
      /\ pos' = pos + 1 /\ good' = Whole(disk[file][pos])
      /\ UNCHANGED <<disk, unsaved, flushes, killed, left, file>>
  BY DEF At, Reading, Step
<1>2. StageInv /\ DiskInv
  BY DEF LoaderInv
<1>3. file \in File /\ file \notin left /\ pos \in 1 .. Len(disk[file]) + 1 /\ pos \in Nat
  BY <1>1, <1>2 DEF StageInv
<1>4. disk[file] \in Seq(FileRecord(file)) /\ Len(disk[file]) \in Nat
      /\ DOMAIN disk[file] = 1 .. Len(disk[file])
  BY <1>2, <1>3, LenProperties DEF DiskInv
<1>5. pos \in 1 .. Len(disk[file])
  BY <1>1, <1>3, <1>4
<1>6. disk[file][pos] \in FileRecord(file)
  BY <1>4, <1>5, ElementOfSeq
<1>7. Whole(disk[file][pos]) \/ (killed /\ pos = Len(disk[file]))
  BY <1>2, <1>3, <1>4, <1>5 DEF DiskInv
<1>8. (file = save) <=> (t # "edge_map")
  <2>1. CASE file = save
    BY <1>1, <1>6, <2>1 DEF FileRecord, MainRecord, IsMain
  <2>2. CASE file # save
    BY <1>1, <1>6, <2>2 DEF FileRecord, EdgeRecord, IsEdges
  <2> QED
    BY <2>1, <2>2
<1>9. \A f \in File : f = file => Read(f) = pos - 1 /\ Read(f)' = pos
  BY <1>1, <1>3 DEF Read
<1>10. \A f \in File : f # file => Read(f)' = Read(f)
  BY <1>1 DEF Read
<1>11. DiskInv'
  BY <1>1, SameDisk
<1>12. StageInv'
  <2>1. good' \in BOOLEAN /\ (~good' => pos = Len(disk[file]))
    BY <1>1, <1>7 DEF Whole
  <2>2. pos' \in Nat /\ pos' \in 1 .. Len(disk[file]) + 1
    BY <1>1, <1>4, <1>5
  <2>3. ~good' => pos' = Len(disk[file]) + 1
    BY <1>1, <2>1
  <2> QED
    BY <1>1, <1>2, <2>1, <2>2, <2>3 DEF StageInv, CutShort
<1> QED
  BY <1>1, <1>3, <1>5, <1>6, <1>7, <1>8, <1>9, <1>10, <1>11, <1>12

(* What the part of one more record, and blanks, add to what was read. *)
LEMMA ItemsRead ==
  ASSUME LoaderInv, NEW t, NEW out, IsRead(t, out), file = save, file \in File, file \notin left,
         pos \in 1 .. Len(disk[save]), disk[save][pos] \in FileRecord(save),
         disk[save][pos].type = t, NEW v \in Items(disk[save][pos]),
         Whole(disk[save][pos]) \/ (killed /\ pos = Len(disk[save]))
  PROVE  \E n \in Nat : /\ n = 0 \/ (killed /\ pos = Len(disk[save]))
                        /\ out \o v = Stored(t, pos) \o Blanks(n)
<1> DEFINE r == disk[save][pos]
           p == Part(r, t)
           q == Stored(t, pos - 1)
<1>0. Len(disk[save]) \in Nat /\ Read(save) = pos - 1 /\ save \in File
  BY LenProperties DEF LoaderInv, DiskInv, Read
<1>1. q \in Seq(AnyItem) /\ Stored(t, pos) = q \o p
  BY StoredNext
<1>2. out = q
  <2>1. PICK n \in Nat : /\ n = 0 \/ (killed /\ Read(save) = Len(disk[save]))
                         /\ out = Stored(t, Read(save)) \o Blanks(n)
    BY DEF IsRead
  <2>2. n = 0
    BY <1>0, <2>1
  <2> HIDE DEF q
  <2>3. q \o <<>> = q
    BY <1>1, ConcatEmptySeq
  <2> QED
    BY <1>0, <2>1, <2>2, <2>3, NoBlanks DEF q
<1>3. p \in Seq(AnyItem)
  BY <1>0, PartIs
<1>4. PICK m \in Nat : v = p \o Blanks(m) /\ (Whole(r) => m = 0)
  BY <1>0, ItemsAre
<1> HIDE DEF r, p, q
<1>5. q \o (p \o Blanks(m)) = (q \o p) \o Blanks(m)
  <2>1. AnyItem \subseteq BlankItem /\ {Blank} \subseteq BlankItem /\ Blanks(m) \in Seq({Blank})
    BY BlanksAre DEF BlankItem
  <2>2. q \in Seq(BlankItem) /\ p \in Seq(BlankItem) /\ Blanks(m) \in Seq(BlankItem)
    BY <1>1, <1>3, <2>1, SeqMonotonic
  <2> QED
    BY <2>2, ConcatAssociative
<1> QED
  BY <1>1, <1>2, <1>4, <1>5 DEF r

(* A record of another kind adds nothing. *)
LEMMA OtherItems ==
  ASSUME LoaderInv, NEW t, NEW out, IsRead(t, out), NEW n \in 1 .. Len(disk[save]),
         Read(save) = n - 1, disk[save][n] \in FileRecord(save), disk[save][n].type # t
  PROVE  out = Stored(t, n) \o Blanks(0)
<1>0. Len(disk[save]) \in Nat /\ save \in File
  BY LenProperties DEF LoaderInv, DiskInv, File
<1>1. Stored(t, n - 1) \in Seq(AnyItem) /\ Stored(t, n) = Stored(t, n - 1) \o <<>>
  <2>1. Part(disk[save][n], t) = <<>>
    BY <1>0, PartIs
  <2> QED
    BY <2>1, StoredNext
<1>2. Stored(t, n) = Stored(t, n - 1)
  BY <1>1, ConcatEmptySeq
<1>3. PICK m \in Nat : /\ m = 0 \/ (killed /\ Read(save) = Len(disk[save]))
                       /\ out = Stored(t, Read(save)) \o Blanks(m)
  BY DEF IsRead
<1>4. m = 0
  BY <1>0, <1>3
<1> QED
  BY <1>2, <1>3, <1>4

(* The edges stay those of the whole records when another file is read. *)
LEMMA SameEdges ==
  ASSUME LoaderInv, UNCHANGED <<disk, edge_map>>, \A v \in VCPU : Read(v)' = Read(v)
  PROVE  EdgesInv'
<1>1. EdgesInv
  BY DEF LoaderInv
<1> QED
  BY <1>1 DEF EdgesInv

(* The blocks stay those of the whole records when no block is read. *)
LEMMA SameBlocks ==
  ASSUME LoaderInv, UNCHANGED <<disk, killed, block_map>>,
         \A n \in 1 .. Read(save) : n \in 1 .. Read(save)',
         \A n \in 1 .. Read(save)' : n \in 1 .. Read(save) \/ disk[save][n].type # "block"
                                     \/ ~Whole(disk[save][n])
  PROVE  BlocksInv'
<1>1. BlocksInv
  BY DEF LoaderInv
<1>2. PICK gone \in {0} \cup TornPcs(Read(save)) : FoundBut(gone)
  BY <1>1 DEF BlocksInv
<1>3. gone \in {0} \cup TornPcs(Read(save))'
  BY <1>2 DEF TornPcs
<1>4. FoundBut(gone)'
  BY <1>2 DEF FoundBut, Ran
<1> QED
  BY <1>1, <1>3, <1>4 DEF BlocksInv

(* Reading interrupts or states: nothing is lost, blanks come last. *)
LEMMA VectorStep ==
  ASSUME LoaderInv, NEW t \in {"interrupts", "vcpu_states"}, At(t), Step, stage' = stage,
         UNCHANGED <<block_map, edge_map>>,
         NEW v \in Items(disk[file][pos]),
         t = "interrupts" => interrupts' = interrupts \o v /\ block_states' = block_states,
         t = "vcpu_states" => block_states' = block_states \o v /\ interrupts' = interrupts
  PROVE  LoaderInv'
<1>1. stage' = "load"
  BY DEF At, Reading
<1>2. /\ file \in File /\ pos \in 1 .. Len(disk[file]) /\ file = save
      /\ disk[file][pos] \in FileRecord(file)
      /\ Whole(disk[file][pos]) \/ (killed /\ pos = Len(disk[file]))
      /\ Read(save) = pos - 1 /\ Read(save)' = pos
      /\ \A f \in File : f # save => Read(f)' = Read(f)
      /\ DiskInv' /\ StageInv' /\ UNCHANGED <<disk, killed>>
  BY <1>1, StepIs
<1>3. disk[save][pos].type = t /\ file \notin left
  BY <1>2 DEF At, LoaderInv, StageInv
<1>4. \A f \in VCPU : f \in File /\ f # save
  BY LoaderAssumption DEF File, LoaderAssumption
<1>5. EdgesInv'
  BY <1>2, <1>4, SameEdges
<1>6. BlocksInv'
  <2>1. /\ \A n \in 1 .. pos : n \in 1 .. pos - 1 \/ n = pos
        /\ \A n \in 1 .. pos - 1 : n \in 1 .. pos
    BY <1>2
  <2>2. disk[save][pos].type # "block"
    BY <1>3
  <2>3. UNCHANGED <<disk, killed, block_map>>
    BY <1>2
  <2> QED
    BY <1>2, <2>1, <2>2, <2>3, SameBlocks
<1>7. IsRead("interrupts", interrupts) /\ IsRead("vcpu_states", block_states)
  BY DEF LoaderInv, ItemsInv
<1>8. \A u, n : Stored(u, n)' = Stored(u, n)
  BY <1>2 DEF Stored
<1>9. ASSUME NEW out, IsRead(t, out) PROVE \E n \in Nat : /\ n = 0 \/ (killed /\ pos = Len(disk[save]))
                                                       /\ out \o v = Stored(t, pos) \o Blanks(n)
  <2>1. v \in Items(disk[save][pos]) /\ disk[save][pos] \in FileRecord(save)
    BY <1>2
  <2> QED
    <3>1. /\ file = save /\ file \in File /\ file \notin left /\ pos \in 1 .. Len(disk[save])
          /\ disk[save][pos].type = t
          /\ Whole(disk[save][pos]) \/ (killed /\ pos = Len(disk[save]))
      BY <1>2, <1>3
    <3> QED
      BY <1>9, <2>1, <3>1, ItemsRead
<1>10. CASE t = "interrupts"
  <2>1. interrupts' = interrupts \o v /\ block_states' = block_states
    BY <1>10
  <2>2. IsRead("interrupts", interrupts)'
    <3>1. PICK n \in Nat : /\ n = 0 \/ (killed /\ pos = Len(disk[save]))
                           /\ interrupts \o v = Stored(t, pos) \o Blanks(n)
      BY <1>7, <1>9, <1>10
    <3> QED
      BY <1>2, <1>8, <1>10, <2>1, <3>1 DEF IsRead
  <2>3. IsRead("vcpu_states", block_states)'
    <3>1. block_states = Stored("vcpu_states", pos) \o Blanks(0)
      BY <1>2, <1>3, <1>7, <1>10, OtherItems
    <3> QED
      BY <1>2, <1>8, <2>1, <3>1 DEF IsRead
  <2> QED
    BY <1>2, <1>5, <1>6, <2>2, <2>3 DEF LoaderInv, ItemsInv
<1>11. CASE t = "vcpu_states"
  <2>1. block_states' = block_states \o v /\ interrupts' = interrupts
    BY <1>11
  <2>2. IsRead("vcpu_states", block_states)'
    <3>1. PICK n \in Nat : /\ n = 0 \/ (killed /\ pos = Len(disk[save]))
                           /\ block_states \o v = Stored(t, pos) \o Blanks(n)
      BY <1>7, <1>9, <1>11
    <3> QED
      BY <1>2, <1>8, <1>11, <2>1, <3>1 DEF IsRead
  <2>3. IsRead("interrupts", interrupts)'
    <3>1. interrupts = Stored("interrupts", pos) \o Blanks(0)
      BY <1>2, <1>3, <1>7, <1>11, OtherItems
    <3> QED
      BY <1>2, <1>8, <2>1, <3>1 DEF IsRead
  <2> QED
    BY <1>2, <1>5, <1>6, <2>2, <2>3 DEF LoaderInv, ItemsInv
<1> QED
  BY <1>10, <1>11

LEMMA ReadInterrupts_Inv == LoaderInv /\ ReadInterrupts => LoaderInv'
  BY VectorStep DEF ReadInterrupts, Appended

LEMMA ReadStates_Inv == LoaderInv /\ ReadStates => LoaderInv'
  BY VectorStep DEF ReadStates, Appended

LEMMA ReadEdges_Inv == LoaderInv /\ ReadEdges => LoaderInv'
<1> SUFFICES ASSUME LoaderInv, ReadEdges PROVE LoaderInv'
  OBVIOUS
<1> DEFINE r == disk[file][pos]
<1>1. /\ At("edge_map") /\ Step /\ UNCHANGED <<stage, block_map, interrupts, block_states>>
      /\ edge_map' = IF Whole(r) THEN edge_map \cup r.items[1] ELSE edge_map
  BY DEF ReadEdges, Merged
<1>2. stage' = "load"
  BY <1>1 DEF At, Reading
<1>3. /\ file \in File /\ pos \in 1 .. Len(disk[file]) /\ file # save
      /\ \A f \in File : f = file => Read(f) = pos - 1 /\ Read(f)' = pos
      /\ \A f \in File : f # file => Read(f)' = Read(f)
      /\ DiskInv' /\ StageInv' /\ UNCHANGED <<disk, killed>>
  BY <1>1, <1>2, StepIs
<1>4. save \in File /\ file \in VCPU /\ VCPU \subseteq File /\ Read(save)' = Read(save)
  BY <1>3 DEF File
<1>5. ItemsInv'
  <2>1. IsRead("interrupts", interrupts) /\ IsRead("vcpu_states", block_states)
    BY DEF LoaderInv, ItemsInv
  <2> QED
    BY <1>1, <1>3, <1>4, <2>1 DEF ItemsInv, IsRead, Stored
<1>6. BlocksInv'
  BY <1>1, <1>3, <1>4, SameBlocks
<1>7. EdgesInv'
  <2> SUFFICES ASSUME NEW e
               PROVE  e \in edge_map' <=>
                        \E v \in VCPU : \E n \in 1 .. Read(v)' :
                          Whole(disk[v][n]) /\ e \in disk[v][n].items[1]
    BY <1>3 DEF EdgesInv
  <2>1. e \in edge_map <=>
          \E v \in VCPU : \E n \in 1 .. Read(v) : Whole(disk[v][n]) /\ e \in disk[v][n].items[1]
    BY DEF LoaderInv, EdgesInv
  <2>2. e \in edge_map' <=> e \in edge_map \/ (Whole(r) /\ e \in r.items[1])
    BY <1>1
  <2>3. \A v \in VCPU : v = file =>
          \A n : n \in 1 .. Read(v)' <=> n \in 1 .. Read(v) \/ n = pos
    BY <1>3, <1>4
  <2>4. \A v \in VCPU : v # file => Read(v)' = Read(v)
    BY <1>3, <1>4
  <2>5. ASSUME e \in edge_map'
        PROVE  \E v \in VCPU : \E n \in 1 .. Read(v)' :
                 Whole(disk[v][n]) /\ e \in disk[v][n].items[1]
    <3>1. CASE e \in edge_map
      <4>1. PICK v \in VCPU : \E n \in 1 .. Read(v) :
              Whole(disk[v][n]) /\ e \in disk[v][n].items[1]
        BY <2>1, <3>1
      <4>2. \A n : n \in 1 .. Read(v) => n \in 1 .. Read(v)'
        BY <2>3, <2>4
      <4> QED
        BY <4>1, <4>2
    <3>2. CASE Whole(r) /\ e \in r.items[1]
      <4>1. PICK v \in VCPU : v = file
        BY <1>4
      <4>2. pos \in 1 .. Read(v)'
        BY <2>3, <4>1
      <4> QED
        BY <3>2, <4>1, <4>2
    <3> QED
      BY <2>2, <2>5, <3>1, <3>2
  <2>6. ASSUME NEW v \in VCPU, NEW n \in 1 .. Read(v)', Whole(disk[v][n]), e \in disk[v][n].items[1]
        PROVE  e \in edge_map'
    <3>1. CASE v = file /\ n = pos
      BY <2>2, <2>6, <3>1
    <3>2. CASE n \in 1 .. Read(v)
      BY <2>1, <2>2, <2>6, <3>2
    <3> QED
      BY <2>3, <2>4, <2>6, <3>1, <3>2
  <2> QED
    BY <2>5, <2>6
<1> QED
  BY <1>3, <1>5, <1>6, <1>7 DEF LoaderInv

(* The cut goes through the last record of the main file only. *)
LEMMA NoneTornBefore ==
  ASSUME LoaderInv, NEW p \in 1 .. Len(disk[save])
  PROVE  TornPcs(p - 1) = {}
<1>0. save \in File
  BY DEF File
<1>1. disk[save] \in Seq(MainRecord) /\ Len(disk[save]) \in Nat /\ DOMAIN disk[save] = 1 .. Len(disk[save])
  BY <1>0, LenProperties DEF LoaderInv, DiskInv, FileRecord
<1>2. ASSUME NEW n \in 1 .. p - 1 PROVE ~Cut(disk[save][n])
  <2>1. n \in 1 .. Len(disk[save]) /\ n # Len(disk[save])
    BY <1>1
  <2>2. Whole(disk[save][n])
    BY <1>0, <1>1, <2>1 DEF LoaderInv, DiskInv
  <2>3. disk[save][n] \in MainRecord
    BY <1>1, <2>1, ElementOfSeq
  <2>4. disk[save][n].items \in Seq(AnyItem) /\ disk[save][n].items # <<>>
    BY <2>3 DEF MainRecord, AnyRecord
  <2>5. Len(disk[save][n].items) # 0
    BY <2>4, EmptySeq, LenProperties
  <2> QED
    BY <2>2, <2>5 DEF Cut, Whole
<1> QED
  BY <1>2 DEF TornPcs

(* A block that is read whole is new: no other that ran has its key, and only *)
(* the record the cut went through may take another's.                      *)
LEMMA ReadBlock_Inv == LoaderInv /\ ReadBlock => LoaderInv'
<1> SUFFICES ASSUME LoaderInv, ReadBlock PROVE LoaderInv'
  OBVIOUS
<1> DEFINE r == disk[file][pos]
<1>1. PICK v \in Items(r) :
        IF v = <<>> THEN stage' = "crashed" /\ UNCHANGED block_map
        ELSE /\ \E k \in Keys(r, v) : block_map' = [block_map EXCEPT ![k] = v]
             /\ UNCHANGED stage
  BY DEF ReadBlock
<1>2. At("block") /\ Step /\ UNCHANGED <<edge_map, interrupts, block_states>>
  BY DEF ReadBlock
<1>3. stage = "load" /\ r.type = "block" /\ file \in File /\ disk[file] \in Seq(FileRecord(file))
      /\ pos \in 1 .. Len(disk[file]) /\ file \notin left
  <2>1. stage = "load" /\ r.type = "block" /\ file # None /\ pos <= Len(disk[file])
    BY <1>2 DEF At, Reading
  <2>2. file \in File /\ pos \in Nat /\ pos \in 1 .. Len(disk[file]) + 1 /\ file \notin left
    BY <2>1 DEF LoaderInv, StageInv
  <2>3. disk[file] \in Seq(FileRecord(file))
    BY <2>2 DEF LoaderInv, DiskInv
  <2>4. Len(disk[file]) \in Nat
    BY <2>3, LenProperties
  <2> QED
    BY <2>1, <2>2, <2>3, <2>4
<1>4. r \in FileRecord(file) /\ (Whole(r) \/ (killed /\ pos = Len(disk[file])))
  BY <1>3, LenProperties, ElementOfSeq DEF LoaderInv, DiskInv
<1>5. PICK m \in Nat : v = Part(r, "block") \o Blanks(m) /\ (Whole(r) => m = 0)
  BY <1>1, <1>3, <1>4, ItemsAre
<1>6. Whole(r) => v = r.items /\ v # <<>>
  <2> SUFFICES ASSUME Whole(r) PROVE v = r.items /\ v # <<>>
    OBVIOUS
  <2>1. Part(r, "block") = r.items /\ Part(r, "block") \in Seq(AnyItem) /\ r.items # <<>>
    BY <1>3, <1>4, PartIs, RecordIs
  <2>2. Part(r, "block") \o <<>> = Part(r, "block")
    BY <2>1, ConcatEmptySeq
  <2> QED
    BY <1>5, <2>1, <2>2, NoBlanks
<1>7. stage' = "load" \/ (stage' = "crashed" /\ killed /\ CutShort)
  <2>1. CASE v = <<>>
    <3> DEFINE read(i) == [j \in 1 .. Len(r.items) |-> IF j <= i THEN r.items[j] ELSE Blank]
    <3>1. Len(r.items) \in Nat /\ Len(r.items) # 0
      BY <1>3, <1>4, RecordIs
    <3>2. v = read(r.stored) => Len(v) = Len(r.items)
      BY <3>1
    <3>3. r.stored < 0
      BY <1>1, <2>1, <3>1, <3>2 DEF Items
    <3>4. file = save
      BY <1>3, <1>4 DEF FileRecord, EdgeRecord, IsEdges
    <3>5. pos \in DOMAIN disk[save]
      BY <1>3, <3>4, LenProperties
    <3> QED
      BY <1>1, <1>3, <1>4, <1>6, <2>1, <3>3, <3>4, <3>5 DEF CutShort
  <2>2. CASE v # <<>>
    BY <1>1, <1>3, <2>2
  <2> QED
    BY <2>1, <2>2
<1>8. /\ file = save /\ Read(save) = pos - 1 /\ Read(save)' = pos
      /\ \A f \in File : f # save => Read(f)' = Read(f)
      /\ DiskInv' /\ StageInv' /\ UNCHANGED <<disk, killed>>
  BY <1>2, <1>3, <1>7, StepIs
<1>9. \A f \in VCPU : f \in File /\ f # save
  BY LoaderAssumption DEF File, LoaderAssumption
<1>10. EdgesInv'
  BY <1>2, <1>8, <1>9, SameEdges
<1>11. ItemsInv'
  <2>1. IsRead("interrupts", interrupts) /\ IsRead("vcpu_states", block_states)
    BY DEF LoaderInv, ItemsInv
  <2>2. /\ interrupts = Stored("interrupts", pos) \o Blanks(0)
        /\ block_states = Stored("vcpu_states", pos) \o Blanks(0)
    BY <1>3, <1>4, <1>8, <2>1, OtherItems
  <2> QED
    BY <1>2, <1>8, <2>2 DEF ItemsInv, IsRead, Stored
<1>12. PICK b \in Block : r.items = BlockItems(b)
  BY <1>3, <1>4, <1>8 DEF FileRecord, MainRecord, IsMain
<1>13. r.items[1] = <<b, 1>> /\ <<b, 1>> \in Inst
  BY <1>12, BlockItemsAre, FirstInst
<1>14. BlocksInv /\ FoundBut(0)
  <2>1. BlocksInv
    BY DEF LoaderInv
  <2>2. PICK gone \in {0} \cup TornPcs(pos - 1) : FoundBut(gone)
    BY <1>8, <2>1 DEF BlocksInv
  <2>3. TornPcs(pos - 1) = {}
    BY <1>3, <1>8, NoneTornBefore
  <2> QED
    BY <2>1, <2>2, <2>3
<1>15. CASE v = <<>>
  <2>1. ~Whole(r) /\ UNCHANGED block_map
    BY <1>1, <1>6, <1>15
  <2>2. /\ \A n \in 1 .. pos : n \in 1 .. pos - 1 \/ n = pos
        /\ \A n \in 1 .. pos - 1 : n \in 1 .. pos
    BY <1>3
  <2>3. BlocksInv'
    BY <1>8, <2>1, <2>2, SameBlocks
  <2> QED
    BY <1>8, <1>10, <1>11, <2>3 DEF LoaderInv
<1>16. CASE v # <<>>
  <2>1. PICK k \in Keys(r, v) : block_map' = [block_map EXCEPT ![k] = v]
    BY <1>1, <1>16
  <2>2. v[1] = Blank \/ v[1] = <<b, 1>>
    <3> DEFINE read(i) == [j \in 1 .. Len(r.items) |-> IF j <= i THEN r.items[j] ELSE Blank]
    <3>1. Len(r.items) \in Nat /\ Len(r.items) # 0
      BY <1>3, <1>4, RecordIs
    <3>2. v = read(0) \/ v = read(r.stored)
      BY <1>16 DEF Items
    <3> QED
      BY <1>13, <3>1, <3>2
  <2> DEFINE torn == v[1] = Blank /\ Cut(r)
             gone == IF torn THEN k ELSE 0
  <2>3. /\ k \in Key /\ 0 \in Key
        /\ k = 0 \/ k = real_pc[<<b, 1>>] \/ torn
        /\ gone \in {0} \cup TornPcs(pos)
    <3>1. CASE v[1] # Blank
      BY <1>13, <2>1, <2>2, <3>1 DEF Keys, Key
    <3>2. CASE v[1] = Blank /\ ~Cut(r)
      BY <2>1, <3>2 DEF Keys, Key
    <3>3. CASE torn
      <4>1. k \in {0} \cup Torn(real_pc[<<b, 1>>])
        BY <1>13, <2>1, <3>3 DEF Keys
      <4>2. k \in Key
        BY <1>13, <4>1 DEF Key
      <4>3. k \in {0} \cup TornPcs(pos)
        BY <1>3, <1>8, <1>13, <3>3, <4>1 DEF TornPcs
      <4> QED
        BY <3>3, <4>2, <4>3 DEF Key
    <3> QED
      BY <3>1, <3>2, <3>3
  <2>4. /\ block_map' = [j \in Key |-> block_map'[j]] /\ block_map'[k] = v
        /\ \A j \in Key : j # k => block_map'[j] = block_map[j]
    <3>1. block_map = [j \in Key |-> block_map[j]]
      BY <1>14 DEF BlocksInv
    <3> QED
      BY <2>1, <2>3, <3>1
  <2>5. ASSUME NEW n \in 1 .. pos, Ran(disk[save][n]), Whole(disk[save][n]),
               real_pc[disk[save][n].items[1]] # gone
        PROVE  block_map'[real_pc[disk[save][n].items[1]]] = disk[save][n].items
    <3> DEFINE s == disk[save][n]
    <3>1. PICK c \in Block : s.items = BlockItems(c)
      <4>1. n \in 1 .. Len(disk[save])
        BY <1>3, <1>8
      <4>2. s \in FileRecord(save)
        BY <1>3, <1>8, <4>1, ElementOfSeq
      <4> QED
        BY <2>5, <4>2 DEF FileRecord, MainRecord, IsMain, Ran
    <3>2. s.items[1] = <<c, 1>> /\ <<c, 1>> \in Executed /\ real_pc[<<c, 1>>] # 0 /\ <<c, 1>> \in Inst
      BY <2>5, <3>1, BlockItemsAre, FirstInst DEF Ran
    <3>3. real_pc[<<c, 1>>] \in Key
      BY <3>2 DEF Key
    <3>4. CASE n = pos
      <4>1. v = s.items /\ b = c
        BY <1>6, <1>8, <1>12, <2>5, <3>1, <3>4, BlockItemsDiffer
      <4>2. v[1] = <<c, 1>> /\ <<c, 1>> # Blank
        BY <3>2, <4>1, LoaderAssumption DEF LoaderAssumption
      <4>3. k = real_pc[<<c, 1>>]
        BY <4>2 DEF Keys
      <4> QED
        BY <2>4, <3>2, <4>1, <4>3
    <3>5. CASE n # pos
      <4>1. n \in 1 .. pos - 1
        BY <1>3, <3>5
      <4>2. block_map[real_pc[<<c, 1>>]] = s.items
        BY <1>8, <1>14, <2>5, <3>2, <4>1 DEF FoundBut
      <4>3. k # real_pc[<<c, 1>>]
        <5> SUFFICES ASSUME k = real_pc[<<c, 1>>] PROVE FALSE
          OBVIOUS
        <5>1. real_pc[<<b, 1>>] = real_pc[<<c, 1>>] /\ real_pc[<<b, 1>>] # 0
          BY <2>3, <2>5, <3>2
        <5>2. <<b, 1>> \in Executed
          BY <1>13, <5>1, LoaderAssumption DEF LoaderAssumption
        <5>3. <<b, 1>> = <<c, 1>>
          BY <3>2, <5>1, <5>2, LoaderAssumption DEF LoaderAssumption
        <5>4. b = c
          BY <5>3
        <5>5. n \in DOMAIN disk[save] /\ pos \in DOMAIN disk[save]
          BY <1>3, <1>8, <4>1, LenProperties
        <5>6. disk[save][n].type = "block" /\ disk[save][pos].type = "block"
              /\ disk[save][n].items = disk[save][pos].items
          BY <1>3, <1>8, <1>12, <2>5, <3>1, <5>4 DEF Ran
        <5>7. BlocksOnce(disk[save])
          BY DEF LoaderInv, DiskInv
        <5> QED
          BY <3>5, <5>5, <5>6, <5>7 DEF BlocksOnce
      <4> QED
        BY <2>4, <3>2, <3>3, <4>2, <4>3
    <3> QED
      BY <3>4, <3>5
  <2>6. ASSUME ~killed, NEW j \in Key, block_map'[j] # None PROVE Blank \notin Range(block_map'[j])
    <3>1. CASE j = k
      <4>1. block_map'[j] = BlockItems(b)
        BY <1>4, <1>6, <1>12, <2>4, <2>6, <3>1
      <4>2. BlockItems(b) \in Seq(Inst)
        BY BlockItemsAre
      <4>3. Range(BlockItems(b)) \subseteq Inst
        BY <4>2, LenProperties, ElementOfSeq DEF Range
      <4> QED
        BY <4>1, <4>3, LoaderAssumption DEF LoaderAssumption
    <3>2. CASE j # k
      BY <1>14, <2>4, <2>6, <3>2 DEF BlocksInv
    <3> QED
      BY <3>1, <3>2
  <2>7. BlocksInv'
    <3>0. PICK g : g = gone
      OBVIOUS
    <3>1. FoundBut(g)'
      BY <1>8, <2>5, <3>0 DEF FoundBut, Ran
    <3>2. g \in {0} \cup TornPcs(Read(save))'
      BY <1>8, <2>3, <3>0 DEF TornPcs
    <3> QED
      BY <1>8, <2>4, <2>6, <3>1, <3>2 DEF BlocksInv
  <2> QED
    BY <1>8, <1>10, <1>11, <2>7 DEF LoaderInv
<1> QED
  BY <1>15, <1>16

LEMMA LoaderNext_Inv == LoaderInv /\ [LoaderNext]_loaderVars => LoaderInv'
<1> SUFFICES ASSUME LoaderInv, [LoaderNext]_loaderVars PROVE LoaderInv'
  OBVIOUS
<1>1. CASE FlushSome
  BY <1>1, TbFlush_Inv
<1>2. CASE ExitWithAll
  BY <1>2, AtExit_Inv
<1>3. CASE \E v \in VCPU, es \in SUBSET Edge \ {{}} : SaveEdges(v, es)
  BY <1>3, SaveEdges_Inv
<1>4. CASE Kill
  BY <1>4, Kill_Inv
<1>5. CASE (\E f \in File : OpenFile(f)) \/ ReadNone \/ CloseFile \/ LoadDone
  BY <1>5, Other_Inv
<1>6. CASE ReadBlock
  BY <1>6, ReadBlock_Inv
<1>7. CASE ReadEdges
  BY <1>7, ReadEdges_Inv
<1>8. CASE ReadInterrupts
  BY <1>8, ReadInterrupts_Inv
<1>9. CASE ReadStates
  BY <1>9, ReadStates_Inv
<1>10. CASE UNCHANGED loaderVars
  <2>1. /\ UNCHANGED <<disk, unsaved, killed, stage, left, file, pos, good>>
        /\ UNCHANGED loaded
    BY <1>10 DEF loaderVars, loaded
  <2>2. \A f \in File : Read(f)' = Read(f)
    BY <2>1 DEF Read
  <2>3. DiskInv'
    BY <2>1 DEF LoaderInv, DiskInv
  <2>4. StageInv'
    BY <2>1 DEF LoaderInv, StageInv, CutShort, NothingLoaded, loaded
  <2> QED
    BY <2>1, <2>2, <2>3, <2>4, SameRead DEF LoaderInv
<1> QED
  BY <1>1, <1>2, <1>3, <1>4, <1>5, <1>6, <1>7, <1>8, <1>9, <1>10 DEF LoaderNext, Load

(* The inductive invariant of the writers, the files and the load loop. *)
THEOREM LoaderInvHolds == LoaderSpec => []LoaderInv
<1> QED
  BY LoaderInit_Inv, LoaderNext_Inv, PTL DEF LoaderSpec

-----------------------------------------------------------------------------
LEMMA ReadAtMost ==
  ASSUME LoaderInv, NEW f \in File
  PROVE  Read(f) \in 0 .. Len(disk[f]) /\ Len(disk[f]) \in Nat
         /\ DOMAIN disk[f] = 1 .. Len(disk[f])
<1>1. disk[f] \in Seq(FileRecord(f))
  BY DEF LoaderInv, DiskInv
<1>2. Len(disk[f]) \in Nat /\ DOMAIN disk[f] = 1 .. Len(disk[f])
  BY <1>1, LenProperties
<1>3. f = file => pos \in 1 .. Len(disk[f]) + 1
  BY LoaderAssumption DEF LoaderInv, StageInv, File, LoaderAssumption
<1> QED
  BY <1>2, <1>3 DEF Read

LEMMA StoredType ==
  ASSUME LoaderInv, NEW n \in 0 .. Len(disk[save]), NEW t
  PROVE  Stored(t, n) \in Seq(AnyItem)
<1>1. save \in File /\ Len(disk[save]) \in Nat
  BY ReadAtMost DEF File
<1>2. CASE n = 0
  <2>1. [k \in 1 .. n |-> Part(disk[save][k], t)] = <<>>
    BY <1>2
  <2> QED
    BY <2>1, FlattenEmpty, EmptySeq DEF Stored
<1>3. CASE n # 0
  <2>1. n \in 1 .. Len(disk[save]) /\ disk[save][n] \in FileRecord(save)
    BY <1>1, <1>3, ElementOfSeq DEF LoaderInv, DiskInv
  <2>2. Part(disk[save][n], t) \in Seq(AnyItem)
    BY <1>1, <2>1, PartIs
  <2> QED
    BY <2>1, <2>2, StoredNext, ConcatProperties
<1> QED
  BY <1>2, <1>3

(* After a clean exit nothing is invented, whatever was written. *)
LEMMA NoBlanksRead ==
  ASSUME LoaderInv, ~killed, NEW t, NEW out, IsRead(t, out)
  PROVE  Blank \notin Range(out)
<1>1. PICK n \in Nat : /\ n = 0 \/ (killed /\ Read(save) = Len(disk[save]))
                       /\ out = Stored(t, Read(save)) \o Blanks(n)
  BY DEF IsRead
<1>2. Stored(t, Read(save)) \in Seq(AnyItem)
  BY ReadAtMost, StoredType DEF File
<1>3. out \in Seq(AnyItem)
  <2>1. n = 0
    BY <1>1
  <2> QED
    BY <1>1, <1>2, <2>1, NoBlanks, ConcatEmptySeq
<1>4. Range(out) \subseteq AnyItem
  BY <1>3, LenProperties, ElementOfSeq DEF Range
<1> QED
  BY <1>4, LoaderAssumption DEF AnyItem, LoaderAssumption

(* CleanLoad: the program stops at an empty vector only where a kill cut it,   *)
(* and after a clean exit no item is blank.                                 *)
THEOREM LoadIsClean == LoaderSpec => []CleanLoad
<1>1. LoaderInv => CleanLoad
  <2>1. ASSUME LoaderInv, ~killed
        PROVE  /\ \A k \in Key : block_map[k] # None => Blank \notin Range(block_map[k])
               /\ Blank \notin Range(interrupts) \cup Range(block_states)
    <3>1. IsRead("interrupts", interrupts) /\ IsRead("vcpu_states", block_states)
      BY <2>1 DEF LoaderInv, ItemsInv
    <3>2. Blank \notin Range(interrupts) /\ Blank \notin Range(block_states)
      BY <2>1, <3>1, NoBlanksRead
    <3>3. \A k \in Key : block_map[k] # None => Blank \notin Range(block_map[k])
      BY <2>1 DEF LoaderInv, BlocksInv
    <3> QED
      BY <3>2, <3>3
  <2> QED
    BY <2>1 DEF CleanLoad, LoaderInv, StageInv
<1> QED
  BY <1>1, LoaderInvHolds, PTL

LEMMA AllRead == ASSUME LoaderInv, stage = "done", NEW f \in File PROVE Read(f) = Len(disk[f])
  BY LoaderAssumption DEF LoaderInv, StageInv, Read, File, LoaderAssumption

(* ExecutedBlocksLoaded: every stored block that ran is found under its real  *)
(* PC, the entry's 0 apart, though blocks that never ran share that key; at    *)
(* most one is replaced, by the record the cut went through.                *)
THEOREM ExecutedBlocksAreLoaded == LoaderSpec => []ExecutedBlocksLoaded
<1>1. LoaderInv => ExecutedBlocksLoaded
  <2> SUFFICES ASSUME LoaderInv, stage = "done" PROVE ExecutedBlocksLoaded
    BY DEF ExecutedBlocksLoaded
  <2>1. save \in File
    BY DEF File
  <2>2. Read(save) = Len(disk[save]) /\ DOMAIN disk[save] = 1 .. Len(disk[save])
    BY <2>1, ReadAtMost, AllRead
  <2>3. PICK gone \in {0} \cup TornPcs(Len(disk[save])) : FoundBut(gone)
    BY <2>2 DEF LoaderInv, BlocksInv
  <2>4. ASSUME NEW b \in WholeBlocks, b[1] \in Executed, real_pc[b[1]] \notin {0, gone}
        PROVE  block_map[real_pc[b[1]]] = b
    <3>1. PICK n \in DOMAIN disk[save] :
            disk[save][n].type = "block" /\ Whole(disk[save][n]) /\ b = disk[save][n].items
      BY DEF WholeBlocks
    <3>2. Ran(disk[save][n])
      BY <2>4, <3>1 DEF Ran
    <3> QED
      BY <2>2, <2>3, <2>4, <3>1, <3>2 DEF FoundBut
  <2> QED
    BY <2>3, <2>4 DEF ExecutedBlocksLoaded
<1> QED
  BY <1>1, LoaderInvHolds, PTL

(* The edges loaded are those of the stored items of the vCPUs' files. *)
LEMMA EdgeItems ==
  ASSUME LoaderInv, NEW v \in VCPU, NEW x
  PROVE  x \in Range(StoredItems(v, "edge_map")) <=>
           \E n \in 1 .. Len(disk[v]) : Whole(disk[v][n]) /\ x = disk[v][n].items[1]
<1> DEFINE parts == [n \in DOMAIN disk[v] |-> Part(disk[v][n], "edge_map")]
<1>1. v \in File /\ v # save
  BY LoaderAssumption DEF File, LoaderAssumption
<1>2. Len(disk[v]) \in Nat /\ DOMAIN disk[v] = 1 .. Len(disk[v])
      /\ \A n \in 1 .. Len(disk[v]) : disk[v][n] \in FileRecord(v)
  BY <1>1, ReadAtMost, ElementOfSeq DEF LoaderInv, DiskInv
<1>3. StoredItems(v, "edge_map") = FlattenSeq(parts)
  BY DEF StoredItems, Part
<1>4. \A n \in 1 .. Len(disk[v]) : parts[n] = Part(disk[v][n], "edge_map") /\ parts[n] \in Vec(AnyItem)
  BY <1>1, <1>2, PartIs DEF Vec
<1>5. parts \in Parts(AnyItem) /\ DOMAIN parts = 1 .. Len(disk[v])
  <2>1. parts \in [1 .. Len(disk[v]) -> Vec(AnyItem)]
    BY <1>2, <1>4
  <2> HIDE DEF parts
  <2> QED
    BY <1>2, <2>1 DEF Parts, Vec
<1> HIDE DEF parts
<1>6. x \in Range(FlattenSeq(parts)) <=> \E n \in 1 .. Len(disk[v]) : x \in Range(parts[n])
  <2>1. Range(FlattenSeq(parts)) = UNION {Range(parts[n]) : n \in 1 .. Len(disk[v])}
    BY <1>5, FlattenRange
  <2> QED
    BY <2>1
<1>7. ASSUME NEW n \in 1 .. Len(disk[v])
      PROVE  x \in Range(parts[n]) <=> Whole(disk[v][n]) /\ x = disk[v][n].items[1]
  <2> DEFINE r == disk[v][n]
             p == Part(r, "edge_map")
  <2>1. r \in FileRecord(v) /\ p = parts[n]
    BY <1>2, <1>4
  <2>2. PICK es : r.type = "edge_map" /\ r.items = <<es>>
    BY <1>1, <2>1 DEF FileRecord, EdgeRecord, IsEdges
  <2>3. r.stored \in -1 .. 1 /\ Len(r.items) = 1
    BY <1>1, <2>1, <2>2 DEF FileRecord, EdgeRecord
  <2>4. /\ p \in Seq(AnyItem) /\ Len(p) = (IF r.stored > 0 THEN r.stored ELSE 0)
        /\ Whole(r) => p = r.items
    BY <1>1, <2>1, <2>2, PartIs
  <2> HIDE DEF r, p
  <2>5. CASE Whole(r)
    <3>1. p = <<es>> /\ r.items[1] = es
      BY <2>2, <2>4, <2>5
    <3>2. Range(p) = {es}
      BY <3>1 DEF Range
    <3> QED
      BY <2>1, <2>5, <3>1, <3>2 DEF r
  <2>6. CASE ~Whole(r)
    <3>1. Len(p) = 0
      BY <2>3, <2>4, <2>6 DEF Whole
    <3>2. DOMAIN p = {}
      BY <2>4, <3>1, LenProperties
    <3>3. Range(p) = {}
      BY <3>2 DEF Range
    <3> QED
      BY <2>1, <2>6, <3>3 DEF r
  <2> QED
    BY <2>5, <2>6
<1> QED
  BY <1>3, <1>6, <1>7

LEMMA ItemsLoaded ==
  ASSUME LoaderInv, stage = "done", NEW t, NEW out, IsRead(t, out)
  PROVE  \E n \in 0 .. Len(out) : out = StoredItems(save, t) \o Blanks(n)
<1>1. save \in File
  BY DEF File
<1>2. Read(save) = Len(disk[save]) /\ Len(disk[save]) \in Nat /\ DOMAIN disk[save] = 1 .. Len(disk[save])
  BY <1>1, AllRead, ReadAtMost
<1>3. StoredItems(save, t) = Stored(t, Len(disk[save]))
  BY <1>2 DEF StoredItems, Stored, Part
<1>4. PICK n \in Nat : out = Stored(t, Len(disk[save])) \o Blanks(n)
  BY <1>2 DEF IsRead
<1> DEFINE s == Stored(t, Len(disk[save]))
<1>5. s \in Seq(BlankItem) /\ Blanks(n) \in Seq(BlankItem) /\ Len(Blanks(n)) = n
  <2>1. s \in Seq(AnyItem) /\ Blanks(n) \in Seq({Blank}) /\ Len(Blanks(n)) = n
    <3>1. Len(disk[save]) \in 0 .. Len(disk[save])
      BY <1>2
    <3>2. s \in Seq(AnyItem)
      BY <3>1, StoredType
    <3> QED
      BY <3>2, BlanksAre
  <2>2. AnyItem \subseteq BlankItem /\ {Blank} \subseteq BlankItem
    BY DEF BlankItem
  <2> HIDE DEF s
  <2> QED
    BY <2>1, <2>2, SeqMonotonic
<1> HIDE DEF s
<1>6. Len(s) \in Nat /\ Len(out) = Len(s) + n
  <2>1. out = s \o Blanks(n)
    BY <1>4 DEF s
  <2> QED
    BY <1>5, <2>1, ConcatProperties, LenProperties
<1>7. n \in 0 .. Len(out)
  BY <1>6
<1> QED
  BY <1>3, <1>4, <1>7

(* StoredIsLoaded: whatever the order of the files and wherever one is cut,   *)
(* what is wholly stored is loaded, in order and once, blanks last.          *)
THEOREM StoredIsLoadedHolds == LoaderSpec => []StoredIsLoaded
<1>1. LoaderInv => StoredIsLoaded
  <2> SUFFICES ASSUME LoaderInv, stage = "done" PROVE
        /\ \E n \in 0 .. Len(interrupts) :
             interrupts = StoredItems(save, "interrupts") \o Blanks(n)
        /\ \E n \in 0 .. Len(block_states) :
             block_states = StoredItems(save, "vcpu_states") \o Blanks(n)
        /\ edge_map = UNION UNION {Range(StoredItems(f, "edge_map")) : f \in VCPU}
    BY DEF StoredIsLoaded
  <2>1. IsRead("interrupts", interrupts) /\ IsRead("vcpu_states", block_states)
    BY DEF LoaderInv, ItemsInv
  <2>2. /\ \E n \in 0 .. Len(interrupts) :
             interrupts = StoredItems(save, "interrupts") \o Blanks(n)
        /\ \E n \in 0 .. Len(block_states) :
             block_states = StoredItems(save, "vcpu_states") \o Blanks(n)
    BY <2>1, ItemsLoaded
  <2>3. \A v \in VCPU : Read(v) = Len(disk[v])
    BY AllRead DEF File
  <2>4. ASSUME NEW e
        PROVE  e \in edge_map <=> \E v \in VCPU : \E x \in Range(StoredItems(v, "edge_map")) : e \in x
    <3>1. e \in edge_map <=> \E v \in VCPU : \E n \in 1 .. Len(disk[v]) :
                               Whole(disk[v][n]) /\ e \in disk[v][n].items[1]
      BY <2>3 DEF LoaderInv, EdgesInv
    <3>2. ASSUME NEW v \in VCPU
          PROVE  (\E n \in 1 .. Len(disk[v]) : Whole(disk[v][n]) /\ e \in disk[v][n].items[1])
                   <=> \E x \in Range(StoredItems(v, "edge_map")) : e \in x
      BY EdgeItems
    <3> QED
      BY <3>1, <3>2
  <2>5. edge_map = UNION UNION {Range(StoredItems(f, "edge_map")) : f \in VCPU}
    <3> DEFINE U == UNION UNION {Range(StoredItems(f, "edge_map")) : f \in VCPU}
    <3>1. \A e : e \in U <=> \E v \in VCPU : \E x \in Range(StoredItems(v, "edge_map")) : e \in x
      OBVIOUS
    <3> HIDE DEF U
    <3>2. edge_map = U
      BY <2>4, <3>1
    <3> QED
      BY <3>2 DEF U
  <2> QED
    BY <2>2, <2>5
<1> QED
  BY <1>1, LoaderInvHolds, PTL
=============================================================================
