--------------------------- MODULE Profile_proofs ---------------------------
(***************************************************************************)
(* Proofs about Profile, for any labels, lengths and bounds: instructions   *)
(* are numbered in the order of their addresses, an instruction that refers *)
(* to a label goes where the label is, find::next answers the instruction   *)
(* that comes next, and a load gives what was saved first.                  *)
(***************************************************************************)
EXTENDS Profile, FiniteSetTheorems, SequenceTheorems, TLAPS

Inst == [pc : Nat, real_pc : Nat, k : Kinds \cup {"normal"}, loc : Nat, len : Lens,
         entry : BOOLEAN]
Record == [first : Inst, discrepancies : Seq(Inst)]
Maps == UNION {[S -> Record] : S \in SUBSET Nat}
Ref == [at : Nat, idx : Nat]

ProfileTypeOK ==
  /\ next \in Nat
  /\ map \in Maps
  /\ labels \in [Label -> [finalized : BOOLEAN, loc : Nat, pending : Seq(Ref)]]
  /\ file \in Seq(Maps)
  /\ uses \subseteq [label : Label, at : Nat, idx : Nat, seen : Nat]
  /\ placed \in [Label -> Seq([loc : Nat, before : Nat])]

(* Instructions do not overlap, end before the next address and are found    *)
(* under their own.                                                        *)
LayoutInv ==
  /\ IsFiniteSet(DOMAIN map)
  /\ \A a \in DOMAIN map : map[a].first.pc = a /\ a + map[a].first.len <= next
  /\ \A a, b \in DOMAIN map : a < b => a + map[a].first.len <= b

(* A use is one instruction's; it waits for its label exactly when the label *)
(* was not placed before it, and nothing else waits.                        *)
UseInv ==
  /\ \A u \in uses : /\ u.at \in DOMAIN map
                     /\ u.idx <= Len(map[u.at].discrepancies)
                     /\ u.seen <= Len(placed[u.label])
                     /\ u.seen = 0 <=> [at |-> u.at, idx |-> u.idx] \in ToPatch(u.label)
  /\ \A u, v \in uses : u.at = v.at /\ u.idx = v.idx => u = v
  /\ \A l \in Label : \A w \in ToPatch(l) :
       \E u \in uses : u.label = l /\ u.at = w.at /\ u.idx = w.idx

(* A label has the location it was placed at last. *)
LabelInv ==
  \A l \in Label :
    /\ labels[l].finalized <=> placed[l] # <<>>
    /\ labels[l].finalized => labels[l].loc = placed[l][Len(placed[l])].loc

(* A label was placed at an address already passed, before the instruction   *)
(* there, or at the next address, before the next instruction.              *)
PlaceOK(p) == /\ p.loc <= next
              /\ p.loc = next => p.before = Cardinality(DOMAIN map)
              /\ p.loc \in DOMAIN map => map[p.loc].first.real_pc = p.before
PlacedInv == \A l \in Label : \A n \in DOMAIN placed[l] : PlaceOK(placed[l][n])

(* What was saved is found under its address, in a first map that has it. *)
FileInv ==
  /\ \A n \in DOMAIN file : \A p \in DOMAIN file[n] : file[n][p].first.pc = p
  /\ \A p \in UNION {DOMAIN file[n] : n \in DOMAIN file} :
       \E n \in DOMAIN file : p \in DOMAIN file[n] /\ \A k \in 1 .. n - 1 : p \notin DOMAIN file[k]

BuildInv == LayoutInv /\ RealPcsInOrder /\ UseInv /\ LabelInv /\ PlacedInv /\ LabelsResolved
ProfileInv == ProfileTypeOK /\ BuildInv /\ FileInv

USE ProfileAssumption DEF ProfileAssumption

-----------------------------------------------------------------------------
(* A map's addresses are numbers, under each of which it has a record. *)
LEMMA MapsAre ==
  ASSUME NEW m
  PROVE  m \in Maps <=> /\ m = [a \in DOMAIN m |-> m[a]]
                        /\ DOMAIN m \subseteq Nat
                        /\ \A a \in DOMAIN m : m[a] \in Record
<1>1. ASSUME m \in Maps
      PROVE  /\ m = [a \in DOMAIN m |-> m[a]]
             /\ DOMAIN m \subseteq Nat
             /\ \A a \in DOMAIN m : m[a] \in Record
  <2> PICK S \in SUBSET Nat : m \in [S -> Record]
    BY <1>1 DEF Maps
  <2> QED
    OBVIOUS
<1>2. ASSUME m = [a \in DOMAIN m |-> m[a]], DOMAIN m \subseteq Nat,
             \A a \in DOMAIN m : m[a] \in Record
      PROVE  m \in Maps
  <2>1. m \in [DOMAIN m -> Record]
    BY <1>2
  <2> QED
    BY <1>2, <2>1 DEF Maps
<1> QED
  BY <1>1, <1>2

LEMMA NoMap == <<>> \in Maps /\ DOMAIN <<>> = {}
<1>1. DOMAIN <<>> = {} /\ <<>> = [a \in {} |-> a]
  OBVIOUS
<1>2. <<>> \in [{} -> Record]
  BY <1>1
<1> QED
  BY <1>1, <1>2 DEF Maps

LEMMA RecordIs ==
  ASSUME ProfileTypeOK, NEW a \in DOMAIN map
  PROVE  /\ a \in Nat /\ map[a] \in Record /\ map[a].first \in Inst
         /\ map[a].first.len \in Nat \ {0} /\ map[a].first.real_pc \in Nat
         /\ map[a].discrepancies \in Seq(Inst) /\ Len(map[a].discrepancies) \in Nat
<1>1. a \in Nat /\ map[a] \in Record
  BY MapsAre DEF ProfileTypeOK
<1>2. /\ map[a].first \in Inst /\ map[a].discrepancies \in Seq(Inst)
      /\ Len(map[a].discrepancies) \in Nat
  BY <1>1 DEF Record
<1> QED
  BY <1>1, <1>2 DEF Inst

(* An instruction laid out at the next address. *)
LEMMA Grown ==
  ASSUME ProfileTypeOK, LayoutInv, RealPcsInOrder,
         NEW i \in Inst, i.pc = next, i.real_pc = RealPc,
         map' = Put(map, next, [first |-> i, discrepancies |-> <<>>]),
         next' = next + i.len
  PROVE  /\ next \notin DOMAIN map /\ DOMAIN map' = DOMAIN map \cup {next}
         /\ \A a \in DOMAIN map : map'[a] = map[a]
         /\ map'[next] = [first |-> i, discrepancies |-> <<>>]
         /\ Cardinality(DOMAIN map') = Cardinality(DOMAIN map) + 1
         /\ next' \in Nat /\ next < next' /\ map' \in Maps
         /\ LayoutInv' /\ RealPcsInOrder'
<1> DEFINE D == DOMAIN map
           r == [first |-> i, discrepancies |-> <<>>]
<1>1. next \in Nat /\ i.len \in Nat \ {0} /\ next' \in Nat /\ next < next' /\ r \in Record
  <2>1. next \in Nat /\ i.len \in Nat \ {0}
    BY DEF ProfileTypeOK, Inst
  <2>2. r \in Record
    BY DEF Record
  <2> QED
    BY <2>1, <2>2
<1>2. \A a \in D : /\ a \in Nat /\ map[a] \in Record /\ map[a].first.pc = a
                   /\ map[a].first.len \in Nat \ {0} /\ map[a].first.real_pc \in Nat
                   /\ a + map[a].first.len <= next
  BY RecordIs DEF LayoutInv
<1>3. next \notin D
  BY <1>1, <1>2
<1>4. DOMAIN map' = D \cup {next} /\ (\A a \in D : map'[a] = map[a]) /\ map'[next] = r
      /\ map' = [a \in D \cup {next} |-> IF a = next THEN r ELSE map[a]]
  BY <1>3 DEF Put
<1>5. IsFiniteSet(D) /\ Cardinality(D) \in Nat /\ RealPc = Cardinality(D)
  BY FS_CardinalityType DEF LayoutInv, RealPc
<1>6. IsFiniteSet(DOMAIN map') /\ Cardinality(DOMAIN map') = Cardinality(D) + 1
  BY <1>3, <1>4, <1>5, FS_AddElement
<1> HIDE DEF r
<1>7. map' \in Maps
  BY <1>1, <1>2, <1>4, MapsAre
<1>a. r.first = i
  BY DEF r
<1>8. LayoutInv'
  <2>1. \A a \in DOMAIN map' : map'[a].first.pc = a /\ a + map'[a].first.len <= next'
    BY <1>1, <1>2, <1>4, <1>a
  <2>2. \A a, b \in DOMAIN map' : a < b => a + map'[a].first.len <= b
    <3> TAKE a, b \in DOMAIN map'
    <3> HAVE a < b
    <3>1. a \in D
      BY <1>1, <1>2, <1>4
    <3>2. CASE b \in D
      BY <1>4, <3>1, <3>2 DEF LayoutInv
    <3>3. CASE b = next
      BY <1>2, <1>4, <3>1, <3>3
    <3> QED
      BY <1>4, <3>2, <3>3
  <2> QED
    BY <1>6, <2>1, <2>2 DEF LayoutInv
<1>9. RealPcsInOrder'
  <2> DEFINE c == Cardinality(D)
             N(a) == map[a].first.real_pc
  <2>1. \A a \in D : map'[a].first.real_pc = N(a)
    BY <1>4
  <2>2. map'[next].first.real_pc = c
    BY <1>4, <1>5, <1>a
  <2>3. {N(a) : a \in D} = 0 .. c - 1 /\ (\A a, b \in D : a < b => N(a) < N(b))
    BY DEF RealPcsInOrder
  <2>4. {map'[a].first.real_pc : a \in DOMAIN map'} = {N(a) : a \in D} \cup {c}
    BY <1>3, <1>4, <2>1, <2>2
  <2>5. c \in Nat /\ Cardinality(DOMAIN map') = c + 1 /\ \A a \in D : N(a) \in Nat
    BY <1>2, <1>5, <1>6
  <2>6. \A a \in D : N(a) < c
    BY <2>3, <2>5
  <2>7. \A a, b \in DOMAIN map' : a < b => map'[a].first.real_pc < map'[b].first.real_pc
    <3> TAKE a, b \in DOMAIN map'
    <3> HAVE a < b
    <3>1. a \in D
      BY <1>1, <1>2, <1>4
    <3>2. CASE b \in D
      BY <2>1, <2>3, <3>1, <3>2
    <3>3. CASE b = next
      BY <2>1, <2>2, <2>6, <3>1, <3>3
    <3> QED
      BY <1>4, <3>2, <3>3
  <2> HIDE DEF N, c
  <2>8. (0 .. c - 1) \cup {c} = 0 .. (c + 1) - 1
    BY <2>5
  <2> QED
    BY <2>3, <2>4, <2>5, <2>7, <2>8 DEF RealPcsInOrder
<1> QED
  BY <1>1, <1>3, <1>4, <1>6, <1>7, <1>8, <1>9 DEF r

(* Firsts keep their address, length and number: nothing moves. *)
LEMMA Unmoved ==
  ASSUME ProfileTypeOK, LayoutInv, RealPcsInOrder,
         next' \in Nat, next <= next', DOMAIN map' = DOMAIN map,
         \A a \in DOMAIN map : /\ map'[a].first.pc = map[a].first.pc
                               /\ map'[a].first.len = map[a].first.len
                               /\ map'[a].first.real_pc = map[a].first.real_pc
  PROVE  LayoutInv' /\ RealPcsInOrder'
<1>1. LayoutInv'
  <2>1. \A a \in DOMAIN map : /\ a \in Nat /\ map[a].first.len \in Nat /\ next \in Nat
                              /\ a + map[a].first.len <= next /\ map[a].first.pc = a
    BY RecordIs DEF LayoutInv, ProfileTypeOK
  <2>2. \A a \in DOMAIN map' : map'[a].first.pc = a /\ a + map'[a].first.len <= next'
    BY <2>1
  <2>3. \A a, b \in DOMAIN map' : a < b => a + map'[a].first.len <= b
    BY DEF LayoutInv
  <2> QED
    BY <2>2, <2>3 DEF LayoutInv
<1>2. RealPcsInOrder'
  <2>1. {map'[a].first.real_pc : a \in DOMAIN map'} = {map[a].first.real_pc : a \in DOMAIN map}
    OBVIOUS
  <2> QED
    BY <2>1 DEF RealPcsInOrder
<1> QED
  BY <1>1, <1>2

(* An alternative added to the instruction at a. *)
LEMMA Altered ==
  ASSUME ProfileTypeOK, NEW a \in DOMAIN map, NEW i \in Inst,
         map' = [map EXCEPT ![a].discrepancies = Append(@, i)]
  PROVE  /\ DOMAIN map' = DOMAIN map /\ map' \in Maps
         /\ \A b \in DOMAIN map : map'[b].first = map[b].first
         /\ \A b \in DOMAIN map : b # a => map'[b] = map[b]
         /\ Len(map'[a].discrepancies) = Len(map[a].discrepancies) + 1
         /\ map'[a].discrepancies[Len(map[a].discrepancies) + 1] = i
         /\ \A n \in 1 .. Len(map[a].discrepancies) :
              map'[a].discrepancies[n] = map[a].discrepancies[n]
<1> DEFINE s == map[a].discrepancies
<1>1. s \in Seq(Inst) /\ Len(s) \in Nat /\ map[a] \in Record /\ map[a].first \in Inst
  BY RecordIs
<1>2. /\ Append(s, i) \in Seq(Inst) /\ Len(Append(s, i)) = Len(s) + 1
      /\ Append(s, i)[Len(s) + 1] = i /\ \A n \in 1 .. Len(s) : Append(s, i)[n] = s[n]
  BY <1>1
<1>3. map \in Maps
  BY DEF ProfileTypeOK
<1>4. map = [b \in DOMAIN map |-> map[b]] /\ DOMAIN map \subseteq Nat
      /\ \A b \in DOMAIN map : map[b] \in Record
  BY <1>3, MapsAre
<1>5. map' = [b \in DOMAIN map |-> IF b = a THEN [map[a] EXCEPT !.discrepancies = Append(s, i)]
                                   ELSE map[b]]
  BY <1>4
<1>6. map[a] = [first |-> map[a].first, discrepancies |-> s]
  BY <1>1 DEF Record
<1>7. map'[a] = [first |-> map[a].first, discrepancies |-> Append(s, i)]
  BY <1>5, <1>6
<1> HIDE DEF s
<1>8. map'[a] \in Record
  BY <1>1, <1>2, <1>7 DEF Record
<1>9. DOMAIN map' = DOMAIN map /\ \A b \in DOMAIN map : b # a => map'[b] = map[b]
  BY <1>5
<1>10. map' \in Maps
  <2>1. \A b \in DOMAIN map : map'[b] \in Record
    BY ONLY <1>4, <1>8, <1>9
  <2>2. map' = [b \in DOMAIN map' |-> map'[b]]
    BY ONLY <1>5
  <2> QED
    BY ONLY <1>4, <1>9, <2>1, <2>2, MapsAre
<1>11. \A b \in DOMAIN map : map'[b].first = map[b].first
  BY <1>7, <1>9
<1> QED
  BY <1>2, <1>7, <1>9, <1>10, <1>11 DEF s

LEMMA RangeOfAppend ==
  ASSUME NEW S, NEW s \in Seq(S), NEW x
  PROVE  Range(Append(s, x)) = Range(s) \cup {x}
<1>1. Len(s) \in Nat /\ DOMAIN s = 1 .. Len(s) /\ DOMAIN Append(s, x) = 1 .. Len(s) + 1
  OBVIOUS
<1>2. Append(s, x)[Len(s) + 1] = x /\ \A n \in 1 .. Len(s) : Append(s, x)[n] = s[n]
  OBVIOUS
<1>3. 1 .. Len(s) + 1 = (1 .. Len(s)) \cup {Len(s) + 1}
  BY <1>1
<1> HIDE <1>1
<1> QED
  BY <1>1, <1>2, <1>3 DEF Range

(* The instructions of the uses are still there, as they were. *)
UserIn(m, u) == IF u.idx = 0 THEN m[u.at].first ELSE m[u.at].discrepancies[u.idx]
UsersKept == \A u \in uses : /\ u.at \in DOMAIN map'
                             /\ u.idx <= Len(map'[u.at].discrepancies)
                             /\ UserIn(map', u) = UserIn(map, u)

LEMMA UsesKept ==
  ASSUME UseInv, LabelInv, LabelsResolved, UsersKept, UNCHANGED <<labels, uses, placed>>
  PROVE  UseInv' /\ LabelInv' /\ LabelsResolved'
<1>1. \A l : ToPatch(l)' = ToPatch(l)
  BY DEF ToPatch
<1>2. UseInv'
  <2>1. \A u \in uses' : /\ u.at \in DOMAIN map'
                         /\ u.idx <= Len(map'[u.at].discrepancies)
                         /\ u.seen <= Len(placed'[u.label])
                         /\ u.seen = 0 <=> [at |-> u.at, idx |-> u.idx] \in ToPatch(u.label)'
    BY <1>1 DEF UseInv, UsersKept
  <2>2. \A l \in Label : \A w \in ToPatch(l)' :
          \E u \in uses' : u.label = l /\ u.at = w.at /\ u.idx = w.idx
    BY <1>1 DEF UseInv
  <2> QED
    BY <2>1, <2>2 DEF UseInv
<1>3. LabelInv'
  BY DEF LabelInv
<1>4. LabelsResolved'
  BY DEF LabelsResolved, UsersKept, Resolved, Place, User, UserIn
<1> QED
  BY <1>2, <1>3, <1>4

(* A reference to a label is added: the use u of it. *)
UseType == [label : Label, at : Nat, idx : Nat, seen : Nat]
Referred(u) ==
  /\ u \in UseType /\ u.seen = Len(placed[u.label])
  /\ \A v \in uses : ~(v.at = u.at /\ v.idx = u.idx)
  /\ labels' = Wait(u.label, u.at, u.idx) /\ uses' = uses \cup {u} /\ placed' = placed
  /\ u.at \in DOMAIN map' /\ u.idx <= Len(map'[u.at].discrepancies)
  /\ labels[u.label].finalized => UserIn(map', u).loc = labels[u.label].loc

LEMMA UseAdded ==
  ASSUME ProfileTypeOK, UseInv, LabelInv, LabelsResolved, UsersKept, NEW u0, Referred(u0)
  PROVE  /\ UseInv' /\ LabelInv' /\ LabelsResolved'
         /\ labels' \in [Label -> [finalized : BOOLEAN, loc : Nat, pending : Seq(Ref)]]
         /\ uses' \subseteq UseType
<1>u. PICK l \in Label : \E at \in Nat, idx \in Nat : u0.label = l /\ u0.at = at /\ u0.idx = idx
  BY DEF Referred, UseType
<1>v. PICK at \in Nat, idx \in Nat : u0.label = l /\ u0.at = at /\ u0.idx = idx
  BY <1>u
<1>w. /\ u0 \in UseType /\ u0.seen = Len(placed[l])
      /\ \A u \in uses : ~(u.at = at /\ u.idx = idx)
      /\ labels' = Wait(l, at, idx) /\ uses' = uses \cup {u0} /\ placed' = placed
      /\ at \in DOMAIN map' /\ idx <= Len(map'[at].discrepancies)
      /\ labels[l].finalized => UserIn(map', u0).loc = labels[l].loc
  BY <1>v DEF Referred
<1>y. u0 = [label |-> l, at |-> at, idx |-> idx, seen |-> Len(placed[l])]
  BY <1>v, <1>w DEF UseType
<1> DEFINE w == [at |-> at, idx |-> idx]
           LT == [finalized : BOOLEAN, loc : Nat, pending : Seq(Ref)]
<1>1. /\ labels \in [Label -> LT] /\ labels[l] \in LT /\ labels[l].pending \in Seq(Ref)
      /\ placed[l] \in Seq([loc : Nat, before : Nat]) /\ Len(placed[l]) \in Nat
      /\ uses \subseteq UseType
  BY DEF ProfileTypeOK, UseType
<1>2. /\ u0 = [label |-> l, at |-> at, idx |-> idx, seen |-> Len(placed[l])]
      /\ u0 \in UseType /\ uses' = uses \cup {u0}
      /\ u0.label = l /\ u0.at = at /\ u0.idx = idx /\ u0.seen = Len(placed[l])
  BY <1>v, <1>w, <1>y
<1>3. w \in Ref /\ Append(labels[l].pending, w) \in Seq(Ref)
  BY <1>1 DEF Ref
<1>4. labels[l].finalized <=> Len(placed[l]) > 0
  <2>1. placed[l] = <<>> <=> Len(placed[l]) = 0
    BY <1>1
  <2>2. labels[l].finalized <=> placed[l] # <<>>
    BY DEF LabelInv
  <2> QED
    BY <1>1, <2>1, <2>2
<1>a. \A u \in uses' : /\ u.at \in DOMAIN map' /\ u.idx <= Len(map'[u.at].discrepancies)
                       /\ u.seen <= Len(placed'[u.label])
  <2>1. \A u \in uses : u.seen <= Len(placed[u.label])
    BY DEF UseInv
  <2>2. \A u \in uses : u.at \in DOMAIN map' /\ u.idx <= Len(map'[u.at].discrepancies)
    BY DEF UsersKept
  <2>3. u0.seen <= Len(placed'[l])
    BY <1>1, <1>2, <1>w
  <2> QED
    BY <1>2, <1>w, <2>1, <2>2, <2>3
<1>b. \A u, v \in uses' : u.at = v.at /\ u.idx = v.idx => u = v
  BY <1>2, <1>w DEF UseInv
<1>c. \A u \in uses : /\ u.label \in Label /\ [at |-> u.at, idx |-> u.idx] # w
                      /\ u.seen = 0 <=> [at |-> u.at, idx |-> u.idx] \in ToPatch(u.label)
  BY <1>1, <1>w DEF UseInv, UseType
<1>d. \A m \in Label : \A y \in ToPatch(m) :
        \E u \in uses' : u.label = m /\ u.at = y.at /\ u.idx = y.idx
  BY <1>2 DEF UseInv
<1>e. ASSUME \A u \in uses' : u.seen = 0 <=> [at |-> u.at, idx |-> u.idx] \in ToPatch(u.label)',
             \A m \in Label : \A y \in ToPatch(m)' :
               \E u \in uses' : u.label = m /\ u.at = y.at /\ u.idx = y.idx
      PROVE  UseInv'
  BY <1>a, <1>b, <1>e DEF UseInv
<1>5. CASE labels[l].finalized
  <2>1. labels' = labels
    BY <1>5, <1>w DEF Wait
  <2>2. \A m \in Label : ToPatch(m)' = ToPatch(m)
    BY <2>1 DEF ToPatch
  <2>3. w \notin ToPatch(l)
    BY <1>w DEF UseInv
  <2>4. UseInv'
    <3>1. \A u \in uses' : u.seen = 0 <=> [at |-> u.at, idx |-> u.idx] \in ToPatch(u.label)'
      <4>1. \A u \in uses : u.seen = 0 <=> [at |-> u.at, idx |-> u.idx] \in ToPatch(u.label)'
        BY <1>c, <2>2
      <4>2. u0.seen # 0 /\ [at |-> u0.at, idx |-> u0.idx] \notin ToPatch(u0.label)'
        BY <1>1, <1>2, <1>4, <1>5, <2>2, <2>3
      <4> QED
        BY <1>2, <4>1, <4>2
    <3> QED
      BY <1>d, <1>e, <2>2, <3>1
  <2>5. LabelInv'
    BY <1>w, <2>1 DEF LabelInv
  <2>6. LabelsResolved'
    <3>1. UserIn(map', u0).loc = placed[l][Len(placed[l])].loc
      BY <1>5, <1>w DEF LabelInv
    <3>2. Place(u0)' = placed[l][Len(placed[l])]
      BY <1>2, <1>w DEF Place
    <3>3. \A u \in uses : (Resolved(u) => User(u).loc = Place(u).loc)'
      BY <1>w DEF LabelsResolved, Resolved, Place, UsersKept, User, UserIn
    <3> QED
      BY <1>2, <3>1, <3>2, <3>3 DEF LabelsResolved, User, UserIn
  <2> QED
    BY <1>1, <1>2, <2>1, <2>4, <2>5, <2>6
<1>6. CASE ~labels[l].finalized
  <2> DEFINE x == [labels[l] EXCEPT !.pending = Append(labels[l].pending, w)]
  <2>1. x \in LT /\ x.pending = Append(labels[l].pending, w) /\ x.loc = labels[l].loc
        /\ x.finalized = labels[l].finalized
    BY <1>1, <1>3
  <2>2. labels' = [labels EXCEPT ![l] = x]
    BY <1>1, <1>6, <1>w DEF Wait
  <2> HIDE DEF x
  <2>3. labels' \in [Label -> LT] /\ labels'[l] = x
        /\ \A m \in Label : m # l => labels'[m] = labels[m]
    BY <1>1, <2>1, <2>2
  <2>4. ToPatch(l)' = ToPatch(l) \cup {w} /\ \A m \in Label : m # l => ToPatch(m)' = ToPatch(m)
    <3>1. labels'[l].pending = Append(labels[l].pending, w)
      BY <2>1, <2>3
    <3>2. Range(labels'[l].pending) = Range(labels[l].pending) \cup {w}
      BY <1>1, <3>1, RangeOfAppend
    <3>3. \A m \in Label : m # l => ToPatch(m)' = ToPatch(m)
      BY <2>3 DEF ToPatch
    <3> QED
      BY <3>2, <3>3 DEF ToPatch
  <2>5. \A u \in uses : u.seen = 0 <=> [at |-> u.at, idx |-> u.idx] \in ToPatch(u.label)'
    <3> TAKE u \in uses
    <3>1. [at |-> u.at, idx |-> u.idx] # w /\ u.label \in Label
      BY <1>c
    <3> QED
      BY <2>4, <3>1 DEF UseInv
  <2>6. u0.seen = 0 /\ [at |-> u0.at, idx |-> u0.idx] \in ToPatch(u0.label)'
    BY <1>1, <1>2, <1>4, <1>6, <2>4
  <2>7. UseInv'
    <3>1. \A u \in uses' : u.seen = 0 <=> [at |-> u.at, idx |-> u.idx] \in ToPatch(u.label)'
      BY <1>2, <2>5, <2>6
    <3>2. \E u \in uses' : u.label = l /\ u.at = w.at /\ u.idx = w.idx
      BY <1>2
    <3> HIDE DEF w
    <3>3. \A m \in Label : \A y \in ToPatch(m)' :
            \E u \in uses' : u.label = m /\ u.at = y.at /\ u.idx = y.idx
      <4> TAKE m \in Label
      <4> TAKE y \in ToPatch(m)'
      <4>1. CASE y \in ToPatch(m)
        BY <1>d, <4>1
      <4>2. CASE m = l /\ y = w
        BY <3>2, <4>2
      <4> QED
        BY <2>4, <4>1, <4>2
    <3> QED
      BY <1>e, <3>1, <3>3
  <2>8. LabelInv'
    BY <1>w, <2>1, <2>3 DEF LabelInv
  <2>9. LabelsResolved'
    <3>1. ~Resolved(u0)'
      BY <1>2, <1>6, <1>w DEF LabelInv, Resolved
    <3>2. \A u \in uses : (Resolved(u) => User(u).loc = Place(u).loc)'
      BY <1>w DEF LabelsResolved, Resolved, Place, UsersKept, User, UserIn
    <3> QED
      BY <1>2, <3>1, <3>2 DEF LabelsResolved
  <2> QED
    BY <1>1, <1>2, <2>3, <2>7, <2>8, <2>9
<1> QED
  BY <1>5, <1>6

(* An instruction with the location of the label placed here, if it waits. *)
Patched(l, i, w) == IF w \in ToPatch(l) THEN [i EXCEPT !.loc = next] ELSE i
Slot(a, n) == [at |-> a, idx |-> n]

LEMMA PatchedIs ==
  ASSUME next \in Nat, NEW l, NEW i \in Inst, NEW w
  PROVE  /\ Patched(l, i, w) \in Inst
         /\ Patched(l, i, w).pc = i.pc
         /\ Patched(l, i, w).len = i.len
         /\ Patched(l, i, w).real_pc = i.real_pc
         /\ w \in ToPatch(l) => Patched(l, i, w).loc = next
         /\ w \notin ToPatch(l) => Patched(l, i, w) = i
<1>1. [i EXCEPT !.loc = next] \in Inst /\ [i EXCEPT !.loc = next].pc = i.pc
      /\ [i EXCEPT !.loc = next].len = i.len /\ [i EXCEPT !.loc = next].real_pc = i.real_pc
      /\ [i EXCEPT !.loc = next].loc = next
  BY DEF Inst
<1> QED
  BY <1>1 DEF Patched

(* A label placed: the map has the same instructions, patched. *)
LEMMA MapPatched ==
  ASSUME ProfileTypeOK, NEW l \in Label, EmitLabel(l)
  PROVE  /\ map' \in Maps /\ DOMAIN map' = DOMAIN map
         /\ \A a \in DOMAIN map :
              /\ map'[a].first = Patched(l, map[a].first, Slot(a, 0))
              /\ Len(map'[a].discrepancies) = Len(map[a].discrepancies)
              /\ \A n \in 1 .. Len(map[a].discrepancies) :
                   map'[a].discrepancies[n] = Patched(l, map[a].discrepancies[n], Slot(a, n))
<1> DEFINE F(a) == Patched(l, map[a].first, Slot(a, 0))
           G(a) == [n \in DOMAIN map[a].discrepancies |-> Patched(l, map[a].discrepancies[n], Slot(a, n))]
<1>1. map' = [a \in DOMAIN map |-> [first |-> F(a), discrepancies |-> G(a)]]
  BY DEF EmitLabel, Patched, Here, Slot
<1>2. ASSUME NEW a \in DOMAIN map
      PROVE  /\ F(a) \in Inst /\ G(a) \in Seq(Inst)
             /\ Len(G(a)) = Len(map[a].discrepancies)
             /\ \A n \in 1 .. Len(map[a].discrepancies) :
                  G(a)[n] = Patched(l, map[a].discrepancies[n], Slot(a, n))
  <2> DEFINE s == map[a].discrepancies
  <2>1. map[a].first \in Inst /\ s \in Seq(Inst) /\ Len(s) \in Nat /\ DOMAIN s = 1 .. Len(s)
        /\ next \in Nat /\ \A n \in 1 .. Len(s) : s[n] \in Inst
    BY RecordIs DEF ProfileTypeOK
  <2>2. F(a) \in Inst /\ \A n \in 1 .. Len(s) : Patched(l, s[n], Slot(a, n)) \in Inst
    BY <2>1, PatchedIs
  <2> HIDE DEF F
  <2>3. G(a) = [n \in 1 .. Len(s) |-> Patched(l, s[n], Slot(a, n))]
    BY <2>1
  <2> HIDE DEF s, G
  <2>4. G(a) \in [1 .. Len(s) -> Inst]
    BY <2>2, <2>3
  <2>5. G(a) \in Seq(Inst)
    BY <2>1, <2>4
  <2> QED
    BY <2>1, <2>2, <2>3, <2>4, <2>5 DEF s
<1> HIDE DEF F, G
<1>3. DOMAIN map' = DOMAIN map
      /\ \A a \in DOMAIN map : map'[a] = [first |-> F(a), discrepancies |-> G(a)]
  BY <1>1
<1>4. \A a \in DOMAIN map : a \in Nat /\ map'[a] \in Record
  BY <1>2, <1>3, RecordIs DEF Record
<1>5. map' \in Maps
  BY <1>1, <1>3, <1>4, MapsAre
<1> QED
  BY <1>2, <1>3, <1>5 DEF F

LEMMA LabelEmitted ==
  ASSUME ProfileTypeOK, BuildInv, NEW l \in Label, EmitLabel(l)
  PROVE  ProfileTypeOK' /\ BuildInv'
<1> DEFINE LT == [finalized : BOOLEAN, loc : Nat, pending : Seq(Ref)]
           PT == [loc : Nat, before : Nat]
           e == [loc |-> next, before |-> RealPc]
           x == [labels[l] EXCEPT !.finalized = TRUE, !.loc = next]
<1>1. /\ next \in Nat /\ labels \in [Label -> LT] /\ labels[l] \in LT
      /\ placed \in [Label -> Seq(PT)] /\ placed[l] \in Seq(PT) /\ Len(placed[l]) \in Nat
      /\ next' = next /\ uses' = uses /\ file' = file
  BY DEF ProfileTypeOK, EmitLabel
<1>2. RealPc \in Nat /\ RealPc = Cardinality(DOMAIN map)
  BY FS_CardinalityType DEF BuildInv, LayoutInv, RealPc
<1>3. /\ x \in LT /\ x.finalized = TRUE /\ x.loc = next /\ x.pending = labels[l].pending
      /\ labels' = [labels EXCEPT ![l] = x]
  BY <1>1 DEF EmitLabel, Here
<1>4. /\ labels' \in [Label -> LT] /\ labels'[l] = x
      /\ \A m \in Label : m # l => labels'[m] = labels[m]
  <2> HIDE DEF x, LT
  <2> QED
    BY <1>1, <1>3
<1>5. e \in PT /\ e.loc = next /\ e.before = Cardinality(DOMAIN map)
  BY <1>1, <1>2
<1>6. /\ Append(placed[l], e) \in Seq(PT) /\ Len(Append(placed[l], e)) = Len(placed[l]) + 1
      /\ Append(placed[l], e)[Len(placed[l]) + 1] = e
      /\ \A n \in 1 .. Len(placed[l]) : Append(placed[l], e)[n] = placed[l][n]
  <2> HIDE DEF e, PT
  <2> QED
    BY <1>1, <1>5
<1>7. /\ placed' \in [Label -> Seq(PT)]
      /\ placed'[l] = Append(placed[l], e)
      /\ \A m \in Label : m # l => placed'[m] = placed[m]
  <2> HIDE DEF e, PT
  <2>1. placed' = [placed EXCEPT ![l] = Append(placed[l], e)]
    BY <1>1 DEF EmitLabel, Here, e
  <2> QED
    BY <1>1, <1>6, <2>1
<1>8. \A m : ToPatch(m) = Range(labels[m].pending) /\ ToPatch(m)' = Range(labels'[m].pending)
  BY DEF ToPatch
<1>9. \A m \in Label : ToPatch(m)' = ToPatch(m)
  BY <1>3, <1>4, <1>8
<1> HIDE DEF x, e, LT, PT
<1>10. ProfileTypeOK'
  BY <1>1, <1>4, <1>7, MapPatched DEF ProfileTypeOK, LT, PT
<1>m. /\ DOMAIN map' = DOMAIN map
      /\ \A a \in DOMAIN map :
           /\ map'[a].first = Patched(l, map[a].first, Slot(a, 0))
           /\ Len(map'[a].discrepancies) = Len(map[a].discrepancies)
           /\ \A n \in 1 .. Len(map[a].discrepancies) :
                map'[a].discrepancies[n] = Patched(l, map[a].discrepancies[n], Slot(a, n))
  BY MapPatched
<1>p. ASSUME NEW i \in Inst, NEW w
      PROVE  /\ Patched(l, i, w).pc = i.pc
             /\ Patched(l, i, w).len = i.len
             /\ Patched(l, i, w).real_pc = i.real_pc
             /\ w \in ToPatch(l) => Patched(l, i, w).loc = next
             /\ w \notin ToPatch(l) => Patched(l, i, w) = i
  <2>1. next \in Nat
    BY <1>1
  <2> QED
    BY <2>1, PatchedIs
<1>r. \A a \in DOMAIN map :
        /\ a \in Nat /\ map[a].first \in Inst /\ map[a].first.len \in Nat \ {0}
        /\ Len(map[a].discrepancies) \in Nat
        /\ \A n \in 1 .. Len(map[a].discrepancies) : map[a].discrepancies[n] \in Inst
  <2> TAKE a \in DOMAIN map
  <2>1. map[a].discrepancies \in Seq(Inst)
    BY RecordIs
  <2> QED
    BY <2>1, RecordIs
<1>11. LayoutInv' /\ RealPcsInOrder'
  <2>1. \A a \in DOMAIN map : /\ map'[a].first.pc = map[a].first.pc
                              /\ map'[a].first.len = map[a].first.len
                              /\ map'[a].first.real_pc = map[a].first.real_pc
    <3> TAKE a \in DOMAIN map
    <3>1. a \in Nat /\ map[a].first \in Inst /\ map'[a].first = Patched(l, map[a].first, Slot(a, 0))
      BY <1>m, <1>r
    <3> QED
      BY <1>p, <3>1
  <2> QED
    BY <1>1, <1>m, <2>1, Unmoved DEF BuildInv
<1>12. \A u \in uses : /\ u.label \in Label /\ u.at \in DOMAIN map /\ u.idx \in Nat
                       /\ u.seen \in Nat /\ u.seen <= Len(placed[u.label])
                       /\ u.idx <= Len(map[u.at].discrepancies)
                       /\ u.seen = 0 <=> Slot(u.at, u.idx) \in ToPatch(u.label)
  BY DEF ProfileTypeOK, BuildInv, UseInv, Slot
<1>13. \A u \in uses : /\ UserIn(map, u) \in Inst
                       /\ UserIn(map', u) = Patched(l, UserIn(map, u), Slot(u.at, u.idx))
  <2> TAKE u \in uses
  <2>1. CASE u.idx = 0
    BY <1>12, <1>m, <1>r, <2>1 DEF UserIn
  <2>2. CASE u.idx # 0
    <3> DEFINE len == Len(map[u.at].discrepancies)
    <3>a. u.idx \in Nat /\ u.idx <= len /\ len \in Nat
      BY <1>12, <1>r
    <3>1. u.idx \in 1 .. len
      BY <2>2, <3>a
    <3>2. map[u.at].discrepancies[u.idx] \in Inst
      BY <1>12, <1>r, <3>1
    <3> QED
      BY <1>12, <1>m, <2>2, <3>1, <3>2 DEF UserIn
  <2> QED
    BY <2>1, <2>2
<1>14. \A m \in Label : /\ Len(placed[m]) \in Nat
                        /\ Len(placed'[m]) = IF m = l THEN Len(placed[m]) + 1 ELSE Len(placed[m])
                        /\ \A n \in 1 .. Len(placed[m]) : placed'[m][n] = placed[m][n]
  <2> TAKE m \in Label
  <2>1. CASE m = l
    BY <1>1, <1>6, <1>7, <2>1
  <2>2. CASE m # l
    BY <1>1, <1>7, <2>2
  <2> QED
    BY <2>1, <2>2
<1>15. UseInv'
  <2>1. \A u \in uses' : u.at \in DOMAIN map' /\ u.idx <= Len(map'[u.at].discrepancies)
    BY <1>1, <1>12, <1>m
  <2>2. \A u \in uses' : u.seen <= Len(placed'[u.label])
    <3> TAKE u \in uses'
    <3>1. u \in uses /\ u.label \in Label /\ u.seen \in Nat /\ u.seen <= Len(placed[u.label])
      BY <1>1, <1>12
    <3>2. Len(placed[u.label]) \in Nat /\ Len(placed'[u.label]) >= Len(placed[u.label])
      BY <1>14, <3>1
    <3> QED
      BY <1>14, <3>1, <3>2
  <2>3. \A u \in uses' : u.seen = 0 <=> Slot(u.at, u.idx) \in ToPatch(u.label)'
    BY <1>1, <1>9, <1>12
  <2>4. \A u, v \in uses' : u.at = v.at /\ u.idx = v.idx => u = v
    BY <1>1 DEF BuildInv, UseInv
  <2>5. \A m \in Label : \A w \in ToPatch(m)' :
          \E u \in uses' : u.label = m /\ u.at = w.at /\ u.idx = w.idx
    BY <1>1, <1>9 DEF BuildInv, UseInv
  <2> QED
    BY <2>1, <2>2, <2>3, <2>4, <2>5 DEF UseInv, Slot
<1>16. LabelInv'
  <2>1. placed'[l] # <<>> /\ placed'[l][Len(placed'[l])].loc = next
    BY <1>1, <1>5, <1>6, <1>7
  <2>2. \A m \in Label \ {l} : /\ labels'[m].finalized <=> placed'[m] # <<>>
                               /\ labels'[m].finalized =>
                                    labels'[m].loc = placed'[m][Len(placed'[m])].loc
    BY <1>4, <1>7 DEF BuildInv, LabelInv
  <2> QED
    BY <1>3, <1>4, <2>1, <2>2 DEF LabelInv
<1>17. LabelsResolved'
  <2>1. SUFFICES ASSUME NEW u \in uses, Resolved(u)'
                 PROVE  User(u)'.loc = Place(u)'.loc
    BY <1>1 DEF LabelsResolved
  <2>2. User(u)' = UserIn(map', u) /\ User(u) = UserIn(map, u)
    BY DEF User, UserIn
  <2>3. CASE u.label = l /\ u.seen = 0
    <3>a. Slot(u.at, u.idx) \in ToPatch(l)
      BY <1>12, <2>3
    <3>1. UserIn(map', u).loc = next
      BY <1>13, <1>p, <3>a
    <3>2. Place(u)' = placed'[l][Len(placed'[l])]
      BY <2>3 DEF Place
    <3>3. Place(u)'.loc = next
      BY <1>1, <1>5, <1>6, <1>7, <3>2
    <3> QED
      BY <2>2, <3>1, <3>3
  <2>4. CASE ~(u.label = l /\ u.seen = 0)
    <3>1. Slot(u.at, u.idx) \notin ToPatch(l)
      <4> SUFFICES ASSUME Slot(u.at, u.idx) \in ToPatch(l)
                   PROVE  FALSE
        OBVIOUS
      <4>1. PICK v \in uses : v.label = l /\ v.at = u.at /\ v.idx = u.idx
        BY DEF BuildInv, UseInv, Slot
      <4>2. u = v
        BY <4>1 DEF BuildInv, UseInv
      <4> QED
        BY <1>12, <2>4, <4>1, <4>2
    <3>2. UserIn(map', u) = UserIn(map, u)
      BY <1>13, <1>p, <3>1
    <3>3. Resolved(u) /\ Place(u)' = Place(u)
      <4>1. CASE u.label = l
        <5>1. u.seen \in Nat /\ u.seen # 0 /\ u.seen <= Len(placed[l])
          BY <1>12, <2>4, <4>1
        <5>2. u.seen \in 1 .. Len(placed[l]) /\ placed[l] # <<>>
          BY <1>1, <5>1
        <5> QED
          BY <1>6, <1>7, <4>1, <5>2 DEF Resolved, Place
      <4>2. CASE u.label # l
        <5>1. placed'[u.label] = placed[u.label]
          BY <1>7, <1>12, <4>2
        <5> QED
          BY <2>1, <5>1 DEF Resolved, Place
      <4> QED
        BY <4>1, <4>2
    <3> QED
      BY <2>2, <3>2, <3>3 DEF BuildInv, LabelsResolved
  <2> QED
    BY <2>3, <2>4
<1>18. PlacedInv'
  <2>1. \A p : PlaceOK(p) => PlaceOK(p)'
    <3>1. \A a \in DOMAIN map : map'[a].first.real_pc = map[a].first.real_pc
      <4> TAKE a \in DOMAIN map
      <4>1. a \in Nat /\ map[a].first \in Inst /\ map'[a].first = Patched(l, map[a].first, Slot(a, 0))
        BY <1>m, <1>r
      <4> QED
        BY <1>p, <4>1
    <3> QED
      BY <1>1, <1>m, <3>1 DEF PlaceOK
  <2>2. next \notin DOMAIN map
    <3>1. \A a \in DOMAIN map : a + map[a].first.len <= next /\ a \in Nat
                                /\ map[a].first.len \in Nat \ {0}
      BY RecordIs DEF BuildInv, LayoutInv
    <3> QED
      BY <1>1, <3>1
  <2>3. PlaceOK(e)
    BY <1>1, <1>5, <2>2 DEF PlaceOK
  <2>4. \A m \in Label : \A n \in DOMAIN placed[m] : PlaceOK(placed[m][n])
    BY DEF BuildInv, PlacedInv
  <2>5. \A m \in Label : DOMAIN placed[m] = 1 .. Len(placed[m])
                         /\ DOMAIN placed'[m] = 1 .. Len(placed'[m])
    BY <1>1, <1>7
  <2>6. \A m \in Label : \A n \in DOMAIN placed'[m] : PlaceOK(placed'[m][n])
    <3> TAKE m \in Label
    <3> TAKE n \in DOMAIN placed'[m]
    <3>1. CASE n \in 1 .. Len(placed[m])
      BY <1>14, <2>4, <2>5, <3>1
    <3>2. CASE n \notin 1 .. Len(placed[m])
      <4>1. m = l /\ n = Len(placed[l]) + 1
        BY <1>14, <2>5, <3>2
      <4> QED
        BY <1>6, <1>7, <2>3, <4>1
    <3> QED
      BY <3>1, <3>2
  <2>7. \A m \in Label : \A n \in DOMAIN placed'[m] : \A p : p = placed'[m][n] => PlaceOK(p)'
    BY <2>1, <2>6
  <2> QED
    BY <2>7 DEF PlacedInv
<1> QED
  BY <1>10, <1>11, <1>15, <1>16, <1>17, <1>18 DEF BuildInv

LEMMA NumbersAre ==
  ASSUME ProfileTypeOK, LayoutInv
  PROVE  next \in Nat /\ RealPc \in Nat /\ RealPc = Cardinality(DOMAIN map)
  BY FS_CardinalityType DEF ProfileTypeOK, LayoutInv, RealPc

LEMMA LocateIs ==
  ASSUME ProfileTypeOK, NEW l \in Label
  PROVE  Locate(l) \in Nat /\ (labels[l].finalized => Locate(l) = labels[l].loc)
<1>1. labels[l] \in [finalized : BOOLEAN, loc : Nat, pending : Seq(Ref)]
  BY DEF ProfileTypeOK
<1> QED
  BY <1>1 DEF Locate

LEMMA TypesOfPlaced ==
  ASSUME ProfileTypeOK, NEW l \in Label, NEW n \in DOMAIN placed[l]
  PROVE  placed[l][n].loc \in Nat /\ placed[l][n].before \in Nat
<1> DEFINE PT == [loc : Nat, before : Nat]
<1>1. placed[l] \in Seq(PT)
  BY DEF ProfileTypeOK
<1> HIDE DEF PT
<1>2. placed[l][n] \in PT
  BY <1>1
<1> QED
  BY <1>2 DEF PT

(* What was known of the places of labels stays, also when the next address  *)
(* gets its instruction.                                                   *)
LEMMA PlacedGrown ==
  ASSUME ProfileTypeOK, PlacedInv, next' \in Nat, next < next', placed' = placed,
         DOMAIN map' = DOMAIN map \cup {next}, \A a \in DOMAIN map : map'[a] = map[a],
         map'[next].first.real_pc = Cardinality(DOMAIN map)
  PROVE  PlacedInv'
<1>1. SUFFICES ASSUME NEW l \in Label, NEW n \in DOMAIN placed[l], NEW p, p = placed[l][n]
               PROVE  PlaceOK(p)'
  BY DEF PlacedInv
<1>2. PlaceOK(p)
  BY <1>1 DEF PlacedInv
<1>3. p.loc \in Nat /\ next \in Nat
  BY <1>1, TypesOfPlaced DEF ProfileTypeOK
<1> QED
  BY <1>2, <1>3 DEF PlaceOK

LEMMA PlacedKept ==
  ASSUME ProfileTypeOK, PlacedInv, next' \in Nat, next <= next', placed' = placed,
         DOMAIN map' = DOMAIN map, \A a \in DOMAIN map : map'[a].first = map[a].first
  PROVE  PlacedInv'
<1>1. SUFFICES ASSUME NEW l \in Label, NEW n \in DOMAIN placed[l], NEW p, p = placed[l][n]
               PROVE  PlaceOK(p)'
  BY DEF PlacedInv
<1>2. PlaceOK(p)
  BY <1>1 DEF PlacedInv
<1>3. p.loc \in Nat /\ next \in Nat
  BY <1>1, TypesOfPlaced DEF ProfileTypeOK
<1> QED
  BY <1>2, <1>3 DEF PlaceOK

(* Uses are of instructions that are there. *)
LEMMA UsesAre ==
  ASSUME ProfileTypeOK, UseInv
  PROVE  \A u \in uses : /\ u.label \in Label /\ u.at \in DOMAIN map /\ u.idx \in Nat
                         /\ u.idx <= Len(map[u.at].discrepancies)
                         /\ u.idx # 0 => u.idx \in 1 .. Len(map[u.at].discrepancies)
<1> TAKE u \in uses
<1>1. u.label \in Label /\ u.idx \in Nat /\ u.at \in DOMAIN map
      /\ u.idx <= Len(map[u.at].discrepancies)
  BY DEF ProfileTypeOK, UseInv
<1>2. Len(map[u.at].discrepancies) \in Nat
  BY <1>1, RecordIs
<1> QED
  BY <1>1, <1>2

LEMMA EmitStep ==
  ASSUME ProfileTypeOK, BuildInv, NEW len \in Lens, NEW entry \in BOOLEAN, Emit(len, entry)
  PROVE  ProfileTypeOK' /\ BuildInv'
<1>1. PICK i \in Inst : /\ i = Construct(len, "normal", 0, entry)
                        /\ i.pc = next /\ i.real_pc = RealPc /\ i.len = len
  <2> DEFINE j == [pc |-> next, real_pc |-> RealPc, k |-> "normal", loc |-> 0, len |-> len,
                   entry |-> entry]
  <2>1. next \in Nat /\ RealPc \in Nat
    BY NumbersAre DEF BuildInv
  <2>3. j \in Inst /\ j.pc = next /\ j.real_pc = RealPc /\ j.len = len /\ j.loc = 0
    BY <2>1 DEF Inst
  <2>4. j = Construct(len, "normal", 0, entry)
    BY DEF Construct
  <2> HIDE DEF j
  <2> QED
    BY <2>3, <2>4
<1>2. /\ map' = Put(map, next, [first |-> i, discrepancies |-> <<>>]) /\ next' = next + i.len
      /\ UNCHANGED <<labels, file, uses, placed>>
  BY <1>1 DEF Emit
<1>3. /\ next \notin DOMAIN map /\ DOMAIN map' = DOMAIN map \cup {next}
      /\ \A a \in DOMAIN map : map'[a] = map[a]
      /\ map'[next] = [first |-> i, discrepancies |-> <<>>]
      /\ next' \in Nat /\ next < next' /\ map' \in Maps
      /\ LayoutInv' /\ RealPcsInOrder'
  BY <1>1, <1>2, Grown DEF BuildInv
<1>4. UsersKept
  BY <1>3, UsesAre DEF UsersKept, UserIn, BuildInv
<1>5. UseInv' /\ LabelInv' /\ LabelsResolved'
  BY <1>2, <1>4, UsesKept DEF BuildInv
<1>6. PlacedInv'
  <2>1. map'[next].first.real_pc = Cardinality(DOMAIN map)
    <3>1. map'[next].first = i
      BY <1>3
    <3> QED
      BY <1>1, <3>1, NumbersAre DEF BuildInv
  <2> QED
    BY <1>2, <1>3, <2>1, PlacedGrown DEF BuildInv
<1>7. ProfileTypeOK'
  BY <1>2, <1>3 DEF ProfileTypeOK
<1> QED
  BY <1>3, <1>5, <1>6, <1>7 DEF BuildInv

LEMMA EmitGotoStep ==
  ASSUME ProfileTypeOK, BuildInv, NEW len \in Lens, NEW k \in Kinds, NEW l \in Label,
         EmitGoto(len, k, l)
  PROVE  ProfileTypeOK' /\ BuildInv'
<1>1. PICK i \in Inst : /\ i = Construct(len, k, Locate(l), FALSE)
                        /\ i.pc = next /\ i.real_pc = RealPc /\ i.len = len /\ i.loc = Locate(l)
  <2> DEFINE j == [pc |-> next, real_pc |-> RealPc, k |-> k, loc |-> Locate(l), len |-> len,
                   entry |-> FALSE]
  <2>1. next \in Nat /\ RealPc \in Nat
    BY NumbersAre DEF BuildInv
  <2>2. Locate(l) \in Nat
    BY LocateIs
  <2>3. j \in Inst /\ j.pc = next /\ j.real_pc = RealPc /\ j.len = len /\ j.loc = Locate(l)
    BY <2>1, <2>2 DEF Inst
  <2>4. j = Construct(len, k, Locate(l), FALSE)
    BY DEF Construct
  <2> HIDE DEF j
  <2> QED
    BY <2>3, <2>4
<1>2. /\ map' = Put(map, next, [first |-> i, discrepancies |-> <<>>]) /\ next' = next + i.len
      /\ labels' = Wait(l, next, 0) /\ uses' = uses \cup {Use(l, next, 0)}
      /\ UNCHANGED <<file, placed>>
  BY <1>1 DEF EmitGoto
<1>3. /\ next \notin DOMAIN map /\ DOMAIN map' = DOMAIN map \cup {next}
      /\ \A a \in DOMAIN map : map'[a] = map[a]
      /\ map'[next] = [first |-> i, discrepancies |-> <<>>]
      /\ next' \in Nat /\ next < next' /\ map' \in Maps
      /\ LayoutInv' /\ RealPcsInOrder'
  BY <1>1, <1>2, Grown DEF BuildInv
<1>4. UsersKept
  BY <1>3, UsesAre DEF UsersKept, UserIn, BuildInv
<1>u. PICK u0 : u0 = Use(l, next, 0)
  OBVIOUS
<1>5. Referred(u0)
  <2>1. \A u \in uses : ~(u.at = next /\ u.idx = 0)
    BY <1>3, UsesAre DEF BuildInv
  <2>2. /\ u0 \in UseType /\ u0.label = l /\ u0.at = next /\ u0.idx = 0
        /\ u0.seen = Len(placed[l])
    BY <1>u DEF ProfileTypeOK, Use, UseType
  <2>3. UserIn(map', u0) = i
    BY <1>3, <2>2 DEF UserIn
  <2>4. next \in DOMAIN map' /\ 0 <= Len(map'[next].discrepancies)
    BY <1>3
  <2>5. labels[l].finalized => UserIn(map', u0).loc = labels[l].loc
    BY <1>1, <2>3, LocateIs
  <2> QED
    BY <1>2, <1>u, <2>1, <2>2, <2>4, <2>5 DEF Referred
<1>9. /\ UseInv' /\ LabelInv' /\ LabelsResolved'
      /\ labels' \in [Label -> [finalized : BOOLEAN, loc : Nat, pending : Seq(Ref)]]
      /\ uses' \subseteq UseType
  BY <1>4, <1>5, UseAdded DEF BuildInv
<1>6. PlacedInv'
  <2>1. map'[next].first.real_pc = Cardinality(DOMAIN map)
    <3>1. map'[next].first = i
      BY <1>3
    <3> QED
      BY <1>1, <3>1, NumbersAre DEF BuildInv
  <2> QED
    BY <1>2, <1>3, <2>1, PlacedGrown DEF BuildInv
<1>7. ProfileTypeOK'
  BY <1>2, <1>3, <1>9 DEF ProfileTypeOK, UseType
<1> QED
  BY <1>3, <1>9, <1>6, <1>7 DEF BuildInv

(* An alternative of the instruction at a, whichever way it is made. *)
LEMMA AlternativeStep ==
  ASSUME ProfileTypeOK, BuildInv, NEW a \in DOMAIN map, NEW l \in Label, NEW i \in Inst,
         map' = [map EXCEPT ![a].discrepancies = Append(@, i)],
         next' \in Nat, next <= next', labels[l].finalized => i.loc = labels[l].loc,
         labels' = Wait(l, a, Len(map[a].discrepancies) + 1),
         uses' = uses \cup {Use(l, a, Len(map[a].discrepancies) + 1)},
         UNCHANGED <<file, placed>>
  PROVE  ProfileTypeOK' /\ BuildInv'
<1> DEFINE idx == Len(map[a].discrepancies) + 1
<1>1. a \in Nat /\ idx \in Nat /\ idx # 0 /\ Len(map[a].discrepancies) = idx - 1
  BY RecordIs
<1>2. /\ DOMAIN map' = DOMAIN map /\ map' \in Maps
      /\ \A b \in DOMAIN map : map'[b].first = map[b].first
      /\ \A b \in DOMAIN map : b # a => map'[b] = map[b]
      /\ Len(map'[a].discrepancies) = idx
      /\ map'[a].discrepancies[idx] = i
      /\ \A n \in 1 .. Len(map[a].discrepancies) :
           map'[a].discrepancies[n] = map[a].discrepancies[n]
  BY Altered
<1>3. labels' = Wait(l, a, idx) /\ uses' = uses \cup {Use(l, a, idx)}
  OBVIOUS
<1> HIDE DEF idx
<1>4. UsersKept
  <2> SUFFICES ASSUME NEW u \in uses
               PROVE  /\ u.at \in DOMAIN map' /\ u.idx <= Len(map'[u.at].discrepancies)
                      /\ UserIn(map', u) = UserIn(map, u)
    BY DEF UsersKept
  <2>1. /\ u.at \in DOMAIN map /\ u.idx \in Nat /\ u.idx <= Len(map[u.at].discrepancies)
        /\ u.idx # 0 => u.idx \in 1 .. Len(map[u.at].discrepancies)
    BY UsesAre DEF BuildInv
  <2>2. CASE u.at = a
    <3>a. Len(map'[a].discrepancies) = idx /\ a \in DOMAIN map'
      BY <1>2
    <3>1. u.idx <= Len(map'[a].discrepancies) /\ a \in DOMAIN map'
      BY <1>1, <2>1, <2>2, <3>a
    <3>2. UserIn(map', u) = UserIn(map, u)
      BY <1>2, <2>1, <2>2 DEF UserIn
    <3> QED
      BY <2>2, <3>1, <3>2
  <2>3. CASE u.at # a
    BY <1>2, <2>1, <2>3 DEF UserIn
  <2> QED
    BY <2>2, <2>3
<1>u. PICK u0 : u0 = Use(l, a, idx)
  OBVIOUS
<1>5. Referred(u0)
  <2>1. \A u \in uses : ~(u.at = a /\ u.idx = idx)
    <3> TAKE u \in uses
    <3>1. u.at \in DOMAIN map /\ u.idx \in Nat /\ u.idx <= Len(map[u.at].discrepancies)
      BY UsesAre DEF BuildInv
    <3> QED
      BY <1>1, <3>1
  <2>2. /\ u0 \in UseType /\ u0.label = l /\ u0.at = a /\ u0.idx = idx
        /\ u0.seen = Len(placed[l])
    BY <1>1, <1>u DEF ProfileTypeOK, Use, UseType
  <2>3. UserIn(map', u0) = i
    BY <1>1, <1>2, <2>2 DEF UserIn
  <2>4. Len(map'[a].discrepancies) = idx /\ a \in DOMAIN map'
    BY <1>2
  <2>5. idx <= Len(map'[a].discrepancies)
    BY <1>1, <2>4
  <2> QED
    BY <1>3, <1>u, <2>1, <2>2, <2>3, <2>4, <2>5 DEF Referred
<1>9. /\ UseInv' /\ LabelInv' /\ LabelsResolved'
      /\ labels' \in [Label -> [finalized : BOOLEAN, loc : Nat, pending : Seq(Ref)]]
      /\ uses' \subseteq UseType
  BY <1>4, <1>5, UseAdded DEF BuildInv
<1>6. LayoutInv' /\ RealPcsInOrder' /\ PlacedInv'
  BY <1>2, Unmoved, PlacedKept DEF BuildInv
<1>7. ProfileTypeOK'
  BY <1>2, <1>9 DEF ProfileTypeOK, UseType
<1> QED
  BY <1>9, <1>6, <1>7 DEF BuildInv

LEMMA EmitDiscrepancyStep ==
  ASSUME ProfileTypeOK, BuildInv, NEW a \in DOMAIN map, NEW k \in Kinds, NEW l \in Label,
         EmitDiscrepancy(a, k, l)
  PROVE  ProfileTypeOK' /\ BuildInv'
<1>1. map[a].first \in Inst /\ map[a].first.len \in Lens /\ map[a].first.len \in Nat /\ next \in Nat
  BY RecordIs DEF Inst, ProfileTypeOK
<1>2. PICK i \in Inst : i = Construct(map[a].first.len, k, Locate(l), FALSE) /\ i.loc = Locate(l)
  <2> DEFINE j == [pc |-> next, real_pc |-> RealPc, k |-> k, loc |-> Locate(l), len |-> map[a].first.len,
                   entry |-> FALSE]
  <2>1. next \in Nat /\ RealPc \in Nat
    BY NumbersAre DEF BuildInv
  <2>2. Locate(l) \in Nat
    BY LocateIs
  <2>3. j \in Inst /\ j.pc = next /\ j.real_pc = RealPc /\ j.len = map[a].first.len /\ j.loc = Locate(l)
    BY <1>1, <2>1, <2>2 DEF Inst
  <2>4. j = Construct(map[a].first.len, k, Locate(l), FALSE)
    BY DEF Construct
  <2> HIDE DEF j
  <2> QED
    BY <2>3, <2>4
<1>3. /\ map' = [map EXCEPT ![a].discrepancies = Append(@, i)]
      /\ next' = next + map[a].first.len
      /\ labels' = Wait(l, a, Len(map[a].discrepancies) + 1)
      /\ uses' = uses \cup {Use(l, a, Len(map[a].discrepancies) + 1)}
      /\ UNCHANGED <<file, placed>>
  BY <1>2 DEF EmitDiscrepancy
<1>4. next' \in Nat /\ next <= next' /\ (labels[l].finalized => i.loc = labels[l].loc)
  <2>1. labels[l].finalized => Locate(l) = labels[l].loc
    BY LocateIs
  <2>2. next' \in Nat /\ next <= next'
    BY <1>1, <1>3
  <2> QED
    BY <1>2, <2>1, <2>2
<1> QED
  BY <1>3, <1>4, AlternativeStep

LEMMA EmitCopyStep ==
  ASSUME ProfileTypeOK, BuildInv, NEW a \in DOMAIN map, NEW k \in Kinds, NEW l \in Label,
         EmitCopy(a, k, l)
  PROVE  ProfileTypeOK' /\ BuildInv'
<1> DEFINE loc == IF labels[l].finalized THEN labels[l].loc ELSE map[a].first.loc
           i == [map[a].first EXCEPT !.k = k, !.loc = loc]
<1>1. map[a].first \in Inst /\ next \in Nat
      /\ labels[l] \in [finalized : BOOLEAN, loc : Nat, pending : Seq(Ref)]
  BY RecordIs DEF ProfileTypeOK
<1>2. loc \in Nat
  BY <1>1 DEF Inst
<1>3. i \in Inst /\ i.loc = loc
  <2> HIDE DEF loc
  <2> QED
    BY <1>1, <1>2 DEF Inst
<1>4. /\ map' = [map EXCEPT ![a].discrepancies = Append(@, i)]
      /\ labels' = Wait(l, a, Len(map[a].discrepancies) + 1)
      /\ uses' = uses \cup {Use(l, a, Len(map[a].discrepancies) + 1)}
      /\ UNCHANGED <<next, file, placed>>
  BY DEF EmitCopy
<1>5. next' \in Nat /\ next <= next' /\ (labels[l].finalized => i.loc = labels[l].loc)
  BY <1>1, <1>3, <1>4
<1> HIDE DEF i
<1> QED
  BY <1>3, <1>4, <1>5, AlternativeStep

(* An empty builder. *)
LEMMA EmptyBuild ==
  ASSUME next = 0, map = <<>>, labels = [l \in Label |-> NoLabel], uses = {},
         placed = [l \in Label |-> <<>>]
  PROVE  BuildInv
<1>1. DOMAIN map = {} /\ IsFiniteSet(DOMAIN map) /\ Cardinality(DOMAIN map) = 0
  BY NoMap, FS_EmptySet
<1>2. \A l \in Label : labels[l] = NoLabel /\ placed[l] = <<>> /\ ToPatch(l) = {}
  <2>1. Range(<<>>) = {}
    BY DEF Range
  <2> QED
    BY <2>1 DEF NoLabel, ToPatch
<1>3. RealPcsInOrder
  BY <1>1 DEF RealPcsInOrder
<1>4. LabelInv
  BY <1>2 DEF LabelInv, NoLabel
<1>5. UseInv
  BY <1>2 DEF UseInv
<1>6. PlacedInv
  BY <1>2 DEF PlacedInv
<1> QED
  BY <1>1, <1>3, <1>4, <1>5, <1>6 DEF BuildInv, LayoutInv, LabelsResolved

LEMMA EmptyTypes ==
  /\ <<>> \in Maps /\ <<>> \in Seq(Maps)
  /\ [l \in Label |-> NoLabel] \in [Label -> [finalized : BOOLEAN, loc : Nat, pending : Seq(Ref)]]
  /\ [l \in Label |-> <<>>] \in [Label -> Seq([loc : Nat, before : Nat])]
<1>1. NoLabel \in [finalized : BOOLEAN, loc : Nat, pending : Seq(Ref)]
  BY DEF NoLabel
<1>2. <<>> \in Seq([loc : Nat, before : Nat]) /\ <<>> \in Seq(Maps)
  OBVIOUS
<1> QED
  BY <1>1, <1>2, NoMap

LEMMA ClearStep ==
  ASSUME ProfileTypeOK, Clear
  PROVE  ProfileTypeOK' /\ BuildInv'
<1>1. /\ next' = 0 /\ map' = <<>> /\ labels' = [l \in Label |-> NoLabel] /\ uses' = {}
      /\ placed' = [l \in Label |-> <<>>] /\ file' = file
  BY DEF Clear
<1>2. ProfileTypeOK'
  BY <1>1, EmptyTypes DEF ProfileTypeOK
<1>3. BuildInv'
  <2>1. DOMAIN map' = {} /\ IsFiniteSet(DOMAIN map') /\ Cardinality(DOMAIN map') = 0
    BY <1>1, NoMap, FS_EmptySet
  <2>2. \A l \in Label : labels'[l] = NoLabel /\ placed'[l] = <<>> /\ ToPatch(l)' = {}
    <3>1. Range(<<>>) = {}
      BY DEF Range
    <3> QED
      BY <1>1, <3>1 DEF NoLabel, ToPatch
  <2>3. RealPcsInOrder'
    BY <2>1 DEF RealPcsInOrder
  <2>4. LabelInv'
    BY <2>2 DEF LabelInv, NoLabel
  <2>5. UseInv'
    BY <1>1, <2>2 DEF UseInv
  <2>6. PlacedInv'
    BY <2>2 DEF PlacedInv
  <2> QED
    BY <1>1, <2>1, <2>3, <2>4, <2>5, <2>6 DEF BuildInv, LayoutInv, LabelsResolved
<1> QED
  BY <1>2, <1>3

(* What is written of a record is a record of the same instruction. *)
LEMMA StoredIs ==
  ASSUME NEW r \in Record
  PROVE  Stored(r) \in Record /\ Stored(r).first.pc = r.first.pc
<1> DEFINE s == r.discrepancies
<1>1. \A i \in Inst : Written(i) \in Inst /\ Written(i).pc = i.pc
  BY DEF Written, Inst
<1>2. r.first \in Inst /\ s \in Seq(Inst) /\ Len(s) \in Nat /\ DOMAIN s = 1 .. Len(s)
      /\ \A n \in 1 .. Len(s) : s[n] \in Inst
  BY DEF Record
<1>3. [n \in DOMAIN s |-> Written(s[n])] \in [1 .. Len(s) -> Inst]
  BY <1>1, <1>2
<1>4. [n \in DOMAIN s |-> Written(s[n])] \in Seq(Inst)
  BY <1>2, <1>3
<1> QED
  BY <1>1, <1>2, <1>4 DEF Stored, Record

LEMMA SaveStep ==
  ASSUME ProfileTypeOK, BuildInv, FileInv, Save
  PROVE  ProfileTypeOK' /\ BuildInv' /\ FileInv'
<1> DEFINE m == [a \in DOMAIN map |-> Stored(map[a])]
<1>1. file' = Append(file, m) /\ UNCHANGED <<next, map, labels, uses, placed>>
  BY DEF Save
<1>2. \A a \in DOMAIN map : a \in Nat /\ map[a] \in Record /\ map[a].first.pc = a
  BY RecordIs DEF BuildInv, LayoutInv
<1>3. \A a \in DOMAIN map : Stored(map[a]) \in Record /\ Stored(map[a]).first.pc = a
  BY <1>2, StoredIs
<1>4. m \in Maps /\ \A p \in DOMAIN m : m[p].first.pc = p
  BY <1>2, <1>3, MapsAre
<1> HIDE DEF m
<1>5. file \in Seq(Maps) /\ Len(file) \in Nat
  BY DEF ProfileTypeOK
<1>6. /\ file' \in Seq(Maps) /\ DOMAIN file' = DOMAIN file \cup {Len(file) + 1}
      /\ DOMAIN file = 1 .. Len(file)
      /\ file'[Len(file) + 1] = m /\ \A n \in DOMAIN file : file'[n] = file[n]
  BY <1>1, <1>4, <1>5
<1>7. ProfileTypeOK'
  BY <1>1, <1>6 DEF ProfileTypeOK
<1>8. BuildInv'
  <2>1. \A l : ToPatch(l)' = ToPatch(l)
    BY <1>1 DEF ToPatch
  <2>2. UseInv'
    BY <1>1, UsesKept DEF BuildInv, UsersKept, UserIn, UseInv
  <2>3. LayoutInv' /\ RealPcsInOrder'
    BY <1>1 DEF BuildInv, LayoutInv, RealPcsInOrder
  <2>4. LabelInv' /\ LabelsResolved'
    BY <1>1 DEF BuildInv, LabelInv, LabelsResolved, Resolved, User, Place
  <2>5. PlacedInv'
    BY <1>1 DEF BuildInv, PlacedInv, PlaceOK
  <2> QED
    BY <2>2, <2>3, <2>4, <2>5 DEF BuildInv
<1>9. FileInv'
  <2>1. \A n \in DOMAIN file' : \A p \in DOMAIN file'[n] : file'[n][p].first.pc = p
    BY <1>4, <1>6 DEF FileInv
  <2>2. SUFFICES ASSUME NEW p \in UNION {DOMAIN file'[n] : n \in DOMAIN file'}
                 PROVE  \E n \in DOMAIN file' :
                          p \in DOMAIN file'[n] /\ \A k \in 1 .. n - 1 : p \notin DOMAIN file'[k]
    BY <2>1 DEF FileInv
  <2>3. CASE p \in UNION {DOMAIN file[n] : n \in DOMAIN file}
    <3>1. PICK n \in DOMAIN file : p \in DOMAIN file[n] /\ \A k \in 1 .. n - 1 : p \notin DOMAIN file[k]
      BY <2>3 DEF FileInv
    <3>2. \A k \in 1 .. n - 1 : k \in DOMAIN file
      BY <1>5, <1>6
    <3> QED
      BY <1>6, <3>1, <3>2
  <2>4. CASE p \notin UNION {DOMAIN file[n] : n \in DOMAIN file}
    <3>1. p \in DOMAIN file'[Len(file) + 1] /\ \A k \in DOMAIN file : p \notin DOMAIN file'[k]
      BY <1>6, <2>2, <2>4
    <3>2. 1 .. (Len(file) + 1) - 1 = DOMAIN file
      BY <1>5, <1>6
    <3> QED
      BY <1>6, <3>1, <3>2
  <2> QED
    BY <2>3, <2>4
<1> QED
  BY <1>7, <1>8, <1>9

LEMMA UnchangedStep ==
  ASSUME ProfileInv, UNCHANGED <<next, map, labels, file, uses, placed>>
  PROVE  ProfileInv'
<1>1. ProfileTypeOK' /\ LayoutInv' /\ RealPcsInOrder'
  BY DEF ProfileInv, BuildInv, ProfileTypeOK, LayoutInv, RealPcsInOrder
<1>2. LabelInv' /\ LabelsResolved' /\ PlacedInv'
  BY DEF ProfileInv, BuildInv, LabelInv, LabelsResolved, Resolved, User, Place, PlacedInv, PlaceOK
<1>3. UseInv'
  BY UsesKept DEF ProfileInv, BuildInv, UsersKept, UserIn, UseInv
<1>4. FileInv'
  BY DEF ProfileInv, FileInv
<1> QED
  BY <1>1, <1>2, <1>3, <1>4 DEF ProfileInv, BuildInv

LEMMA FileUnchanged ==
  ASSUME FileInv, file' = file
  PROVE  FileInv'
<1>1. \A n \in DOMAIN file' : \A p \in DOMAIN file'[n] : file'[n][p].first.pc = p
  BY DEF FileInv
<1>2. \A p \in UNION {DOMAIN file'[n] : n \in DOMAIN file'} :
        \E n \in DOMAIN file' : p \in DOMAIN file'[n] /\ \A k \in 1 .. n - 1 : p \notin DOMAIN file'[k]
  <2>1. UNION {DOMAIN file'[n] : n \in DOMAIN file'} = UNION {DOMAIN file[n] : n \in DOMAIN file}
    OBVIOUS
  <2> QED
    BY <2>1 DEF FileInv
<1> QED
  BY <1>1, <1>2 DEF FileInv

LEMMA ProfileInit_Inv == ProfileInit => ProfileInv
<1> HAVE ProfileInit
<1>1. BuildInv
  BY EmptyBuild DEF ProfileInit
<1>2. ProfileTypeOK
  BY EmptyTypes DEF ProfileInit, ProfileTypeOK
<1>3. FileInv
  <2>1. DOMAIN file = {}
    BY NoMap DEF ProfileInit
  <2> QED
    BY <2>1 DEF FileInv
<1> QED
  BY <1>1, <1>2, <1>3 DEF ProfileInv

LEMMA ProfileStep == ProfileInv /\ [ProfileNext]_profileVars => ProfileInv'
<1> SUFFICES ASSUME ProfileInv, [ProfileNext]_profileVars
             PROVE  ProfileInv'
  OBVIOUS
<1> USE DEF ProfileInv
<1>1. ASSUME NEW len \in Lens, NEW entry \in BOOLEAN, Emit(len, entry)
      PROVE  ProfileInv'
  <2>1. file' = file
    BY <1>1 DEF Emit
  <2> QED
    BY <1>1, <2>1, EmitStep, FileUnchanged
<1>2. ASSUME NEW len \in Lens, NEW k \in Kinds, NEW l \in Label, EmitGoto(len, k, l)
      PROVE  ProfileInv'
  <2>1. file' = file
    BY <1>2 DEF EmitGoto
  <2> QED
    BY <1>2, <2>1, EmitGotoStep, FileUnchanged
<1>3. ASSUME NEW a \in DOMAIN map, NEW k \in Kinds, NEW l \in Label, EmitDiscrepancy(a, k, l)
      PROVE  ProfileInv'
  <2>1. file' = file
    BY <1>3 DEF EmitDiscrepancy
  <2> QED
    BY <1>3, <2>1, EmitDiscrepancyStep, FileUnchanged
<1>4. ASSUME NEW a \in DOMAIN map, NEW k \in Kinds, NEW l \in Label, EmitCopy(a, k, l)
      PROVE  ProfileInv'
  <2>1. file' = file
    BY <1>4 DEF EmitCopy
  <2> QED
    BY <1>4, <2>1, EmitCopyStep, FileUnchanged
<1>5. ASSUME NEW l \in Label, EmitLabel(l)
      PROVE  ProfileInv'
  <2>1. file' = file
    BY <1>5 DEF EmitLabel
  <2> QED
    BY <1>5, <2>1, LabelEmitted, FileUnchanged
<1>6. CASE Clear
  <2>1. file' = file
    BY <1>6 DEF Clear
  <2> QED
    BY <1>6, <2>1, ClearStep, FileUnchanged
<1>7. CASE Save
  BY <1>7, SaveStep
<1>8. CASE Load \/ UNCHANGED profileVars
  BY <1>8, UnchangedStep DEF Load, profileVars
<1> QED
  BY <1>1, <1>2, <1>3, <1>4, <1>5, <1>6, <1>7, <1>8 DEF ProfileNext

(* The type invariant and the rest of the inductive invariant hold in every  *)
(* state of the builder and its file.                                      *)
THEOREM ProfileTypeCorrect == ProfileSpec => []ProfileTypeOK
<1>1. ProfileInit => ProfileInv
  BY ProfileInit_Inv
<1>2. ProfileInv /\ [ProfileNext]_profileVars => ProfileInv'
  BY ProfileStep
<1>3. ProfileInv => ProfileTypeOK
  BY DEF ProfileInv
<1> QED
  BY <1>1, <1>2, <1>3, PTL DEF ProfileSpec

-----------------------------------------------------------------------------
(* Whatever order instructions, alternatives and labels are emitted in, an    *)
(* instruction that refers to a label has the location of the label.        *)
THEOREM LabelsAreResolved == ProfileSpec => []LabelsResolved
<1>1. ProfileInit => ProfileInv
  BY ProfileInit_Inv
<1>2. ProfileInv /\ [ProfileNext]_profileVars => ProfileInv'
  BY ProfileStep
<1>3. ProfileInv => LabelsResolved
  BY DEF ProfileInv, BuildInv
<1> QED
  BY <1>1, <1>2, <1>3, PTL DEF ProfileSpec

(* Instructions are numbered without a gap in the order of their addresses.  *)
THEOREM NumberedInOrder == ProfileSpec => []RealPcsInOrder
<1>1. ProfileInit => ProfileInv
  BY ProfileInit_Inv
<1>2. ProfileInv /\ [ProfileNext]_profileVars => ProfileInv'
  BY ProfileStep
<1>3. ProfileInv => RealPcsInOrder
  BY DEF ProfileInv, BuildInv
<1> QED
  BY <1>1, <1>2, <1>3, PTL DEF ProfileSpec

(* The instruction at the end of another is the one numbered after it: one   *)
(* between the two would start before the end.                             *)
LEMMA FallsToNext ==
  ASSUME ProfileInv, NEW a \in DOMAIN map, NEW b \in DOMAIN map, b = a + map[a].first.len
  PROVE  map[b].first.real_pc = map[a].first.real_pc + 1
<1> DEFINE N(c) == map[c].first.real_pc
           size == Cardinality(DOMAIN map)
<1>1. \A c \in DOMAIN map : c \in Nat /\ N(c) \in Nat /\ map[c].first.len \in Nat \ {0}
  BY RecordIs DEF ProfileInv
<1>2. size \in Nat
  BY FS_CardinalityType DEF ProfileInv, BuildInv, LayoutInv
<1>3. {N(c) : c \in DOMAIN map} = 0 .. size - 1
      /\ \A c, d \in DOMAIN map : c < d => N(c) < N(d)
  BY DEF ProfileInv, BuildInv, RealPcsInOrder
<1>4. \A c, d \in DOMAIN map : c < d => c + map[c].first.len <= d
  BY DEF ProfileInv, BuildInv, LayoutInv
<1> HIDE DEF N, size
<1>5. a < b /\ N(a) < N(b)
  BY <1>1, <1>3
<1>6. N(a) + 1 \in 0 .. size - 1
  BY <1>1, <1>2, <1>3, <1>5
<1>7. PICK c \in DOMAIN map : N(c) = N(a) + 1
  BY <1>3, <1>6
<1>8. a < c
  BY <1>1, <1>3, <1>7
<1>9. ~(c < b)
  BY <1>1, <1>4, <1>8
<1>10. ~(b < c)
  BY <1>1, <1>3, <1>5, <1>7
<1>11. c = b
  BY <1>1, <1>9, <1>10
<1> QED
  BY <1>7, <1>11 DEF N

LEMMA NextIsRightHolds ==
  ASSUME ProfileInv
  PROVE  NextIsRight
<1>1. ASSUME NEW a \in DOMAIN map, ~GoesTo(map[a].first), Target(map[a].first) \in DOMAIN map
      PROVE  map[Target(map[a].first)].first.real_pc = map[a].first.real_pc + 1
  <2>1. Target(map[a].first) = a + map[a].first.len
    BY <1>1 DEF Target, ProfileInv, BuildInv, LayoutInv
  <2> QED
    BY <1>1, <2>1, FallsToNext
<1>2. ASSUME NEW u \in uses, GoesTo(User(u)), Resolved(u), Target(User(u)) \in DOMAIN map
      PROVE  map[Target(User(u))].first.real_pc = Place(u).before
  <2>1. Target(User(u)) = Place(u).loc
    BY <1>2 DEF Target, ProfileInv, BuildInv, LabelsResolved
  <2>2. u.label \in Label /\ u.seen \in Nat /\ u.seen <= Len(placed[u.label])
    BY DEF ProfileInv, ProfileTypeOK, BuildInv, UseInv
  <2>3. \E n \in DOMAIN placed[u.label] : Place(u) = placed[u.label][n]
    <3>1. placed[u.label] \in Seq([loc : Nat, before : Nat]) /\ placed[u.label] # <<>>
      BY <1>2, <2>2 DEF ProfileInv, ProfileTypeOK, Resolved
    <3>2. Len(placed[u.label]) \in DOMAIN placed[u.label]
          /\ (u.seen # 0 => u.seen \in DOMAIN placed[u.label])
      BY <2>2, <3>1
    <3> QED
      BY <3>2 DEF Place
  <2>4. PlaceOK(Place(u))
    BY <2>2, <2>3 DEF ProfileInv, BuildInv, PlacedInv
  <2> QED
    BY <1>2, <2>1, <2>4 DEF PlaceOK
<1> QED
  BY <1>1, <1>2 DEF NextIsRight

(* find::next never answers a wrong instruction, for one that falls through   *)
(* and for one that goes to a label.                                       *)
THEOREM NextIsFound == ProfileSpec => []NextIsRight
<1>1. ProfileInit => ProfileInv
  BY ProfileInit_Inv
<1>2. ProfileInv /\ [ProfileNext]_profileVars => ProfileInv'
  BY ProfileStep
<1>3. ProfileInv => NextIsRight
  BY NextIsRightHolds
<1> QED
  BY <1>1, <1>2, <1>3, PTL DEF ProfileSpec

-----------------------------------------------------------------------------
(* Of the maps that have an address, Version gives the first. *)
LEMMA VersionIsFirst ==
  ASSUME ProfileTypeOK, FileInv, NEW p \in UNION {DOMAIN file[n] : n \in DOMAIN file}
  PROVE  /\ Version(p) \in DOMAIN file /\ p \in DOMAIN file[Version(p)]
         /\ \A n \in DOMAIN file : p \in DOMAIN file[n] /\ (\A k \in 1 .. n - 1 : p \notin DOMAIN file[k])
              => n = Version(p)
<1> DEFINE First(n) == p \in DOMAIN file[n] /\ \A k \in 1 .. n - 1 : p \notin DOMAIN file[k]
<1>1. \E n \in DOMAIN file : First(n)
  BY DEF FileInv
<1>2. Version(p) \in DOMAIN file /\ First(Version(p))
  BY <1>1 DEF Version
<1>3. \A n \in DOMAIN file : n \in Nat \ {0}
  BY DEF ProfileTypeOK
<1>4. ASSUME NEW n \in DOMAIN file, First(n)
      PROVE  n = Version(p)
  <2>1. ~(n < Version(p))
    BY <1>2, <1>3, <1>4
  <2>2. ~(Version(p) < n)
    BY <1>2, <1>3, <1>4
  <2> QED
    BY <1>2, <1>3, <2>1, <2>2
<1> QED
  BY <1>2, <1>4

LEMMA LoadStep ==
  ASSUME ProfileInv, Load
  PROVE  /\ DOMAIN loaded'.map = UNION {DOMAIN file[n] : n \in DOMAIN file}
         /\ \A n \in DOMAIN file, p \in DOMAIN loaded'.map :
              p \in DOMAIN file[n] /\ (\A k \in 1 .. n - 1 : p \notin DOMAIN file[k])
              => loaded'.map[p] = file[n][p]
         /\ \A p \in DOMAIN loaded'.map :
              /\ loaded'.map[p].first.entry => p \in loaded'.entries
              /\ \A i \in Versions(loaded'.map[p]) : GoesTo(i) => i.loc \in loaded'.labels
<1> DEFINE records == UNION {Range(file[n]) : n \in DOMAIN file}
           addresses == UNION {DOMAIN file[n] : n \in DOMAIN file}
<1>1. /\ loaded'.map = [p \in addresses |-> file[Version(p)][p]]
      /\ loaded'.labels = {i.loc : i \in {j \in UNION {Versions(r) : r \in records} : GoesTo(j)}}
      /\ loaded'.entries = {r.first.pc : r \in {s \in records : \E i \in Versions(s) : i.entry}}
  BY DEF Load
<1>2. DOMAIN loaded'.map = addresses /\ \A p \in addresses : loaded'.map[p] = file[Version(p)][p]
  BY <1>1
<1>3. \A p \in addresses : loaded'.map[p] \in records /\ loaded'.map[p].first.pc = p
  <2> TAKE p \in addresses
  <2>1. Version(p) \in DOMAIN file /\ p \in DOMAIN file[Version(p)]
    BY VersionIsFirst DEF ProfileInv
  <2>2. file[Version(p)][p] \in records
    BY <2>1 DEF Range
  <2>3. file[Version(p)][p].first.pc = p
    BY <2>1 DEF ProfileInv, FileInv
  <2> QED
    BY <1>2, <2>2, <2>3
<1> HIDE DEF records
<1>4. ASSUME NEW n \in DOMAIN file, NEW p \in addresses,
             p \in DOMAIN file[n], \A k \in 1 .. n - 1 : p \notin DOMAIN file[k]
      PROVE  loaded'.map[p] = file[n][p]
  BY <1>2, <1>4, VersionIsFirst DEF ProfileInv
<1>5. ASSUME NEW p \in addresses, loaded'.map[p].first.entry
      PROVE  p \in loaded'.entries
  <2> DEFINE r == loaded'.map[p]
  <2>1. r \in records /\ r.first.pc = p /\ r.first \in Versions(r) /\ r.first.entry
    BY <1>3, <1>5 DEF Versions
  <2> HIDE DEF r
  <2> QED
    BY <1>1, <2>1
<1>6. ASSUME NEW p \in addresses, NEW i \in Versions(loaded'.map[p]), GoesTo(i)
      PROVE  i.loc \in loaded'.labels
  <2>1. loaded'.map[p] \in records
    BY <1>3
  <2>2. i \in {j \in UNION {Versions(r) : r \in records} : GoesTo(j)}
    BY <1>6, <2>1
  <2> QED
    BY <1>1, <2>2
<1> QED
  BY <1>2, <1>4, <1>5, <1>6

(* A load gives every address that was ever saved as it was saved first, and *)
(* labels and entries that cover what the map needs.                        *)
THEOREM LoadGivesFirstSaved == ProfileSpec => LoadedIsFirstSaved
<1>1. ProfileInit => ProfileInv
  BY ProfileInit_Inv
<1>2. ProfileInv /\ [ProfileNext]_profileVars => ProfileInv'
  BY ProfileStep
<1>3. ProfileInv /\ [ProfileNext]_profileVars =>
        [loaded' # loaded =>
           /\ DOMAIN loaded'.map = UNION {DOMAIN file[n] : n \in DOMAIN file}
           /\ \A n \in DOMAIN file, p \in DOMAIN loaded'.map :
                p \in DOMAIN file[n] /\ (\A k \in 1 .. n - 1 : p \notin DOMAIN file[k])
                => loaded'.map[p] = file[n][p]
           /\ \A p \in DOMAIN loaded'.map :
                /\ loaded'.map[p].first.entry => p \in loaded'.entries
                /\ \A i \in Versions(loaded'.map[p]) :
                     GoesTo(i) => i.loc \in loaded'.labels]_profileVars
  <2> SUFFICES ASSUME ProfileInv, ProfileNext, loaded' # loaded
               PROVE  Load
    BY LoadStep
  <2> QED
    BY DEF ProfileNext, Emit, EmitGoto, EmitDiscrepancy, EmitCopy, EmitLabel, Clear, Save
<1> QED
  BY <1>1, <1>2, <1>3, PTL DEF ProfileSpec, LoadedIsFirstSaved
=============================================================================
