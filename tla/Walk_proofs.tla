---------------------------- MODULE Walk_proofs ----------------------------
(***************************************************************************)
(* Proofs about Walk, for every finite graph: the listing has exactly the    *)
(* blocks that can be reached from the entry, each once, and every label it  *)
(* refers to.                                                              *)
(***************************************************************************)
EXTENDS Walk, SequenceTheorems, FunctionTheorems, FiniteSetTheorems, TLAPS

USE WalkAssumption

Elements(s) == {s[n] : n \in DOMAIN s}
Frontier == visited \cup Elements(addr_stack)
Found == visited \cap block_map

(* Everything met is in every closed set with the entry; what a printed     *)
(* block leads to was met; an empty stack is the end.                       *)
SoundInv == \A S \in SUBSET Addr : Closed(S) /\ entry_address \in S => Frontier \subseteq S
CompleteInv ==
  /\ stage # "disassemble" /\ entry_address # None => entry_address \in Frontier
  /\ \A a \in Found : successors[a] \subseteq Frontier
StageInv ==
  /\ stage = "walk" => addr_stack # <<>> /\ entry_address # None
  /\ stage # "walk" => addr_stack = <<>>
  /\ stage = "disassemble" \/ entry_address = None => visited = {}
  /\ stage # "disassemble" => \A a \in block_map : Refers(a) \subseteq references_labels

(* The listing has the blocks found and their labels, each once. *)
ResultInv ==
  /\ \A n \in DOMAIN result : result[n][2] \in Found
  /\ \A a \in Found : Node(a) \in Elements(result)
  /\ \A a \in Found \cap references_labels : Label(a) \in Elements(result)
  /\ \A m, n \in DOMAIN result : result[m] = result[n] => m = n
  /\ \A n \in DOMAIN result : result[n][1] = "label" =>
       n < Len(result) /\ result[n + 1] = Node(result[n][2])

WalkInv == WalkTypeOK /\ SoundInv /\ CompleteInv /\ StageInv /\ ResultInv

-----------------------------------------------------------------------------
(* A sequence of all elements of a finite set has all its elements. *)
LEMMA SetToSeqsElements ==
  ASSUME NEW S, IsFiniteSet(S), NEW s \in SetToSeqs(S)
  PROVE  s \in Seq(S) /\ Elements(s) = S
<1> DEFINE D == 1 .. Cardinality(S)
<1>1. Cardinality(S) \in Nat
  BY FS_CardinalityType
<1>2. s \in [D -> S] /\ \A i, j \in D : i # j => s[i] # s[j]
  BY DEF SetToSeqs
<1>3. s \in Injection(D, S)
  BY <1>2 DEF Injection, IsInjective
<1>4. IsFiniteSet(D) /\ Cardinality(D) = Cardinality(S)
  BY <1>1, FS_Interval
<1>5. s \in Surjection(D, S)
  BY <1>3, <1>4, FS_Injection
<1>6. Elements(s) = S
  BY <1>2, <1>5 DEF Surjection, Elements
<1> QED
  BY <1>1, <1>2, <1>6

(* A pop leaves what is below the top. *)
LEMMA Pop ==
  ASSUME WalkTypeOK, addr_stack # <<>>
  PROVE  /\ Rest \in Seq(Addr) /\ Top \in Addr
         /\ Elements(addr_stack) = Elements(Rest) \cup {Top}
<1>1. addr_stack \in Seq(Addr) /\ Len(addr_stack) \in Nat \ {0}
  BY DEF WalkTypeOK
<1>2. Rest \in Seq(Addr) /\ Len(Rest) = Len(addr_stack) - 1
      /\ \A n \in 1 .. Len(addr_stack) - 1 : Rest[n] = addr_stack[n]
  <2> DEFINE top == Len(addr_stack) - 1
  <2>1. top \in Nat /\ \A n \in 1 .. top : addr_stack[n] \in Addr
    BY <1>1
  <2>2. /\ SubSeq(addr_stack, 1, top) \in Seq(Addr)
        /\ Len(SubSeq(addr_stack, 1, top)) = IF 1 <= top THEN top - 1 + 1 ELSE 0
        /\ \A n \in 1 .. top - 1 + 1 : SubSeq(addr_stack, 1, top)[n] = addr_stack[1 + n - 1]
    BY <2>1, SubSeqProperties
  <2>3. Rest = SubSeq(addr_stack, 1, top)
    BY DEF Rest
  <2> HIDE DEF top
  <2>4. /\ Rest \in Seq(Addr) /\ Len(Rest) = top
        /\ \A n \in 1 .. top : Rest[n] = addr_stack[n]
    BY <2>1, <2>2, <2>3
  <2> QED
    BY <2>4 DEF top
<1>3. Top \in Addr /\ DOMAIN addr_stack = DOMAIN Rest \cup {Len(addr_stack)}
  BY <1>1, <1>2 DEF Top
<1> QED
  BY <1>1, <1>2, <1>3 DEF Elements, Top

LEMMA ConcatElements ==
  ASSUME NEW S, NEW s \in Seq(S), NEW t \in Seq(S)
  PROVE  s \o t \in Seq(S) /\ Elements(s \o t) = Elements(s) \cup Elements(t)
<1>1. s \o t \in Seq(S) /\ Len(s \o t) = Len(s) + Len(t)
      /\ \A n \in 1 .. Len(s) + Len(t) :
           (s \o t)[n] = IF n <= Len(s) THEN s[n] ELSE t[n - Len(s)]
  BY ConcatProperties
<1>2. \A n \in DOMAIN t : (s \o t)[n + Len(s)] = t[n] /\ n + Len(s) \in DOMAIN (s \o t)
  BY <1>1
<1>3. Elements(s \o t) \subseteq Elements(s) \cup Elements(t)
  BY <1>1 DEF Elements
<1>4. Elements(s) \subseteq Elements(s \o t)
  BY <1>1 DEF Elements
<1>5. Elements(t) \subseteq Elements(s \o t)
  BY <1>2 DEF Elements
<1> QED
  BY <1>1, <1>3, <1>4, <1>5

(* What a printed block adds to the stack: its successors. *)
LEMMA Push ==
  ASSUME WalkTypeOK, addr_stack # <<>>, NEW dests \in Pushed(Top), NEW next \in Next(Top, dests)
  PROVE  /\ Rest \o OnTop(dests, next) \in Seq(Addr)
         /\ Elements(Rest \o OnTop(dests, next)) = Elements(Rest) \cup successors[Top]
<1>1. Top \in Addr /\ Rest \in Seq(Addr)
  BY Pop
<1>2. successors[Top] \subseteq Addr /\ IsFiniteSet(successors[Top])
  BY <1>1, FS_Subset DEF WalkTypeOK
<1>3. dests \in Seq(Addr) /\ Elements(dests) = successors[Top]
  BY <1>2, SetToSeqsElements DEF Pushed
<1>4. next \in Seq(Addr) /\ Elements(next) \subseteq successors[Top]
  <2>1. CASE next = <<>>
    BY <2>1 DEF Elements
  <2>2. CASE \E n \in DOMAIN dests : next = <<dests[n]>>
    BY <2>2, <1>2, <1>3 DEF Elements
  <2> QED
    BY <2>1, <2>2 DEF Next
<1>5. OnTop(dests, next) \in Seq(Addr) /\ Elements(OnTop(dests, next)) = successors[Top]
  <2>1. /\ dests \o next \in Seq(Addr)
        /\ Elements(dests \o next) = Elements(dests) \cup Elements(next)
    BY <1>3, <1>4, ConcatElements
  <2> QED
    BY <1>3, <1>4, <2>1 DEF OnTop
<1> QED
  BY <1>1, <1>5, ConcatElements

-----------------------------------------------------------------------------
LEMMA WalkInitial == WalkInit => WalkInv
<1> SUFFICES ASSUME WalkInit PROVE WalkInv
  OBVIOUS
<1>1. WalkTypeOK
  BY DEF WalkInit, WalkTypeOK
<1>2. Elements(addr_stack) = {} /\ Elements(result) = {} /\ visited = {}
  BY DEF WalkInit, Elements
<1>3. SoundInv /\ CompleteInv /\ StageInv
  BY <1>2 DEF WalkInit, SoundInv, CompleteInv, StageInv, Frontier, Found
<1>4. ResultInv
  BY <1>2 DEF WalkInit, ResultInv, Found
<1> QED
  BY <1>1, <1>3, <1>4 DEF WalkInv

(* A step meets nothing new, or the successors of a block it met. *)
LEMMA FrontierStep ==
  ASSUME WalkInv, [WalkNext]_walkVars
  PROVE  /\ UNCHANGED graph
         /\ visited \subseteq visited'
         /\ \/ Disassemble /\ Frontier' = IF entry_address = None THEN {} ELSE {entry_address}
            \/ ~Emit /\ Frontier' = Frontier /\ Found' = Found
            \/ Emit /\ Frontier' = Frontier \cup successors[Top] /\ Top \in Frontier
                    /\ Top \notin Found /\ Found' = Found \cup {Top}
<1> USE DEF WalkInv, StageInv
<1>1. CASE Disassemble
  <2>1. visited = {} /\ visited' = {} /\ UNCHANGED graph
    BY <1>1 DEF Disassemble
  <2>2. Elements(addr_stack)' = IF entry_address = None THEN {} ELSE {entry_address}
    BY <1>1 DEF Disassemble, Elements
  <2> QED
    BY <1>1, <2>1, <2>2 DEF Frontier
<1>2. CASE Skip
  <2>1. addr_stack # <<>> /\ Top \in visited /\ addr_stack' = Rest /\ ~Emit
        /\ UNCHANGED <<graph, visited>>
    BY <1>2 DEF Skip, Emit
  <2>2. Elements(addr_stack) = Elements(Rest) \cup {Top}
    BY <2>1, Pop
  <2>3. Elements(addr_stack)' = Elements(Rest)
    BY <2>1 DEF Elements
  <2> QED
    BY <2>1, <2>2, <2>3 DEF Frontier, Found, graph
<1>3. CASE Miss
  <2>1. addr_stack # <<>> /\ Top \notin block_map /\ addr_stack' = Rest /\ ~Emit
        /\ UNCHANGED graph /\ visited' = visited \cup {Top}
    BY <1>3 DEF Miss, Emit, Remembered
  <2>2. Elements(addr_stack) = Elements(Rest) \cup {Top}
    BY <2>1, Pop
  <2>3. Elements(addr_stack)' = Elements(Rest)
    BY <2>1 DEF Elements
  <2> QED
    BY <2>1, <2>2, <2>3 DEF Frontier, Found, graph
<1>4. CASE Emit
  <2>1. addr_stack # <<>> /\ Top \notin visited /\ Top \in block_map
        /\ UNCHANGED graph /\ visited' = visited \cup {Top}
    BY <1>4 DEF Emit, Remembered
  <2>2. PICK dests \in Pushed(Top) : \E next \in Next(Top, dests) :
          addr_stack' = Rest \o OnTop(dests, next)
    BY <1>4 DEF Emit
  <2>3. PICK next \in Next(Top, dests) : addr_stack' = Rest \o OnTop(dests, next)
    BY <2>2
  <2>4. Elements(addr_stack) = Elements(Rest) \cup {Top}
    BY <2>1, Pop
  <2>5. Elements(Rest \o OnTop(dests, next)) = Elements(Rest) \cup successors[Top]
    BY <2>1, Push
  <2>6. Elements(addr_stack)' = Elements(Rest) \cup successors[Top]
    BY <2>3, <2>5 DEF Elements
  <2> QED
    BY <1>4, <2>1, <2>4, <2>6 DEF Frontier, Found, graph
<1>5. CASE UNCHANGED walkVars
  <2>1. Frontier' = Frontier /\ Found' = Found /\ UNCHANGED <<graph, visited>>
    BY <1>5 DEF walkVars, graph, Frontier, Elements, Found
  <2>2. ~Emit
    <3>1. SUFFICES ASSUME Emit PROVE FALSE
      OBVIOUS
    <3>2. Top \notin visited /\ Top \in visited'
      BY <3>1 DEF Emit, Remembered
    <3> QED
      BY <3>2, <2>1
  <2> QED
    BY <2>1, <2>2
<1> QED
  BY <1>1, <1>2, <1>3, <1>4, <1>5 DEF WalkNext

LEMMA WalkTypeStep ==
  ASSUME WalkInv, [WalkNext]_walkVars
  PROVE  WalkTypeOK'
<1> USE DEF WalkInv, StageInv
<1>1. UNCHANGED graph
  BY FrontierStep
<1>2. CASE Disassemble
  <2>1. references_labels' \subseteq block_map
    BY <1>2 DEF Disassemble, Labelled, Refers
  <2>2. addr_stack' \in Seq(Addr) /\ stage' \in {"walk", "done"}
        /\ (stage' = "walk" => addr_stack' # <<>>)
    BY <1>2 DEF Disassemble, WalkTypeOK
  <2> QED
    BY <1>1, <1>2, <2>1, <2>2 DEF Disassemble, WalkTypeOK, graph
<1>3. CASE Skip
  <2>1. addr_stack # <<>>
    BY <1>3 DEF Skip
  <2> QED
    BY <1>3, <2>1, Pop DEF Skip, WalkTypeOK, graph, Continue
<1>4. CASE Miss
  <2>1. addr_stack # <<>>
    BY <1>4 DEF Miss
  <2> QED
    BY <1>4, <2>1, Pop DEF Miss, WalkTypeOK, graph, Continue, Remembered
<1>5. CASE Emit
  <2>1. addr_stack # <<>>
    BY <1>5 DEF Emit
  <2>2. addr_stack' \in Seq(Addr)
    BY <1>5, <2>1, Push DEF Emit
  <2>3. Top \in Addr
    BY <2>1, Pop
  <2>4. result' \in Seq({"label", "node"} \X Addr)
    <3> DEFINE Line == {"label", "node"} \X Addr
    <3>1. Label(Top) \in Line /\ Node(Top) \in Line /\ result \in Seq(Line)
      BY <2>3 DEF WalkTypeOK, Label, Node
    <3>2. <<Label(Top)>> \in Seq(Line) /\ <<Node(Top)>> \in Seq(Line) /\ <<>> \in Seq(Line)
      BY <3>1
    <3>3. \A s \in Seq(Line) : result \o s \o <<Node(Top)>> \in Seq(Line)
      BY <3>1, <3>2, ConcatElements
    <3> HIDE DEF Line
    <3>4. result' \in Seq(Line)
      BY <1>5, <3>2, <3>3 DEF Emit
    <3> QED
      BY <3>4 DEF Line
  <2> QED
    BY <1>5, <2>2, <2>3, <2>4 DEF Emit, WalkTypeOK, graph, Continue, Remembered
<1>6. CASE UNCHANGED walkVars
  BY <1>6 DEF walkVars, graph, WalkTypeOK
<1> QED
  BY <1>2, <1>3, <1>4, <1>5, <1>6 DEF WalkNext

LEMMA SoundStep ==
  ASSUME WalkInv, [WalkNext]_walkVars
  PROVE  SoundInv'
<1>1. UNCHANGED <<block_map, successors, entry_address>>
  BY FrontierStep DEF graph
<1>2. SUFFICES ASSUME NEW S \in SUBSET Addr, Closed(S)', entry_address \in S
               PROVE  Frontier' \subseteq S
  BY <1>1 DEF SoundInv
<1>3. Closed(S) /\ Frontier \subseteq S
  BY <1>1, <1>2 DEF Closed, WalkInv, SoundInv
<1>4. CASE Frontier' = IF entry_address = None THEN {} ELSE {entry_address}
  BY <1>2, <1>4
<1>5. CASE Frontier' = Frontier
  BY <1>3, <1>5
<1>6. CASE Emit /\ Frontier' = Frontier \cup successors[Top] /\ Top \in Frontier
  <2>1. Top \in S \cap block_map
    BY <1>3, <1>6 DEF Emit
  <2> QED
    BY <1>3, <1>6, <2>1 DEF Closed
<1> QED
  BY <1>4, <1>5, <1>6, FrontierStep

LEMMA CompleteStep ==
  ASSUME WalkInv, [WalkNext]_walkVars
  PROVE  CompleteInv'
<1> USE DEF WalkInv, CompleteInv
<1>1. UNCHANGED <<block_map, successors, entry_address>>
  BY FrontierStep DEF graph
<1>2. CASE Disassemble
  <2>1. visited' = {} /\ Found' = {}
    BY <1>2 DEF Disassemble, StageInv, Found
  <2>2. Frontier' = IF entry_address = None THEN {} ELSE {entry_address}
    <3>1. ~Emit
      BY <1>2 DEF Disassemble, Emit
    <3>2. addr_stack' = IF entry_address = None THEN <<>> ELSE <<entry_address>>
      BY <1>2 DEF Disassemble
    <3> QED
      BY <2>1, <3>2 DEF Frontier, Elements
  <2> QED
    BY <1>1, <2>1, <2>2
<1>3. CASE ~Disassemble
  <2>1. Frontier \subseteq Frontier'
    BY <1>3, FrontierStep
  <2>2. stage' # "disassemble" => stage # "disassemble"
    BY <1>3 DEF WalkNext, Skip, Miss, Emit, walkVars
  <2>3. \A a \in Found' : successors[a] \subseteq Frontier'
    BY <1>3, <2>1, FrontierStep
  <2> QED
    BY <1>1, <2>1, <2>2, <2>3
<1> QED
  BY <1>2, <1>3

LEMMA StageStep ==
  ASSUME WalkInv, [WalkNext]_walkVars
  PROVE  StageInv'
<1> USE DEF WalkInv, StageInv
<1>1. UNCHANGED <<block_map, successors, falls, fref, entry_address>>
  BY FrontierStep DEF graph
<1>2. CASE Disassemble
  <2>1. references_labels' = UNION {Refers(a) : a \in block_map}
    BY <1>2 DEF Disassemble, Labelled
  <2>2. \A a \in block_map : Refers(a) \subseteq references_labels'
    BY <2>1
  <2>3. \A a \in block_map' : Refers(a)' \subseteq references_labels'
    BY <1>1, <2>2 DEF Refers
  <2> QED
    BY <1>1, <1>2, <2>3 DEF Disassemble
<1>3. CASE Skip \/ Miss \/ Emit
  <2>1. stage = "walk" /\ Continue /\ references_labels' = references_labels
    BY <1>3 DEF Skip, Miss, Emit
  <2>2. \A a \in block_map' : Refers(a)' \subseteq references_labels'
    BY <1>1, <2>1 DEF Refers
  <2> QED
    BY <1>1, <2>1, <2>2 DEF Continue
<1>4. CASE UNCHANGED walkVars
  <2>1. stage # "disassemble" => \A a \in block_map' : Refers(a)' \subseteq references_labels'
    BY <1>1, <1>4 DEF Refers, walkVars
  <2> QED
    BY <1>1, <1>4, <2>1 DEF walkVars
<1> QED
  BY <1>2, <1>3, <1>4 DEF WalkNext

(* A printed block adds its label, if some text refers to it, and itself.    *)
LEMMA EmitResult ==
  ASSUME WalkInv, Emit
  PROVE  LET len == Len(result)
             a == Top
             named == Top \in references_labels
         IN /\ len \in Nat /\ DOMAIN result = 1 .. len
            /\ DOMAIN result' = 1 .. Len(result')
            /\ Len(result') = IF named THEN len + 2 ELSE len + 1
            /\ \A n \in 1 .. len : result'[n] = result[n]
            /\ named => result'[len + 1] = Label(a) /\ result'[len + 2] = Node(a)
            /\ ~named => result'[len + 1] = Node(a)
<1>1. result \in Seq({"label", "node"} \X Addr)
  BY DEF WalkInv, WalkTypeOK
<1>2. CASE Top \in references_labels
  <2>1. result' = result \o <<Label(Top)>> \o <<Node(Top)>>
    BY <1>2 DEF Emit
  <2> QED
    BY <1>1, <1>2, <2>1
<1>3. CASE Top \notin references_labels
  <2>1. result' = result \o <<>> \o <<Node(Top)>>
    BY <1>3 DEF Emit
  <2> QED
    BY <1>1, <1>3, <2>1
<1> QED
  BY <1>2, <1>3

LEMMA ResultStep ==
  ASSUME WalkInv, [WalkNext]_walkVars
  PROVE  ResultInv'
<1> USE DEF WalkInv, ResultInv
<1>1. CASE Disassemble
  <2>1. visited = {} /\ visited' = {} /\ result' = result
    BY <1>1 DEF Disassemble, StageInv
  <2>2. Found = {} /\ Found' = {}
    BY <2>1 DEF Found
  <2>3. \A n \in DOMAIN result : FALSE
    BY <2>2
  <2>4. DOMAIN result' = DOMAIN result
    BY <2>1
  <2> QED
    BY <2>2, <2>3, <2>4
<1>2. CASE Emit
  <2> DEFINE len == Len(result)
             named == Top \in references_labels
  <2>1. /\ len \in Nat /\ DOMAIN result = 1 .. len
        /\ DOMAIN result' = 1 .. Len(result')
        /\ Len(result') = IF named THEN len + 2 ELSE len + 1
        /\ \A n \in 1 .. len : result'[n] = result[n]
        /\ named => result'[len + 1] = Label(Top) /\ result'[len + 2] = Node(Top)
        /\ ~named => result'[len + 1] = Node(Top)
    BY <1>2, EmitResult
  <2>2. Top \notin Found /\ Found' = Found \cup {Top}
    BY <1>2 DEF Emit, Found, Remembered, graph
  <2>3. references_labels' = references_labels
    BY <1>2 DEF Emit
  <2>4. \A n \in DOMAIN result' : result'[n][2] \in Found'
    BY <2>1, <2>2 DEF Label, Node
  <2>5. Elements(result)' = Elements(result) \cup (IF named THEN {Label(Top)} ELSE {}) \cup {Node(Top)}
    BY <2>1 DEF Elements
  <2>6. \A a \in Found' : Node(a) \in Elements(result)'
    BY <2>2, <2>5
  <2>7. \A a \in Found' \cap references_labels' : Label(a) \in Elements(result)'
    BY <2>2, <2>3, <2>5
  <2>8. ASSUME NEW m \in DOMAIN result', NEW n \in DOMAIN result', result'[m] = result'[n]
        PROVE  m = n
    <3>1. \A k \in DOMAIN result : result[k] # Label(Top) /\ result[k] # Node(Top)
      BY <2>2 DEF Label, Node
    <3>2. Label(Top) # Node(Top)
      BY DEF Label, Node
    <3> HIDE DEF len, named
    <3> QED
      BY <2>1, <2>8, <3>1, <3>2
  <2>9. ASSUME NEW n \in DOMAIN result', result'[n][1] = "label"
        PROVE  n < Len(result') /\ result'[n + 1] = Node(result'[n][2])
    <3>1. CASE n \in 1 .. len
      BY <2>1, <2>9, <3>1
    <3>2. CASE n \notin 1 .. len
      <4>1. Label(Top)[2] = Top /\ Node(Top)[1] = "node"
        BY DEF Label, Node
      <4> QED
        BY <2>1, <2>9, <3>2, <4>1
    <3> QED
      BY <3>1, <3>2
  <2> QED
    BY <2>4, <2>6, <2>7, <2>8, <2>9
<1>3. CASE ~Disassemble /\ ~Emit
  <2>1. Found' = Found
    BY <1>3, FrontierStep
  <2>2. UNCHANGED <<result, references_labels>>
    BY <1>3 DEF WalkNext, Skip, Miss, walkVars
  <2> QED
    BY <2>1, <2>2 DEF Elements
<1> QED
  BY <1>1, <1>2, <1>3

-----------------------------------------------------------------------------
(* The inductive invariant of the walk. *)
THEOREM WalkInvariant == WalkSpec => []WalkInv
<1>1. WalkInit => WalkInv
  BY WalkInitial
<1>2. WalkInv /\ [WalkNext]_walkVars => WalkInv'
  BY WalkTypeStep, SoundStep, CompleteStep, StageStep, ResultStep DEF WalkInv
<1> QED
  BY <1>1, <1>2, PTL DEF WalkSpec

(* main.cpp:515: for every finite graph the listing has exactly the blocks    *)
(* that can be reached from the entry, each once.                           *)
THEOREM ListingIsReachable == WalkSpec => []ListsReachable
<1>1. WalkInv => ListsReachable
  <2> SUFFICES ASSUME WalkInv PROVE ListsReachable
    OBVIOUS
  <2> USE DEF WalkInv
  <2>1. ASSUME stage = "done", entry_address # None
        PROVE  entry_address \in visited /\ Closed(visited) /\ Printed = visited \cap block_map
    <3>1. addr_stack = <<>>
      BY <2>1 DEF StageInv
    <3>2. Frontier = visited
      BY <3>1 DEF Frontier, Elements
    <3>3. entry_address \in visited /\ Closed(visited)
      BY <2>1, <3>2 DEF CompleteInv, Closed, Found
    <3>4. Printed \subseteq visited \cap block_map
      BY DEF Printed, ResultInv, Found, Range, Node
    <3>5. visited \cap block_map \subseteq Printed
      BY DEF Printed, ResultInv, Found, Range, Elements, WalkTypeOK
    <3> QED
      BY <3>3, <3>4, <3>5
  <2>2. \A S \in SUBSET Addr : Closed(S) /\ entry_address \in S => visited \subseteq S
    BY DEF SoundInv, Frontier
  <2>3. \A m, n \in DOMAIN result : result[m] = result[n] => m = n
    BY DEF ResultInv
  <2> QED
    BY <2>1, <2>2, <2>3 DEF ListsReachable
<1> QED
  BY <1>1, WalkInvariant, PTL

(* main.cpp:535: for every finite graph every label the text of a printed     *)
(* block refers to is in the listing, right before the block it names.       *)
THEOREM LabelsAreDefined == WalkSpec => []LabelsDefined
<1>1. WalkInv => LabelsDefined
  <2> SUFFICES ASSUME WalkInv PROVE LabelsDefined
    OBVIOUS
  <2> USE DEF WalkInv
  <2>1. ASSUME stage = "done", NEW a \in Printed, NEW d \in Refers(a)
        PROVE  Label(d) \in Range(result)
    <3>1. a \in Found
      BY DEF Printed, ResultInv, Range, Node
    <3>2. Frontier = visited
      BY <2>1 DEF Frontier, Elements, StageInv
    <3>3. d \in Found
      BY <3>1, <3>2 DEF CompleteInv, Refers, Found
    <3>4. d \in references_labels
      BY <2>1, <3>1 DEF StageInv, Found
    <3> QED
      BY <3>3, <3>4 DEF ResultInv, Elements, Range
  <2> QED
    BY <2>1 DEF LabelsDefined, ResultInv
<1> QED
  BY <1>1, WalkInvariant, PTL

(* Type correctness of the walk. *)
THEOREM WalkTypeCorrect == WalkSpec => []WalkTypeOK
BY WalkInvariant, PTL DEF WalkInv

-----------------------------------------------------------------------------
(* NextIsNext by place in the listing instead of by block. *)
Into(a) == {d \in successors[a] : <<a, d>> \in falls}
Follows(n, d) == IF n = Len(result) THEN addr_stack # <<>> /\ Top = d
                 ELSE result[n + 1] \in {Node(d), Label(d)}
NextInv ==
  \A n \in DOMAIN result : \A a \in Addr : \A d \in Into(a) :
    result[n] = Node(a) /\ Into(a) = {d} /\ (\A m \in 1 .. n : result[m] # Node(d))
    => Follows(n, d)

LEMMA NodesDiffer == \A a, b : (Node(a) = Node(b) => a = b) /\ Node(a) # Label(b)
  BY DEF Node, Label

(* The block a printed block falls into, if there is one, is on top of all     *)
(* that is still to be visited.                                             *)
LEMMA TopIsNext ==
  ASSUME WalkTypeOK, addr_stack # <<>>, NEW dests \in Pushed(Top), NEW next \in Next(Top, dests),
         NEW d \in Into(Top), Into(Top) = {d}
  PROVE  LET s == Rest \o OnTop(dests, next) IN s # <<>> /\ s[Len(s)] = d
<1>1. Top \in Addr /\ Rest \in Seq(Addr)
  BY Pop
<1>2. successors[Top] \subseteq Addr /\ IsFiniteSet(successors[Top])
  BY <1>1, FS_Subset DEF WalkTypeOK
<1>3. dests \in Seq(Addr) /\ Elements(dests) = successors[Top]
  BY <1>2, SetToSeqsElements DEF Pushed
<1>4. next = <<d>>
  <2>1. \E n \in DOMAIN dests : <<Top, dests[n]>> \in falls
    BY <1>3 DEF Into, Elements
  <2>2. \E n \in DOMAIN dests : next = <<dests[n]>> /\ <<Top, dests[n]>> \in falls
    BY <2>1 DEF Next
  <2>3. \A n \in DOMAIN dests : <<Top, dests[n]>> \in falls => dests[n] = d
    BY <1>3 DEF Into, Elements
  <2>. QED
    BY <2>2, <2>3
<1>5. d \in Addr
  BY <1>2 DEF Into
<1>6. /\ OnTop(dests, next) \in Seq(Addr) /\ Len(OnTop(dests, next)) = Len(dests) + 1
      /\ OnTop(dests, next)[Len(dests) + 1] = d
  BY <1>3, <1>4, <1>5 DEF OnTop
<1>. HIDE DEF OnTop, Rest
<1>7. PICK t : t = OnTop(dests, next) /\ t \in Seq(Addr) /\ Len(t) \in Nat /\ Len(t) >= 1 /\ t[Len(t)] = d
  BY <1>3, <1>6
<1>8. /\ Len(Rest \o t) = Len(Rest) + Len(t) /\ Len(Rest) \in Nat
      /\ (Rest \o t)[Len(Rest) + Len(t)] = d
  BY <1>1, <1>7
<1>. QED
  BY <1>7, <1>8

LEMMA NextStep ==
  ASSUME WalkInv, NextInv, [WalkNext]_walkVars
  PROVE  NextInv'
<1> USE DEF WalkInv, WalkTypeOK
<1>1. UNCHANGED <<block_map, successors, falls>>
  BY FrontierStep DEF graph
<1>2. \A a : Into(a)' = Into(a)
  BY <1>1 DEF Into
<1>3. CASE Disassemble
  <2>1. visited = {} /\ result' = result
    BY <1>3 DEF Disassemble, StageInv
  <2>2. \A n \in DOMAIN result : FALSE
    BY <2>1 DEF ResultInv, Found
  <2>. QED
    BY <2>1, <2>2 DEF NextInv
<1>4. CASE Skip \/ Miss
  <2>1. result' = result /\ (Top \in block_map => Top \in Found) /\ addr_stack # <<>>
    BY <1>4 DEF Skip, Miss, Found
  <2>2. SUFFICES ASSUME NEW n \in DOMAIN result, NEW a \in Addr, NEW d \in Into(a),
                        result[n] = Node(a), Into(a) = {d},
                        \A m \in 1 .. n : result[m] # Node(d)
                 PROVE  n # Len(result) /\ result[n + 1] \in {Node(d), Label(d)}
    BY <1>2, <2>1 DEF NextInv, Follows
  <2>3. Follows(n, d)
    BY <2>2 DEF NextInv
  <2>4. ASSUME n = Len(result) PROVE FALSE
    <3>1. Top = d /\ d \in block_map
      BY <2>2, <2>3, <2>4 DEF Follows, Into
    <3>2. Node(d) \in Elements(result)
      BY <2>1, <3>1 DEF ResultInv
    <3>. QED
      BY <2>2, <2>4, <3>2 DEF Elements
  <2>. QED
    BY <2>3, <2>4 DEF Follows
<1>5. CASE Emit
  <2> DEFINE len == Len(result)
             named == Top \in references_labels
  <2>1. /\ len \in Nat /\ DOMAIN result = 1 .. len
        /\ DOMAIN result' = 1 .. Len(result')
        /\ Len(result') = IF named THEN len + 2 ELSE len + 1
        /\ \A n \in 1 .. len : result'[n] = result[n]
        /\ named => result'[len + 1] = Label(Top) /\ result'[len + 2] = Node(Top)
        /\ ~named => result'[len + 1] = Node(Top)
    BY <1>5, EmitResult
  <2> HIDE DEF len, named
  <2>2. SUFFICES ASSUME NEW n \in DOMAIN result', NEW a \in Addr, NEW d \in Into(a),
                        result'[n] = Node(a), Into(a) = {d},
                        \A m \in 1 .. n : result'[m] # Node(d)
                 PROVE  Follows(n, d)'
    BY <1>2 DEF NextInv
  <2>3. CASE n \in 1 .. len
    <3>1. result[n] = Node(a) /\ \A m \in 1 .. n : result[m] # Node(d)
      BY <2>1, <2>2, <2>3
    <3>2. Follows(n, d)
      BY <2>1, <2>2, <2>3, <3>1 DEF NextInv
    <3>3. n # Len(result') /\ result'[n + 1] \in {Node(d), Label(d)}
      <4>1. CASE n = len
        <5>1. Top = d
          BY <3>2, <4>1 DEF Follows, len
        <5>. QED
          BY <2>1, <4>1, <5>1
      <4>2. CASE n # len
        <5>1. n + 1 \in 1 .. len
          BY <2>1, <2>3, <4>2
        <5>2. result[n + 1] \in {Node(d), Label(d)}
          BY <3>2, <4>2 DEF Follows, len
        <5>. QED
          BY <2>1, <5>1, <5>2
      <4>. QED
        BY <4>1, <4>2
    <3>. QED
      BY <3>3 DEF Follows
  <2>4. CASE n \notin 1 .. len
    <3>1. n = Len(result') /\ a = Top
      BY <2>1, <2>2, <2>4, NodesDiffer
    <3>2. addr_stack # <<>>
      BY <1>5 DEF Emit, StageInv
    <3>3. PICK dests \in Pushed(Top) : \E next \in Next(Top, dests) :
            addr_stack' = Rest \o OnTop(dests, next)
      BY <1>5 DEF Emit
    <3>4. PICK next \in Next(Top, dests) : addr_stack' = Rest \o OnTop(dests, next)
      BY <3>3
    <3>5. addr_stack' # <<>> /\ addr_stack'[Len(addr_stack')] = d
      BY <2>2, <3>1, <3>2, <3>4, TopIsNext
    <3>. QED
      BY <3>1, <3>5 DEF Follows, Top
  <2>. QED
    BY <2>3, <2>4
<1>6. CASE UNCHANGED walkVars
  <2>1. UNCHANGED <<result, addr_stack>>
    BY <1>6 DEF walkVars
  <2>2. \A n, d : Follows(n, d)' = Follows(n, d)
    BY <2>1 DEF Follows, Top
  <2>. QED
    BY <1>2, <2>1, <2>2 DEF NextInv
<1>. QED
  BY <1>3, <1>4, <1>5, <1>6 DEF WalkNext

(* main.cpp:560: for every finite graph, the one block a printed block falls   *)
(* into is printed next, unless it was printed before.                      *)
THEOREM FallThroughIsNext == WalkSpec => []NextIsNext
<1>1. WalkInit => NextInv
  <2> SUFFICES ASSUME WalkInit PROVE NextInv
    OBVIOUS
  <2>1. DOMAIN result = {}
    BY DEF WalkInit
  <2>. QED
    BY <2>1 DEF NextInv
<1>2. WalkInv /\ NextInv => NextIsNext
  <2> SUFFICES ASSUME WalkInv, NextInv, NEW a \in Printed, NEW d \in Into(a), Into(a) = {d},
                      \A m \in 1 .. Position(Node(a)) : result[m] # Node(d)
               PROVE  Follows(Position(Node(a)), d)
    BY DEF NextIsNext, Into, Follows
  <2>1. \E n \in DOMAIN result : result[n] = Node(a)
    BY DEF Printed, Range
  <2>2. Position(Node(a)) \in DOMAIN result /\ result[Position(Node(a))] = Node(a)
    BY <2>1 DEF Position
  <2>3. a \in Addr
    BY DEF Printed
  <2>. QED
    BY <2>2, <2>3 DEF NextInv
<1>3. WalkInit => WalkInv
  BY WalkInitial
<1>4. WalkInv /\ [WalkNext]_walkVars => WalkInv'
  BY WalkTypeStep, SoundStep, CompleteStep, StageStep, ResultStep DEF WalkInv
<1>. QED
  BY <1>1, <1>2, <1>3, <1>4, NextStep, PTL DEF WalkSpec
=============================================================================
