-------------------------------- MODULE Walk --------------------------------
(***************************************************************************)
(* How the example program prints its listing: it collects the labels that   *)
(* instructions refer to, finds the entry block and walks the control flow   *)
(* from there with a stack of addresses (main in Example/main.cpp, from      *)
(* "Disassemble nodes" on). A block is its address, the real PC of its first *)
(* instruction; the graph is whatever the analysis made of the save files    *)
(* (Analysis.tla), so every graph is allowed here.                          *)
(***************************************************************************)
EXTENDS Integers, Sequences, FiniteSets, SequencesExt

CONSTANTS
  Addr,  \* real PCs that blocks and edges have
  None   \* std::nullopt

ASSUME WalkAssumption == None \notin Addr /\ IsFiniteSet(Addr)

VARIABLES
  block_map,     \* addresses with a block
  successors,    \* destinations of the edges from each block's last instruction
  falls,         \* edges between blocks: the second starts where the first ends
  fref,          \* blocks with such an edge whose last instruction names its target
  entry_address, \* the entry block, or None
  references_labels, \* labels some instruction refers to
  stage,         \* "disassemble", then "walk", then "done"
  addr_stack, visited,
  result         \* the listing: labels and nodes

graph == <<block_map, successors, falls, fref, entry_address>>
walkVars == <<graph, references_labels, stage, addr_stack, visited, result>>

Label(a) == <<"label", a>>
Node(a) == <<"node", a>>

WalkInit ==
  /\ block_map \in SUBSET Addr
  /\ successors \in [Addr -> SUBSET Addr]
  /\ \A a \in Addr \ block_map : successors[a] = {}
  /\ falls \in SUBSET {p \in block_map \X block_map : p[2] \in successors[p[1]] \ {p[1]}}
  /\ fref \in SUBSET {a \in block_map : \E d \in block_map : <<a, d>> \in falls}
  /\ entry_address \in block_map \cup {None}
  /\ references_labels = {}
  /\ stage = "disassemble"
  /\ addr_stack = <<>>
  /\ visited = {}
  /\ result = <<>>

(* The labels in the text of block a: every successor that is a block, but  *)
(* not the one it falls into if its last instruction names its target.      *)
Refers(a) == {d \in successors[a] \cap block_map : ~(<<a, d>> \in falls /\ a \in fref)}

(* Mutants, one plausible bug each: labels only for named targets, a     *)
(* stack that is not popped, one successor pushed, the block that follows    *)
(* pushed below the others.                                                *)
LabelledIfNamed(a) == Refers(a) \cap (IF a \in fref THEN block_map ELSE {})
RestStill == addr_stack
PushedOne(a) == {<<d>> : d \in successors[a]} \cup (IF successors[a] = {} THEN {<<>>} ELSE {})
PushedBelow(s, next) == next \o s

(* Every node is disassembled and its labels are collected; then the walk    *)
(* starts at the entry, if there is one.                                   *)
Labelled(a) == Refers(a)
Disassemble ==
  /\ stage = "disassemble"
  /\ references_labels' = UNION {Labelled(a) : a \in block_map}
  /\ stage' = IF entry_address = None THEN "done" ELSE "walk"
  /\ addr_stack' = IF entry_address = None THEN <<>> ELSE <<entry_address>>
  /\ UNCHANGED <<graph, visited, result>>

Top == addr_stack[Len(addr_stack)]
Rest == SubSeq(addr_stack, 1, Len(addr_stack) - 1)
Remembered(a) == visited \cup {a}

(* The loop's condition, after every pass. *)
Continue == stage' = IF addr_stack' = <<>> THEN "done" ELSE "walk"

(* An address seen before is dropped. *)
Skip ==
  /\ stage = "walk" /\ Top \in visited
  /\ addr_stack' = Rest
  /\ Continue
  /\ UNCHANGED <<graph, references_labels, visited, result>>

(* An address without a block is remembered, and nothing else. *)
Miss ==
  /\ stage = "walk" /\ Top \notin visited \cup block_map
  /\ visited' = Remembered(Top)
  /\ addr_stack' = Rest
  /\ Continue
  /\ UNCHANGED <<graph, references_labels, result>>

(* The successors go on the stack in the order of a hash set. *)
Pushed(a) == SetToSeqs(successors[a])

(* ... and the first one the block falls into, if any, once more on top.     *)
Next(a, dests) ==
  LET into == {n \in DOMAIN dests : <<a, dests[n]>> \in falls}
  IN IF into = {} THEN {<<>>}
     ELSE {<<dests[n]>> : n \in {m \in into : \A k \in into : m <= k}}
OnTop(s, next) == s \o next

Emit ==
  /\ stage = "walk" /\ Top \notin visited /\ Top \in block_map
  /\ visited' = Remembered(Top)
  /\ \E dests \in Pushed(Top) : \E next \in Next(Top, dests) :
       addr_stack' = Rest \o OnTop(dests, next)
  /\ result' = result \o (IF Top \in references_labels THEN <<Label(Top)>> ELSE <<>>)
                      \o <<Node(Top)>>
  /\ Continue
  /\ UNCHANGED <<graph, references_labels>>

WalkNext == Disassemble \/ Skip \/ Miss \/ Emit

(* One thread that keeps running. *)
WalkSpec == WalkInit /\ [][WalkNext]_walkVars /\ WF_walkVars(WalkNext)

-----------------------------------------------------------------------------
Printed == {a \in Addr : Node(a) \in Range(result)}
Position(x) == CHOOSE n \in DOMAIN result : result[n] = x

(* Type invariant. *)
WalkTypeOK ==
  /\ block_map \subseteq Addr
  /\ successors \in [Addr -> SUBSET Addr]
  /\ falls \subseteq block_map \X block_map
  /\ fref \subseteq block_map
  /\ entry_address \in block_map \cup {None}
  /\ references_labels \subseteq block_map
  /\ stage \in {"disassemble", "walk", "done"}
  /\ addr_stack \in Seq(Addr)
  /\ visited \subseteq Addr
  /\ result \in Seq({"label", "node"} \X Addr)
  /\ stage = "walk" => addr_stack # <<>>

(* A set of addresses the walk cannot leave. *)
Closed(S) == \A a \in S \cap block_map : successors[a] \subseteq S

(* The listing is exactly what can be reached from the entry: at the end it  *)
(* has every block of some closed set that holds the entry, and at no time a *)
(* block that some closed set with the entry lacks. Every block is once.     *)
ListsReachable ==
  /\ stage = "done" /\ entry_address # None =>
       entry_address \in visited /\ Closed(visited) /\ Printed = visited \cap block_map
  /\ \A S \in SUBSET Addr : Closed(S) /\ entry_address \in S => visited \subseteq S
  /\ \A m, n \in DOMAIN result : result[m] = result[n] => m = n

(* Every label the text of a printed block refers to is defined in the       *)
(* listing, right before the block it names.                               *)
LabelsDefined ==
  /\ stage = "done" =>
       \A a \in Printed : \A d \in Refers(a) : Label(d) \in Range(result)
  /\ \A n \in DOMAIN result : result[n][1] = "label" =>
       n < Len(result) /\ result[n + 1] = Node(result[n][2])

(* main.cpp:560: the block a block falls into is printed right after it, if  *)
(* there is one such block and it was not printed before.                   *)
NextIsNext ==
  \A a \in Printed :
    LET into == {d \in successors[a] : <<a, d>> \in falls}
        n == Position(Node(a))
    IN \A d \in into :
         into = {d} /\ (\A m \in 1 .. n : result[m] # Node(d)) =>
           IF n = Len(result) THEN addr_stack # <<>> /\ Top = d
           ELSE result[n + 1] \in {Node(d), Label(d)}

(* The walk ends, cycles or not. *)
WalkFinishes == <>(stage = "done")
=============================================================================
