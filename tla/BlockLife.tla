----------------------------- MODULE BlockLife -----------------------------
(***************************************************************************)
(* What the block store promises: a translated block is live until later   *)
(* translations displace it, is then retired, and is saved exactly once,   *)
(* never while the emulator can still run it. Translation implements this. *)
(***************************************************************************)
CONSTANT Block

VARIABLES
  live,     \* newest translation of its address
  retired,  \* displaced, not saved yet
  saved,    \* in the save file
  usable    \* the emulator can run it or is running it

lifeVars == <<live, retired, saved, usable>>

Init == live = {} /\ retired = {} /\ saved = {} /\ usable = {}

(* b is born; at most two live blocks are retired by it. *)
Translate(b, x, y) ==
  /\ b \notin live \cup retired \cup saved
  /\ live' = (live \ {x, y}) \cup {b}
  /\ retired' = retired \cup (live \cap {x, y})
  /\ usable' \in {usable, usable \cup {b}}
  /\ UNCHANGED saved

(* The emulator stops using some blocks, for good. *)
StopUsing ==
  /\ usable' \subseteq usable
  /\ UNCHANGED <<live, retired, saved>>

(* All retired blocks are saved, when nothing is in use any more. *)
SaveRetired ==
  /\ saved' = saved \cup retired
  /\ retired' = {}
  /\ usable' = {}
  /\ UNCHANGED live

(* The end: everything is saved. *)
SaveAll ==
  /\ saved' = saved \cup retired \cup live
  /\ live' = {} /\ retired' = {} /\ usable' = {}

Next == \/ \E b, x, y \in Block : Translate(b, x, y)
        \/ StopUsing \/ SaveRetired \/ SaveAll

Spec == Init /\ [][Next]_lifeVars
=============================================================================
