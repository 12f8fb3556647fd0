---------------------------- MODULE TipFollower ----------------------------
(***************************************************************************)
(* What following a node's best chain means, for any one store: tips is    *)
(* the sequence of best blocks the node has had, view the block the store  *)
(* takes for the best one.  The store moves from one of the node's best    *)
(* blocks to the next and shows nothing in between: no block of a side     *)
(* chain that is being attached, no mixture of two chains.                 *)
(***************************************************************************)
EXTENDS Naturals, Sequences

CONSTANT Blocks
VARIABLES tips, view

Init == \E b \in Blocks : tips = <<b>> /\ view = b

\* The node has a new best block.
Move(b) == tips' = Append(tips, b) /\ UNCHANGED view

\* The store takes the step that the node took from its i-th best block.
Follow(i) ==
    /\ view = tips[i]
    /\ view' = tips[i + 1]
    /\ UNCHANGED tips

Next ==
    \/ \E b \in Blocks : Move(b)
    \/ \E i \in 1..(Len(tips) - 1) : Follow(i)

Spec == Init /\ [][Next]_<<tips, view>>

\* For a node whose best block changes finitely often.
CatchesUp == <>[](view = tips[Len(tips)])
=============================================================================
