----------------------------- MODULE BlockTree -----------------------------
(***************************************************************************)
(* Blocks and their ancestors.                                             *)
(*                                                                         *)
(* A block is the sequence of choices that leads to it from the genesis    *)
(* block <<>>: a block hash commits to all of the block's ancestors, so    *)
(* equal blocks have equal ancestors, Len is the height and the prefixes   *)
(* are the ancestors.                                                      *)
(***************************************************************************)
EXTENDS Naturals, Sequences

CONSTANT Blocks    \* the block tree: every block the node may come to know

ASSUME BlocksAssumption ==
    /\ Blocks \subseteq Seq(Nat)
    /\ \A b \in Blocks : \A k \in 0..Len(b) : SubSeq(b, 1, k) \in Blocks

Height(b) == Len(b)
Ancestor(b, h) == SubSeq(b, 1, h)
Parent(b) == Ancestor(b, Height(b) - 1)
AncestorsOf(b) == {Ancestor(b, h) : h \in 0..Height(b)}
Heights == {Height(b) : b \in Blocks}

\* b is a block on top of a.
IsChild(b, a) == b # <<>> /\ Parent(b) = a

\* k is the height of the last block that a and b have in common.
ForkAt(a, b, k) ==
    /\ k < Height(a) /\ k < Height(b)
    /\ Ancestor(a, k) = Ancestor(b, k)
    /\ Ancestor(a, k + 1) # Ancestor(b, k + 1)
=============================================================================
