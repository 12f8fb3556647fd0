--------------------------- MODULE MCChainFollow ---------------------------
(***************************************************************************)
(* Instance of ChainFollow for model checking: a tree of nine blocks with  *)
(* forks at heights 0 and 1, so that a reorganization can attach one, two  *)
(* or three blocks, to the same height or to a greater one, and a second   *)
(* one can return to the first chain.                                      *)
(***************************************************************************)
EXTENDS ChainFollow

MCBlocks == {<<>>, <<1>>, <<1, 1>>, <<1, 1, 1>>, <<1, 2>>, <<1, 2, 1>>,
             <<2>>, <<2, 1>>, <<2, 1, 1>>}
MCStartBlocks == {<<>>, <<1, 1>>}

\* Two branches of length two, for the runs in which the node does what it
\* likes: three changes of the best block are two reorganizations after a block.
MCTwoBranches == {<<>>, <<1>>, <<1, 1>>, <<2>>, <<2, 1>>}
MCGenesisOnly == {<<>>}
=============================================================================
