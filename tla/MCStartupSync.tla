--------------------------- MODULE MCStartupSync ---------------------------
(***************************************************************************)
(* Instance of StartupSync for model checking.                             *)
(***************************************************************************)
EXTENDS StartupSync

\* One chain, long enough for a stake database to be more than twice as high as
\* a table.
MCChain == {<<>>, <<1>>, <<1, 1>>, <<1, 1, 1>>, <<1, 1, 1, 1>>}

\* Two branches that leave the genesis block's child.
MCFork == {<<>>, <<1>>, <<1, 1>>, <<1, 1, 1>>, <<1, 1, 1, 1>>, <<1, 2>>, <<1, 2, 1>>,
           <<1, 2, 1, 1>>}

MCStart == {<<>>, <<1, 1>>}
=============================================================================
