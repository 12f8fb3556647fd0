--------------------------- MODULE MCBlockHandoff ---------------------------
(***************************************************************************)
(* Instance of BlockHandoff for model checking.                            *)
(***************************************************************************)
EXTENDS BlockHandoff

CONSTANTS c1, c2, c3, h1, h2

MCCallers == {c1, c2, c3}
MCTwoCallers == {c1, c2}
MCHashes == {h1, h2}
=============================================================================
