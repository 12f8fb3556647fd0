--------------------------- MODULE MCWebsocketHub ---------------------------
(***************************************************************************)
(* Instance of WebsocketHub for model checking.                            *)
(***************************************************************************)
EXTENDS WebsocketHub, TLC

CONSTANTS c1, c2

MCClients == {c1, c2}
MCOneClient == {c1}
MCSymmetry == Permutations(MCClients)
=============================================================================
