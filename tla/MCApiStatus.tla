---------------------------- MODULE MCApiStatus ----------------------------
(***************************************************************************)
(* Instance of ApiStatus for model checking.                               *)
(***************************************************************************)
EXTENDS ApiStatus
=============================================================================
