----------------------------- MODULE SyncCall -----------------------------
(***************************************************************************)
(* What BlockConnectedSync promises: a call hands one block to the handler *)
(* and returns after the handler is done with that block.  Between the     *)
(* handling of a block and the return of its call no other block is        *)
(* handled, so that no call returns on the strength of another one's.      *)
(***************************************************************************)
CONSTANTS Callers, Hashes, NoBlock
VARIABLES phase,    \* caller -> "out", "called", or "handled"
          block,    \* caller -> the block of its last call
          done      \* the block that was handled and whose call has not returned

Init ==
    /\ phase = [c \in Callers |-> "out"]
    /\ block \in [Callers -> Hashes]
    /\ done = NoBlock

Call(c) ==
    /\ phase[c] = "out"
    /\ phase' = [phase EXCEPT ![c] = "called"]
    /\ \E h \in Hashes : block' = [block EXCEPT ![c] = h]
    /\ UNCHANGED done

\* The handler is done with the block with which c has called.
Handle(c) ==
    /\ phase[c] = "called" /\ done = NoBlock
    /\ phase' = [phase EXCEPT ![c] = "handled"]
    /\ done' = block[c]
    /\ UNCHANGED block

Return(c) ==
    /\ phase[c] = "handled"
    /\ phase' = [phase EXCEPT ![c] = "out"]
    /\ done' = NoBlock
    /\ UNCHANGED block

Next == \E c \in Callers : Call(c) \/ Handle(c) \/ Return(c)

Spec == Init /\ [][Next]_<<phase, block, done>>
=============================================================================
