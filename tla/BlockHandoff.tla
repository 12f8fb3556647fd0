---------------------------- MODULE BlockHandoff ----------------------------
(***************************************************************************)
(* The channels between ProcessBlocks and the block handler goroutine of   *)
(* one chain monitor.  The three monitors (stakedb, blockdata, hcsqlite)   *)
(* share this protocol line by line and differ in the capacity of          *)
(* blockChan and in what they do with a block.                             *)
(*                                                                         *)
(* BlockConnectedSync may be called by any number of goroutines: it locks  *)
(* syncConnect, leaves a token in ConnectingLock, sends the block and      *)
(* waits for DoneConnecting.  BlockConnectedHandler receives a block,      *)
(* takes the token if there is one, works, and signals DoneConnecting only *)
(* if it took the token.                                                   *)
(*                                                                         *)
(* At shutdown quit is closed, the handlers leave, and then the deferred   *)
(* closeNtfnChans closes blockChan, while a caller may still be inside.    *)
(***************************************************************************)
EXTENDS Naturals, Sequences

CONSTANTS
    Callers,    \* goroutines that call BlockConnectedSync
    Hashes,     \* block hashes
    Cap,        \* capacity of blockChan: 0 for stakedb, 64 for the others
    MayQuit,    \* whether the program may be told to quit
    NoCaller,   \* not a caller: the mutex is free
    NoBlock     \* not a block: see Promise

ASSUME HandoffAssumption ==
    /\ Hashes # {}
    /\ Cap \in Nat
    /\ MayQuit \in BOOLEAN
    /\ NoCaller \notin Callers
    /\ NoBlock \notin Hashes

VARIABLES
    pc,          \* caller -> its place in BlockConnectedSync
    hash,        \* caller -> the argument of its last call
    syncConnect, \* the caller that holds the mutex
    token,       \* whether ConnectingLock, of capacity 1, is full
    blockChan,   \* the blocks sent and not received
    hpc,         \* the handler's place
    hblock,      \* the block it works on
    release,     \* whether its release function signals DoneConnecting
    quit, closed, \* whether the channels quit and blockChan are closed
    crashed      \* a send on a closed channel has panicked

callerVars == <<pc, hash, syncConnect>>
handlerVars == <<hpc, hblock, release>>
stopVars == <<quit, closed, crashed>>
vars == <<pc, hash, syncConnect, token, blockChan, hpc, hblock, release,
          quit, closed, crashed>>

Init ==
    /\ pc = [c \in Callers |-> "out"]
    /\ hash \in [Callers -> Hashes]
    /\ syncConnect = NoCaller
    /\ token = FALSE
    /\ blockChan = <<>>
    /\ hpc = "select" /\ hblock \in Hashes /\ release = FALSE
    /\ quit = FALSE /\ closed = FALSE /\ crashed = FALSE

-----------------------------------------------------------------------------
(***************************************************************************)
(* BlockConnectedSync                                                      *)
(***************************************************************************)
CallerAt(c, from, to) ==
    /\ ~crashed
    /\ pc[c] = from
    /\ pc' = [pc EXCEPT ![c] = to]

Call(c) ==
    /\ CallerAt(c, "out", "lock")
    /\ \E h \in Hashes : hash' = [hash EXCEPT ![c] = h]
    /\ UNCHANGED <<syncConnect, token, blockChan, handlerVars, stopVars>>

\* Faulty: the mutex is not taken.
LockNothing(c) ==
    /\ CallerAt(c, "lock", "token")
    /\ UNCHANGED <<syncConnect, hash, token, blockChan, handlerVars, stopVars>>

Lock(c) ==
    /\ CallerAt(c, "lock", "token")
    /\ syncConnect = NoCaller
    /\ syncConnect' = c
    /\ UNCHANGED <<hash, token, blockChan, handlerVars, stopVars>>

PutToken(c) ==
    /\ CallerAt(c, "token", "send")
    /\ ~token
    /\ token' = TRUE
    /\ UNCHANGED <<hash, syncConnect, blockChan, handlerVars, stopVars>>

\* Faulty: a send that never blocks.
SendUnbounded(c) ==
    /\ CallerAt(c, "send", "wait")
    /\ ~closed
    /\ blockChan' = Append(blockChan, hash[c])
    /\ UNCHANGED <<hash, syncConnect, token, handlerVars, stopVars>>

\* A send into the buffer.
Send(c) ==
    /\ CallerAt(c, "send", "wait")
    /\ ~closed /\ Len(blockChan) < Cap
    /\ blockChan' = Append(blockChan, hash[c])
    /\ UNCHANGED <<hash, syncConnect, token, handlerVars, stopVars>>

\* A send on the closed channel panics.
SendOnClosed(c) ==
    /\ ~crashed /\ pc[c] = "send" /\ closed
    /\ crashed' = TRUE
    /\ UNCHANGED <<callerVars, token, blockChan, handlerVars, quit, closed>>

-----------------------------------------------------------------------------
(***************************************************************************)
(* BlockConnectedHandler                                                   *)
(***************************************************************************)
HandlerAt(from, to) == ~crashed /\ hpc = from /\ hpc' = to

Receive ==
    /\ HandlerAt("select", "token")
    /\ blockChan # <<>>
    /\ hblock' = Head(blockChan) /\ blockChan' = Tail(blockChan)
    /\ UNCHANGED <<callerVars, token, release, stopVars>>

\* The send and the receive of an unbuffered channel are one step.
Rendezvous(c) ==
    /\ Cap = 0 /\ ~closed
    /\ CallerAt(c, "send", "wait")
    /\ HandlerAt("select", "token")
    /\ hblock' = hash[c]
    /\ UNCHANGED <<hash, syncConnect, token, blockChan, release, stopVars>>

\* Faulty: release is never set.
ForgetRelease ==
    /\ HandlerAt("token", "work")
    /\ token' = FALSE
    /\ UNCHANGED <<callerVars, blockChan, hblock, release, stopVars>>

\* The receive that does not block, and the choice of release.
TakeToken ==
    /\ HandlerAt("token", "work")
    /\ release' = token
    /\ token' = FALSE
    /\ UNCHANGED <<callerVars, blockChan, hblock, stopVars>>

\* What the monitor does with the block: see ChainFollow.
Work ==
    /\ HandlerAt("work", "release")
    /\ UNCHANGED <<callerVars, token, blockChan, hblock, release, stopVars>>

\* release() signals DoneConnecting if the token was taken: the caller that waits
\* returns and unlocks.
Release ==
    /\ IF release
         THEN /\ \E c \in Callers : CallerAt(c, "wait", "out")
              /\ syncConnect' = NoCaller
         ELSE UNCHANGED <<pc, syncConnect>>
    /\ HandlerAt("release", "select")
    /\ release' = FALSE
    /\ UNCHANGED <<hash, token, blockChan, hblock, stopVars>>

-----------------------------------------------------------------------------
(***************************************************************************)
(* Shutdown                                                                *)
(***************************************************************************)
Quit ==
    /\ MayQuit /\ ~crashed /\ ~quit
    /\ quit' = TRUE
    /\ UNCHANGED <<callerVars, token, blockChan, handlerVars, closed, crashed>>

HandlerQuits ==
    /\ HandlerAt("select", "gone")
    /\ quit
    /\ UNCHANGED <<callerVars, token, blockChan, hblock, release, stopVars>>

\* main has waited for the handlers; its deferred closeNtfnChans runs.
CloseNtfnChans ==
    /\ ~crashed /\ hpc = "gone" /\ ~closed
    /\ closed' = TRUE
    /\ UNCHANGED <<callerVars, token, blockChan, handlerVars, quit, crashed>>

-----------------------------------------------------------------------------
Handler == Receive \/ TakeToken \/ Work \/ Release \/ HandlerQuits
                   \/ \E c \in Callers : Rendezvous(c)

Next ==
    \/ \E c \in Callers : Call(c) \/ Lock(c) \/ PutToken(c) \/ Send(c)
                            \/ SendOnClosed(c) \/ Rendezvous(c)
    \/ Receive \/ TakeToken \/ Work \/ Release
    \/ Quit \/ HandlerQuits \/ CloseNtfnChans

Spec == Init /\ [][Next]_vars

\* A Go mutex hands itself to a waiter that has starved (sync.Mutex), hence SF;
\* the other steps are those of running goroutines.
Fairness ==
    /\ \A c \in Callers : SF_vars(Lock(c)) /\ WF_vars(PutToken(c)) /\ WF_vars(Send(c))
    /\ WF_vars(Handler)

FairSpec == Spec /\ Fairness

-----------------------------------------------------------------------------
(***************************************************************************)
(* Properties.                                                             *)
(***************************************************************************)
Inside == {"token", "send", "wait"}

\* Every variable has its type and the buffer its capacity.
TypeOK ==
    /\ pc \in [Callers -> {"out", "lock"} \union Inside]
    /\ hash \in [Callers -> Hashes]
    /\ syncConnect \in Callers \union {NoCaller}
    /\ token \in BOOLEAN
    /\ blockChan \in Seq(Hashes) /\ Len(blockChan) <= Cap
    /\ hpc \in {"select", "token", "work", "release", "gone"}
    /\ hblock \in Hashes /\ release \in BOOLEAN
    /\ quit \in BOOLEAN /\ closed \in BOOLEAN /\ crashed \in BOOLEAN

\* "Connections go one at a time so signals cannot be mixed": while the handler
\* works on a block and until it signals, one caller waits and it waits for that
\* very block, and the signal will be given.
SignalsNotMixed ==
    hpc \in {"work", "release"} =>
        /\ release
        /\ \E c \in Callers :
              /\ pc[c] = "wait" /\ hash[c] = hblock
              /\ \A d \in Callers : pc[d] = "wait" => d = c

\* Where a block and the token can be, for the caller c that holds the mutex.
Stage(c) ==
    \/ /\ pc[c] = "token" /\ ~token /\ blockChan = <<>>
       /\ hpc \in {"select", "gone"}
    \/ /\ pc[c] = "send" /\ token /\ blockChan = <<>>
       /\ hpc \in {"select", "gone"}
    \/ /\ pc[c] = "wait" /\ token /\ blockChan = <<hash[c]>>
       /\ hpc \in {"select", "gone"}
    \/ /\ pc[c] = "wait" /\ token /\ blockChan = <<>>
       /\ hpc = "token" /\ hblock = hash[c]
    \/ /\ pc[c] = "wait" /\ ~token /\ blockChan = <<>>
       /\ hpc \in {"work", "release"} /\ hblock = hash[c] /\ release

\* The inductive invariant: the mutex admits one caller, and the token, the
\* channel and the handler are where its stage says; without a caller inside
\* they are at rest.
HandoffInv ==
    /\ \A c \in Callers : pc[c] \in Inside <=> syncConnect = c
    /\ syncConnect \in Callers => Stage(syncConnect)
    /\ syncConnect = NoCaller =>
          ~token /\ blockChan = <<>> /\ hpc \in {"select", "gone"}

\* How the protocol appears to the callers: a block has been handled when the
\* handler is about to signal.
Phase == [c \in Callers |->
            IF pc[c] = "out" THEN "out"
            ELSE IF pc[c] = "wait" /\ hpc = "release" THEN "handled"
            ELSE "called"]
Done == IF hpc = "release" THEN hblock ELSE NoBlock
Promise == INSTANCE SyncCall WITH phase <- Phase, block <- hash, done <- Done

\* The protocol keeps the promise of BlockConnectedSync.
KeepsPromise == Promise!Spec

\* Every call returns, unless the program is told to quit.
CallsReturn == \A c \in Callers : pc[c] = "lock" ~> (pc[c] = "out" \/ quit)
=============================================================================
