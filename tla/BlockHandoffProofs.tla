------------------------- MODULE BlockHandoffProofs -------------------------
(***************************************************************************)
(* Proofs about BlockHandoff, for any set of callers, any blocks and any   *)
(* capacity of the block channel.                                          *)
(***************************************************************************)
EXTENDS BlockHandoff, TLAPS

\* The variables that BlockConnectedSync, the handler and the shutdown write
\* keep their types in every step.
THEOREM TypeCorrect == Spec => []TypeOK
<1>1. Init => TypeOK
  <2>1. <<>> \in Seq(Hashes) /\ Len(<<>>) = 0 /\ 0 <= Cap
    BY HandoffAssumption
  <2>2. QED
    BY <2>1 DEF Init, TypeOK, Inside
<1>2. TypeOK /\ [Next]_vars => TypeOK'
  <2> SUFFICES ASSUME TypeOK, [Next]_vars PROVE TypeOK'
    OBVIOUS
  <2> USE DEF TypeOK, Inside, CallerAt, HandlerAt, callerVars, handlerVars, stopVars
  <2>1. ASSUME NEW c \in Callers, Call(c) PROVE TypeOK'
    BY <2>1 DEF Call
  <2>2. ASSUME NEW c \in Callers, Lock(c) PROVE TypeOK'
    BY <2>2 DEF Lock
  <2>3. ASSUME NEW c \in Callers, PutToken(c) PROVE TypeOK'
    BY <2>3 DEF PutToken
  <2>4. ASSUME NEW c \in Callers, Send(c) PROVE TypeOK'
    <3>1. blockChan' \in Seq(Hashes) /\ Len(blockChan') = Len(blockChan) + 1
      BY <2>4 DEF Send
    <3>2. Len(blockChan') <= Cap
      BY <2>4, <3>1, HandoffAssumption DEF Send
    <3>3. QED
      BY <2>4, <3>1, <3>2 DEF Send
  <2>5. ASSUME NEW c \in Callers, SendOnClosed(c) PROVE TypeOK'
    BY <2>5 DEF SendOnClosed
  <2>6. ASSUME NEW c \in Callers, Rendezvous(c) PROVE TypeOK'
    BY <2>6 DEF Rendezvous
  <2>7. ASSUME Receive PROVE TypeOK'
    <3>1. /\ Head(blockChan) \in Hashes
          /\ Tail(blockChan) \in Seq(Hashes)
          /\ Len(Tail(blockChan)) <= Cap
      BY <2>7, HandoffAssumption DEF Receive
    <3>2. QED
      BY <2>7, <3>1 DEF Receive
  <2>8. ASSUME TakeToken PROVE TypeOK'
    BY <2>8 DEF TakeToken
  <2>9. ASSUME Work PROVE TypeOK'
    BY <2>9 DEF Work
  <2>10. ASSUME Release PROVE TypeOK'
    BY <2>10 DEF Release
  <2>11. ASSUME Quit PROVE TypeOK'
    BY <2>11 DEF Quit
  <2>12. ASSUME HandlerQuits PROVE TypeOK'
    BY <2>12 DEF HandlerQuits
  <2>13. ASSUME CloseNtfnChans PROVE TypeOK'
    BY <2>13 DEF CloseNtfnChans
  <2>14. CASE UNCHANGED vars
    BY <2>14 DEF vars
  <2>15. QED
    BY <2>1, <2>2, <2>3, <2>4, <2>5, <2>6, <2>7, <2>8, <2>9, <2>10, <2>11,
       <2>12, <2>13, <2>14 DEF Next
<1>3. QED
  BY <1>1, <1>2, PTL DEF Spec

-----------------------------------------------------------------------------
\* A caller that is inside BlockConnectedSync holds the mutex, so that a step of
\* another one inside is impossible.
LEMMA OneInside ==
    ASSUME TypeOK, HandoffInv, NEW c \in Callers, pc[c] \in Inside
    PROVE  /\ syncConnect = c /\ Stage(c)
           /\ \A d \in Callers \ {c} : pc[d] \notin Inside
BY DEF HandoffInv, TypeOK

\* The inductive invariant holds of the protocol.
THEOREM HandoffCorrect == Spec => []HandoffInv
<1>1. Init => HandoffInv
  BY HandoffAssumption DEF Init, HandoffInv, Inside
<1>2. TypeOK /\ HandoffInv /\ [Next]_vars => HandoffInv'
  <2> SUFFICES ASSUME TypeOK, HandoffInv, [Next]_vars PROVE HandoffInv'
    OBVIOUS
  <2> USE HandoffAssumption
          DEF CallerAt, HandlerAt, callerVars, handlerVars, stopVars
  <2>1. ASSUME NEW c \in Callers, Call(c) PROVE HandoffInv'
    <3>1. syncConnect # c /\ (\A d \in Callers : pc'[d] \in Inside <=> pc[d] \in Inside)
      BY <2>1 DEF Call, HandoffInv, Inside, TypeOK
    <3>2. syncConnect \in Callers => Stage(syncConnect)'
      BY <2>1, <3>1 DEF Call, HandoffInv, Stage, TypeOK
    <3>3. QED
      BY <2>1, <3>1, <3>2 DEF Call, HandoffInv
  <2>2. ASSUME NEW c \in Callers, Lock(c) PROVE HandoffInv'
    <3>1. Stage(c)'
      BY <2>2 DEF Lock, HandoffInv, Stage, TypeOK
    <3>2. QED
      BY <2>2, <3>1 DEF Lock, HandoffInv, Inside, TypeOK
  <2>3. ASSUME NEW c \in Callers, PutToken(c) PROVE HandoffInv'
    <3>1. syncConnect = c /\ Stage(c)
      BY <2>3, OneInside DEF PutToken, Inside
    <3>2. Stage(c)'
      BY <2>3, <3>1 DEF PutToken, Stage, TypeOK
    <3>3. QED
      BY <2>3, <3>1, <3>2 DEF PutToken, HandoffInv, Inside, TypeOK
  <2>4. ASSUME NEW c \in Callers, Send(c) PROVE HandoffInv'
    <3>1. syncConnect = c /\ Stage(c)
      BY <2>4, OneInside DEF Send, Inside
    <3>2. Stage(c)'
      BY <2>4, <3>1 DEF Send, Stage, TypeOK
    <3>3. QED
      BY <2>4, <3>1, <3>2 DEF Send, HandoffInv, Inside, TypeOK
  <2>5. ASSUME NEW c \in Callers, SendOnClosed(c) PROVE HandoffInv'
    BY <2>5 DEF SendOnClosed, HandoffInv, Stage
  <2>6. ASSUME NEW c \in Callers, Rendezvous(c) PROVE HandoffInv'
    <3>1. syncConnect = c /\ Stage(c)
      BY <2>6, OneInside DEF Rendezvous, Inside
    <3>2. Stage(c)'
      BY <2>6, <3>1 DEF Rendezvous, Stage, TypeOK
    <3>3. QED
      BY <2>6, <3>1, <3>2 DEF Rendezvous, HandoffInv, Inside, TypeOK
  <2>7. ASSUME Receive PROVE HandoffInv'
    <3>1. syncConnect \in Callers /\ Stage(syncConnect)
      BY <2>7 DEF Receive, HandoffInv, TypeOK
    <3>2. Stage(syncConnect)'
      <4>1. /\ pc[syncConnect] = "wait" /\ token /\ blockChan = <<hash[syncConnect]>>
            /\ hpc' = "token" /\ hblock' = Head(blockChan) /\ blockChan' = Tail(blockChan)
            /\ UNCHANGED <<callerVars, token>>
        BY <2>7, <3>1 DEF Receive, Stage
      <4>2. Head(blockChan) = hash[syncConnect] /\ Tail(blockChan) = <<>>
        BY <4>1
      <4>3. QED
        BY <4>1, <4>2 DEF Stage
    <3>3. QED
      BY <2>7, <3>1, <3>2 DEF Receive, HandoffInv
  <2>8. ASSUME TakeToken PROVE HandoffInv'
    <3>1. syncConnect \in Callers /\ Stage(syncConnect)
      BY <2>8 DEF TakeToken, HandoffInv, TypeOK
    <3>2. Stage(syncConnect)'
      BY <2>8, <3>1 DEF TakeToken, Stage
    <3>3. QED
      BY <2>8, <3>1, <3>2 DEF TakeToken, HandoffInv
  <2>9. ASSUME Work PROVE HandoffInv'
    <3>1. syncConnect \in Callers /\ Stage(syncConnect)
      BY <2>9 DEF Work, HandoffInv, TypeOK
    <3>2. Stage(syncConnect)'
      BY <2>9, <3>1 DEF Work, Stage
    <3>3. QED
      BY <2>9, <3>1, <3>2 DEF Work, HandoffInv
  <2>10. ASSUME Release PROVE HandoffInv'
    <3>1. syncConnect \in Callers /\ Stage(syncConnect)
      BY <2>10 DEF Release, HandoffInv, TypeOK
    <3>2. release /\ ~token /\ blockChan = <<>>
      BY <2>10, <3>1 DEF Release, Stage
    <3>3. PICK c \in Callers : CallerAt(c, "wait", "out")
      BY <2>10, <3>2 DEF Release
    <3>4. syncConnect = c /\ \A d \in Callers \ {c} : pc[d] \notin Inside
      BY <3>3, OneInside DEF Inside
    <3>5. \A d \in Callers : pc'[d] \notin Inside
      BY <3>3, <3>4 DEF Inside, TypeOK
    <3>6. QED
      BY <2>10, <3>2, <3>5 DEF Release, HandoffInv
  <2>11. ASSUME Quit PROVE HandoffInv'
    BY <2>11 DEF Quit, HandoffInv, Stage
  <2>12. ASSUME HandlerQuits PROVE HandoffInv'
    BY <2>12 DEF HandlerQuits, HandoffInv, Stage
  <2>13. ASSUME CloseNtfnChans PROVE HandoffInv'
    BY <2>13 DEF CloseNtfnChans, HandoffInv, Stage
  <2>14. CASE UNCHANGED vars
    BY <2>14 DEF vars, HandoffInv, Stage
  <2>15. QED
    BY <2>1, <2>2, <2>3, <2>4, <2>5, <2>6, <2>7, <2>8, <2>9, <2>10, <2>11,
       <2>12, <2>13, <2>14 DEF Next
<1>3. QED
  BY <1>1, <1>2, TypeCorrect, PTL DEF Spec

\* While the handler works on a block exactly one caller waits, and for that
\* block: "Connections go one at a time so signals cannot be mixed".
THEOREM NoMixedSignals == Spec => []SignalsNotMixed
<1>1. TypeOK /\ HandoffInv => SignalsNotMixed
  <2> SUFFICES ASSUME TypeOK, HandoffInv, hpc \in {"work", "release"}
               PROVE  /\ release
                      /\ \E c \in Callers :
                            /\ pc[c] = "wait" /\ hash[c] = hblock
                            /\ \A d \in Callers : pc[d] = "wait" => d = c
    BY DEF SignalsNotMixed
  <2>1. syncConnect \in Callers /\ Stage(syncConnect)
    BY DEF HandoffInv, TypeOK
  <2>2. release /\ pc[syncConnect] = "wait" /\ hash[syncConnect] = hblock
    BY <2>1 DEF Stage
  <2>3. \A d \in Callers : pc[d] = "wait" => d = syncConnect
    BY DEF HandoffInv, Inside
  <2>4. QED
    BY <2>1, <2>2, <2>3
<1>2. QED
  BY <1>1, TypeCorrect, HandoffCorrect, PTL

-----------------------------------------------------------------------------
\* The channels of a chain monitor do what BlockConnectedSync promises: a call
\* returns after the handler is done with its block, and only then.
THEOREM PromiseKept == Spec => KeepsPromise
<1>1. Init => Promise!Init
  BY DEF Init, Promise!Init, Phase, Done
<1>2. /\ TypeOK /\ HandoffInv /\ SignalsNotMixed
      /\ [Next]_vars
      => [Promise!Next]_<<Phase, hash, Done>>
  <2> SUFFICES ASSUME TypeOK, HandoffInv, SignalsNotMixed, [Next]_vars,
                      ~UNCHANGED <<Phase, hash, Done>>
               PROVE  Promise!Next
    OBVIOUS
  <2> USE DEF CallerAt, HandlerAt, callerVars, handlerVars, stopVars
  <2>1. ASSUME NEW c \in Callers, Call(c) PROVE Promise!Call(c)
    <3>1. Phase[c] = "out" /\ Phase' = [Phase EXCEPT ![c] = "called"]
      BY <2>1 DEF Call, Phase, TypeOK
    <3>2. QED
      BY <2>1, <3>1 DEF Call, Done, Promise!Call
  <2>2. ASSUME NEW c \in Callers, Lock(c) PROVE FALSE
    BY <2>2 DEF Lock, Phase, Done, TypeOK
  <2>3. ASSUME NEW c \in Callers, PutToken(c) PROVE FALSE
    BY <2>3 DEF PutToken, Phase, Done, TypeOK
  <2>4. ASSUME NEW c \in Callers, Send(c) PROVE FALSE
    <3>1. hpc # "release"
      BY <2>4, OneInside DEF Send, Inside, Stage
    <3>2. QED
      BY <2>4, <3>1 DEF Send, Phase, Done, TypeOK
  <2>5. ASSUME NEW c \in Callers, Rendezvous(c) PROVE FALSE
    BY <2>5 DEF Rendezvous, Phase, Done, TypeOK
  <2>6. ASSUME Receive \/ TakeToken \/ HandlerQuits PROVE FALSE
    BY <2>6 DEF Receive, TakeToken, HandlerQuits, Phase, Done
  <2>7. ASSUME Work PROVE Promise!Next
    <3>1. PICK c \in Callers :
            /\ pc[c] = "wait" /\ hash[c] = hblock
            /\ \A d \in Callers : pc[d] = "wait" => d = c
      BY <2>7 DEF Work, SignalsNotMixed
    <3>2. Phase[c] = "called" /\ Phase' = [Phase EXCEPT ![c] = "handled"]
      BY <2>7, <3>1 DEF Work, Phase
    <3>3. Done = NoBlock /\ Done' = hash[c] /\ hash' = hash
      BY <2>7, <3>1 DEF Work, Done
    <3>4. Promise!Handle(c)
      BY <3>2, <3>3 DEF Promise!Handle
    <3>5. QED
      BY <3>4 DEF Promise!Next
  <2>8. ASSUME Release PROVE Promise!Next
    <3>1. hpc = "release" /\ hpc' = "select" /\ hash' = hash
      BY <2>8 DEF Release
    <3>2. release
      BY <3>1 DEF SignalsNotMixed
    <3>3. PICK c \in Callers : pc[c] = "wait" /\ pc' = [pc EXCEPT ![c] = "out"]
      BY <2>8, <3>2 DEF Release
    <3>4. \A d \in Callers \ {c} : pc[d] # "wait"
      BY <3>1, <3>3 DEF SignalsNotMixed
    <3>5. Phase[c] = "handled" /\ Phase' = [Phase EXCEPT ![c] = "out"]
      BY <3>1, <3>3, <3>4 DEF Phase, TypeOK
    <3>6. Promise!Return(c)
      BY <3>1, <3>5 DEF Promise!Return, Done
    <3>7. QED
      BY <3>6 DEF Promise!Next
  <2>9. ASSUME NEW c \in Callers, SendOnClosed(c) PROVE FALSE
    BY <2>9 DEF SendOnClosed, Phase, Done
  <2>10. ASSUME Quit \/ CloseNtfnChans PROVE FALSE
    BY <2>10 DEF Quit, CloseNtfnChans, Phase, Done
  <2>11. CASE UNCHANGED vars
    BY <2>11 DEF vars, Phase, Done
  <2>12. QED
    BY <2>1, <2>2, <2>3, <2>4, <2>5, <2>6, <2>7, <2>8, <2>9, <2>10, <2>11
       DEF Next, Promise!Next
<1>3. QED
  BY <1>1, <1>2, TypeCorrect, HandoffCorrect, NoMixedSignals, PTL
     DEF Spec, KeepsPromise, Promise!Spec

-----------------------------------------------------------------------------
(***************************************************************************)
(* What CallsReturn says, as far as it is safety: a call under way is      *)
(* never stuck, and comes closer to its return with every step that is     *)
(* not one of the shutdown or another caller's.                            *)
(***************************************************************************)

\* How many steps the call under way needs at most, those of the handler among them.
StepsLeft ==
    IF syncConnect = NoCaller THEN 0
    ELSE IF pc[syncConnect] = "token" THEN 6
    ELSE IF pc[syncConnect] = "send" THEN 5
    ELSE IF hpc = "token" THEN 3
    ELSE IF hpc = "work" THEN 2
    ELSE IF hpc = "release" THEN 1
    ELSE 4

\* Until the program is told to quit, the caller inside BlockConnectedSync can put its
\* token, or can send, or waits for a handler that can go on and will signal.
CanProceed ==
    ~quit /\ syncConnect # NoCaller =>
        /\ ~crashed
        /\ \/ pc[syncConnect] = "token" /\ ~token
           \/ /\ pc[syncConnect] = "send" /\ ~closed
              /\ IF Cap = 0 THEN hpc = "select" ELSE Len(blockChan) < Cap
           \/ /\ pc[syncConnect] = "wait"
              /\ \/ hpc = "select" /\ blockChan # <<>>
                 \/ hpc \in {"token", "work"}
                 \/ hpc = "release" /\ release

\* Every step brings the call under way closer to its return, but for calls that wait for
\* the mutex and for the shutdown: nothing the handler does is for another block.
CallAdvances ==
    [][syncConnect # NoCaller =>
          \/ StepsLeft' < StepsLeft
          \/ \E c \in Callers : Call(c) \/ SendOnClosed(c)
          \/ Quit \/ HandlerQuits \/ CloseNtfnChans]_vars

\* The handler leaves, the channel is closed and a send on it panics only at shutdown.
Stopping ==
    /\ hpc = "gone" => quit
    /\ closed => hpc = "gone"
    /\ crashed => closed

\* CloseNtfnChans comes after the handler has left, and that after quit was closed.
LEMMA StopsInOrder == Spec => []Stopping
<1>1. Init => Stopping
  BY DEF Init, Stopping
<1>2. Stopping /\ [Next]_vars => Stopping'
  BY DEF Stopping, Next, vars, Call, Lock, PutToken, Send, SendOnClosed, Rendezvous, Receive,
         TakeToken, Work, Release, Quit, HandlerQuits, CloseNtfnChans, CallerAt, HandlerAt,
         callerVars, handlerVars, stopVars
<1>3. QED
  BY <1>1, <1>2, PTL DEF Spec

\* No caller waits for a signal that nobody will give, nor for room in a channel that
\* nobody empties: for any capacity, any number of callers.
THEOREM NoCallStuck == Spec => []CanProceed
<1>1. TypeOK /\ HandoffInv /\ Stopping => CanProceed
  <2> SUFFICES ASSUME TypeOK, HandoffInv, Stopping, ~quit, syncConnect # NoCaller
               PROVE  CanProceed
    BY DEF CanProceed
  <2>1. /\ Stage(syncConnect) /\ ~closed /\ ~crashed /\ hpc # "gone"
        /\ Cap \in Nat /\ Len(<<>>) = 0 /\ \A h : <<h>> # <<>>
    BY HandoffAssumption DEF HandoffInv, TypeOK, Stopping
  <2>2. CASE pc[syncConnect] = "token"
    BY <2>1, <2>2 DEF Stage, CanProceed
  <2>3. CASE pc[syncConnect] = "send"
    BY <2>1, <2>3 DEF Stage, CanProceed
  <2>4. CASE pc[syncConnect] = "wait"
    BY <2>1, <2>4 DEF Stage, CanProceed
  <2>5. QED
    BY <2>1, <2>2, <2>3, <2>4 DEF Stage
<1>2. QED
  BY <1>1, TypeCorrect, HandoffCorrect, StopsInOrder, PTL

\* A call takes at most six steps once it has the mutex, whatever the other callers do:
\* with NoCallStuck this is CallsReturn but for the scheduling.
THEOREM CallsAdvance == Spec => CallAdvances
<1>1. TypeOK /\ HandoffInv /\ [Next]_vars
        => [syncConnect # NoCaller =>
              \/ StepsLeft' < StepsLeft
              \/ \E c \in Callers : Call(c) \/ SendOnClosed(c)
              \/ Quit \/ HandlerQuits \/ CloseNtfnChans]_vars
  <2> SUFFICES ASSUME TypeOK, HandoffInv, Next, syncConnect # NoCaller,
                      ~\E c \in Callers : Call(c) \/ SendOnClosed(c),
                      ~(Quit \/ HandlerQuits \/ CloseNtfnChans)
               PROVE  StepsLeft' < StepsLeft
    OBVIOUS
  <2> USE HandoffAssumption DEF CallerAt, HandlerAt, callerVars, handlerVars, stopVars
  <2>1. syncConnect \in Callers /\ Stage(syncConnect)
    BY DEF HandoffInv, TypeOK
  <2>2. ASSUME NEW c \in Callers, Lock(c) \/ PutToken(c) \/ Send(c) \/ Rendezvous(c)
        PROVE  StepsLeft' < StepsLeft
    <3>1. ~Lock(c)
      BY DEF Lock
    <3>2. syncConnect = c /\ syncConnect' = c
      BY <2>2, <3>1, OneInside DEF PutToken, Send, Rendezvous, Inside
    <3>3. CASE PutToken(c)
      BY <3>2, <3>3 DEF PutToken, StepsLeft, TypeOK
    <3>4. CASE Send(c)
      BY <2>1, <3>2, <3>4 DEF Send, Stage, StepsLeft, TypeOK
    <3>5. CASE Rendezvous(c)
      BY <3>2, <3>5 DEF Rendezvous, StepsLeft, TypeOK
    <3>6. QED
      BY <2>2, <3>1, <3>3, <3>4, <3>5
  <2>3. ASSUME Receive \/ TakeToken \/ Work PROVE StepsLeft' < StepsLeft
    <3>1. pc' = pc /\ syncConnect' = syncConnect /\ pc[syncConnect] = "wait"
      BY <2>1, <2>3 DEF Receive, TakeToken, Work, Stage
    <3>2. QED
      BY <2>1, <2>3, <3>1 DEF Receive, TakeToken, Work, StepsLeft
  <2>4. ASSUME Release PROVE StepsLeft' < StepsLeft
    <3>1. hpc = "release" /\ release /\ pc[syncConnect] = "wait"
      BY <2>1, <2>4 DEF Release, Stage
    <3>2. syncConnect' = NoCaller
      BY <2>4, <3>1 DEF Release
    <3>3. QED
      BY <2>1, <3>1, <3>2 DEF StepsLeft
  <2>5. QED
    BY <2>2, <2>3, <2>4 DEF Next
<1>2. QED
  BY <1>1, TypeCorrect, HandoffCorrect, PTL DEF Spec, CallAdvances
=============================================================================
