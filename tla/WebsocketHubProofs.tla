------------------------- MODULE WebsocketHubProofs -------------------------
(***************************************************************************)
(* Proofs about the hub, for any number of clients, blocks and pings.      *)
(***************************************************************************)
EXTENDS WebsocketHub, FiniteSetTheorems, WellFoundedInduction, TLAPS

-----------------------------------------------------------------------------
(***************************************************************************)
(* The inductive invariant.                                                *)
(***************************************************************************)

\* A connection that is not registered yet is unknown to the hub.
Fresh ==
    \A c \in Clients : handler[c] = "new" =>
        /\ c \notin clients \union closed \union todo /\ due[c] = 0
        /\ \A e \in Executors : unreg[e].client # c

\* Whoever comes to a client's channel has taken the client out of the map.
OutOfMap ==
    \A e \in Executors :
        unreg[e].step \in {"check", "close"} => unreg[e].client \notin clients

\* The run loop sends to a client that was registered.
Sending ==
    /\ RunAt("send") <=> run.client # Nobody
    /\ RunAt("send") => handler[run.client] # "new"

\* The loop has not come to the client with the block's signal.
Pending(c) ==
    /\ signal = "block"
    /\ \/ RunAt("range") /\ c \in todo
       \/ RunAt("send") /\ c \in todo \union {run.client}

\* NoBlockMissed, also while the loop hands out a signal.
BlocksTold ==
    /\ \A c \in Clients : due[c] <= data
    /\ \A c \in clients :
         \/ shown[c] >= due[c]
         \/ handler[c] \in {"signalled", "deferred", "done"}
         \/ \E e \in Executors : unreg[e].client = c
         \/ Pending(c)

\* Until a client is dropped or Stop is called the loop alone uses the map.
LoopAlone ==
    (~dropped /\ stop = "none" /\ ~crashed) =>
        /\ \A e \in Executors \ {TheRunLoop} : unreg[e] = Idle
        /\ unreg[TheRunLoop].step = "close" => unreg[TheRunLoop].client \notin closed
        /\ RunAt("send") => run.client \in clients

HubInv ==
    /\ TypeOK /\ RegisteredOpen /\ SafeWhileKeepingUp
    /\ Fresh /\ OutOfMap /\ Sending /\ BlocksTold /\ LoopAlone

-----------------------------------------------------------------------------
(***************************************************************************)
(* The executors of unregisterClient.                                      *)
(***************************************************************************)

\* The run loop and Stop are executors of their own.
LEMMA ExecutorsDiffer ==
    /\ TheRunLoop \in Executors /\ TheStopper \in Executors /\ TheRunLoop # TheStopper
    /\ \A c \in Clients : \A i \in 1..MaxGoroutines :
         <<c, i>> \in Executors /\ <<c, i>> # TheRunLoop /\ <<c, i>> # TheStopper
BY HubAssumption DEF Executors, TheRunLoop, TheStopper

\* An executor is idle or has a client.
LEMMA UnregistrationTypes ==
    /\ Idle \in Unregistrations /\ Idle.client = Nobody /\ Idle.step = "idle"
    /\ \A c \in Clients :
         /\ Unregistering(c) \in Unregistrations /\ Unregistering(c) # Idle
         /\ Unregistering(c).client = c /\ Unregistering(c).step = "lookup"
    /\ \A u \in Unregistrations :
         /\ u.step \in {"idle", "lookup", "delete", "check", "close"}
         /\ u.client \in Clients \union {Nobody}
         /\ u = Idle <=> u.step = "idle"
         /\ u = Idle <=> u.client = Nobody
BY HubAssumption DEF Idle, Unregistering, Unregistrations

\* Beginning, going on and ending change one executor.
LEMMA Began ==
    ASSUME TypeOK, NEW e \in Executors, NEW c \in Clients,
           unreg' = [unreg EXCEPT ![e] = Unregistering(c)]
    PROVE  /\ unreg' \in [Executors -> Unregistrations]
           /\ unreg'[e].client = c /\ unreg'[e].step = "lookup" /\ unreg'[e] # Idle
           /\ \A f \in Executors \ {e} : unreg'[f] = unreg[f]
BY UnregistrationTypes DEF TypeOK

\* An execution goes on to its next step; the others stay where they are.
LEMMA WentOn ==
    ASSUME TypeOK, NEW e \in Executors, NEW step \in {"delete", "check", "close"},
           unreg[e].step # "idle", Proceed(e, step)
    PROVE  /\ unreg' \in [Executors -> Unregistrations] /\ run' = run
           /\ unreg'[e].client = unreg[e].client /\ unreg'[e].step = step
           /\ unreg'[e] # Idle /\ unreg[e] # Idle
           /\ \A f \in Executors \ {e} : unreg'[f] = unreg[f]
<1> DEFINE u == [unreg[e] EXCEPT !.step = step]
<1>1. unreg[e] \in Unregistrations /\ unreg[e] # Idle
  BY UnregistrationTypes DEF TypeOK
<1>2. unreg[e] \in [client : Clients, step : {"lookup", "delete", "check", "close"}]
  BY <1>1 DEF Unregistrations
<1>3. /\ u \in [client : Clients, step : {"lookup", "delete", "check", "close"}]
      /\ u.client = unreg[e].client /\ u.step = step
  BY <1>2
<1>4. unreg' = [unreg EXCEPT ![e] = u] /\ run' = run
  BY DEF Proceed
<1> HIDE DEF u
<1>5. u \in Unregistrations /\ u # Idle
  BY <1>3, UnregistrationTypes DEF Unregistrations
<1>6. QED
  BY <1>1, <1>3, <1>4, <1>5 DEF TypeOK

\* An execution ends, and its place is idle.
LEMMA Ended ==
    ASSUME TypeOK, NEW e \in Executors, Finish(e)
    PROVE  /\ unreg' \in [Executors -> Unregistrations]
           /\ unreg'[e] = Idle /\ unreg'[e].client = Nobody /\ unreg'[e].step = "idle"
           /\ \A f \in Executors \ {e} : unreg'[f] = unreg[f]
           /\ run' = IF e = TheRunLoop THEN [at |-> "select", client |-> Nobody] ELSE run
BY UnregistrationTypes DEF TypeOK, Finish, RunTo

\* A dropped client is one that was registered, and the executor is a goroutine.
LEMMA DropBegins ==
    ASSUME TypeOK, Sending, Drop
    PROVE  /\ run.client \in Clients /\ handler[run.client] # "new"
           /\ \E g \in Executors \ {TheRunLoop, TheStopper} :
                /\ unreg[g] = Idle
                /\ unreg' \in [Executors -> Unregistrations]
                /\ unreg'[g].client = run.client /\ unreg'[g].step = "lookup"
                /\ \A f \in Executors \ {g} : unreg'[f] = unreg[f]
<1>1. run.client \in Clients /\ handler[run.client] # "new"
  BY DEF Drop, Sending, TypeOK, RunAt
<1>2. PICK i \in 1..MaxGoroutines :
             /\ unreg[<<run.client, i>>] = Idle
             /\ unreg' = [unreg EXCEPT ![<<run.client, i>>] = Unregistering(run.client)]
  BY DEF Drop
<1>3. \E g \in Executors \ {TheRunLoop, TheStopper} :
         /\ unreg[g] = Idle
         /\ unreg' \in [Executors -> Unregistrations]
         /\ unreg'[g].client = run.client /\ unreg'[g].step = "lookup"
         /\ \A f \in Executors \ {g} : unreg'[f] = unreg[f]
  BY <1>1, <1>2, ExecutorsDiffer, Began
<1>4. QED
  BY <1>1, <1>3

-----------------------------------------------------------------------------
(***************************************************************************)
(* Each step keeps the invariant.                                          *)
(***************************************************************************)

\* The types; the loop leaves unregisterClient as it came, with nobody in hand.
LEMMA TypesKept ==
    ASSUME HubInv, Next
    PROVE  TypeOK'
<1> USE HubAssumption, ExecutorsDiffer, UnregistrationTypes
    DEF HubInv, TypeOK, Blocks, Signals, hubVars, userVars, RunAt, RunTo, Move
<1>0. ~crashed
  BY DEF Next
<1>1. ASSUME NEW c \in Clients,
             \/ Register(c) \/ StartLoop(c) \/ Tick(c) \/ ReadData(c)
             \/ WriteMessage(c) \/ ChannelClosed(c) \/ Quit(c)
      PROVE  TypeOK'
  <2>1. CASE Register(c) \/ StartLoop(c)
    BY <1>0, <2>1 DEF Register, StartLoop
  <2>2. CASE Tick(c) \/ ReadData(c)
    BY <1>0, <2>2 DEF Tick, ReadData
  <2>3. CASE WriteMessage(c) \/ ChannelClosed(c)
    BY <1>0, <2>3 DEF WriteMessage, ChannelClosed
  <2>4. CASE Quit(c)
    BY <1>0, <2>4 DEF Quit
  <2>5. QED
    BY <1>1, <2>1, <2>2, <2>3, <2>4
<1>2. ASSUME NEW c \in Clients, Unregister(c) PROVE TypeOK'
  BY <1>0, <1>2, Began DEF Unregister
<1>3. CASE StoreData
  BY <1>0, <1>3 DEF StoreData
<1>4. CASE RelayBlock \/ \E c \in Clients : RelayPing(c)
  <2>1. CASE RelayBlock
    BY <1>0, <2>1 DEF RelayBlock, StartRange
  <2>2. ASSUME NEW c \in Clients, RelayPing(c) PROVE TypeOK'
    BY <1>0, <2>2 DEF RelayPing, StartRange
  <2>3. QED
    BY <1>4, <2>1, <2>2
<1>5. CASE (\E c \in Clients : PickClient(c)) \/ EndRange \/ Deliver
  <2>1. ASSUME NEW c \in Clients, PickClient(c) PROVE TypeOK'
    BY <1>0, <2>1 DEF PickClient
  <2>2. CASE EndRange
    BY <1>0, <2>2 DEF EndRange
  <2>3. CASE Deliver
    BY <1>0, <2>3 DEF Deliver
  <2>4. QED
    BY <1>5, <2>1, <2>2, <2>3
<1>6. CASE Drop
  <2>1. PICK g \in Executors \ {TheRunLoop, TheStopper} :
               /\ unreg[g] = Idle /\ unreg' \in [Executors -> Unregistrations]
               /\ unreg'[g].client = run.client /\ unreg'[g].step = "lookup"
               /\ \A f \in Executors \ {g} : unreg'[f] = unreg[f]
    BY <1>6, DropBegins
  <2>2. QED
    BY <1>0, <1>6, <2>1 DEF Drop
<1>7. CASE RunQuits \/ CallStop \/ StopReturns
  <2>1. CASE RunQuits
    BY <1>0, <2>1 DEF RunQuits
  <2>2. CASE CallStop
    BY <1>0, <2>2 DEF CallStop
  <2>3. CASE StopReturns
    BY <1>0, <2>3 DEF StopReturns
  <2>4. QED
    BY <1>7, <2>1, <2>2, <2>3
<1>8. ASSUME NEW c \in Clients, StopClient(c) PROVE TypeOK'
  BY <1>0, <1>8, Began DEF StopClient
<1>9. ASSUME NEW e \in Executors, Lookup(e) PROVE TypeOK'
  BY <1>0, <1>9, WentOn, Ended DEF Lookup
<1>10. ASSUME NEW e \in Executors, Delete(e) PROVE TypeOK'
  BY <1>0, <1>10, WentOn DEF Delete
<1>11. ASSUME NEW e \in Executors, CheckClosed(e) PROVE TypeOK'
  BY <1>0, <1>11, WentOn, Ended DEF CheckClosed
<1>12. ASSUME NEW e \in Executors, CloseChannel(e) PROVE TypeOK'
  BY <1>0, <1>12, Ended DEF CloseChannel
<1>13. CASE Crash
  <2>1. /\ 0 \in Blocks /\ 0 \in 0..MaxPings
    OBVIOUS
  <2>2. /\ clients' \subseteq Clients /\ closed' \subseteq Clients /\ todo' \subseteq Clients
        /\ run' = [at |-> "ended", client |-> Nobody]
        /\ crashed' = TRUE /\ quitClosed' = FALSE /\ dropped' = dropped /\ stop' = stop
        /\ signal' = "ping" /\ store' = "idle" /\ data' = 0 /\ pings' = 0
    BY <1>13 DEF Crash
  <2>3. unreg' \in [Executors -> Unregistrations]
    BY <1>13 DEF Crash
  <2>4. /\ handler' \in [Clients -> {"new", "setup", "select", "signalled",
                                     "ping", "write", "leave", "deferred", "done"}]
        /\ pinger' \in [Clients -> {"none", "wait", "send"}]
    BY <1>13 DEF Crash
  <2>5. shown' \in [Clients -> Blocks] /\ due' \in [Clients -> Blocks]
    BY <1>13, <2>1 DEF Crash
  <2>6. QED
    BY <2>1, <2>2, <2>3, <2>4, <2>5
<1>14. QED
  BY <1>1, <1>2, <1>3, <1>4, <1>5, <1>6, <1>7, <1>8, <1>9, <1>10, <1>11, <1>12, <1>13
     DEF Next, Handlers, RunLoop, StopCall, UnregisterSteps

\* A channel is closed only for a client that is out of the map, and stays out.
LEMMA OpenKept ==
    ASSUME HubInv, Next
    PROVE  RegisteredOpen'
<1> USE HubAssumption, ExecutorsDiffer, UnregistrationTypes
    DEF HubInv, TypeOK, RegisteredOpen, Fresh, OutOfMap, hubVars, userVars, RunAt, RunTo,
        Move
<1>0. ~crashed
  BY DEF Next
<1>1. ASSUME NEW c \in Clients,
             \/ Register(c) \/ StartLoop(c) \/ Tick(c) \/ ReadData(c)
             \/ WriteMessage(c) \/ ChannelClosed(c) \/ Quit(c)
      PROVE  RegisteredOpen'
  BY <1>0, <1>1
     DEF Register, StartLoop, Tick, ReadData, WriteMessage, ChannelClosed, Quit
<1>2. ASSUME NEW c \in Clients, Unregister(c) PROVE RegisteredOpen'
  BY <1>0, <1>2, Began DEF Unregister
<1>3. CASE StoreData
  BY <1>0, <1>3 DEF StoreData
<1>4. CASE RelayBlock \/ \E c \in Clients : RelayPing(c)
  BY <1>0, <1>4 DEF RelayBlock, RelayPing, StartRange
<1>5. CASE (\E c \in Clients : PickClient(c)) \/ EndRange \/ Deliver
  BY <1>0, <1>5 DEF PickClient, EndRange, Deliver
<1>6. CASE Drop
  <2>1. PICK g \in Executors \ {TheRunLoop, TheStopper} :
               /\ unreg[g] = Idle /\ unreg' \in [Executors -> Unregistrations]
               /\ unreg'[g].client = run.client /\ unreg'[g].step = "lookup"
               /\ \A f \in Executors \ {g} : unreg'[f] = unreg[f]
    BY <1>6, DropBegins
  <2>2. QED
    BY <1>0, <1>6, <2>1 DEF Drop
<1>7. CASE RunQuits \/ CallStop \/ StopReturns
  BY <1>0, <1>7 DEF RunQuits, CallStop, StopReturns
<1>8. ASSUME NEW c \in Clients, StopClient(c) PROVE RegisteredOpen'
  BY <1>0, <1>8, Began DEF StopClient
<1>9. ASSUME NEW e \in Executors, Lookup(e) PROVE RegisteredOpen'
  BY <1>0, <1>9, WentOn, Ended DEF Lookup
<1>10. ASSUME NEW e \in Executors, Delete(e) PROVE RegisteredOpen'
  BY <1>0, <1>10, WentOn DEF Delete
<1>11. ASSUME NEW e \in Executors, CheckClosed(e) PROVE RegisteredOpen'
  BY <1>0, <1>11, WentOn, Ended DEF CheckClosed
<1>12. ASSUME NEW e \in Executors, CloseChannel(e) PROVE RegisteredOpen'
  BY <1>0, <1>12, Ended DEF CloseChannel
<1>13. CASE Crash
  BY <1>0, <1>13 DEF Crash
<1>14. QED
  BY <1>1, <1>2, <1>3, <1>4, <1>5, <1>6, <1>7, <1>8, <1>9, <1>10, <1>11, <1>12, <1>13
     DEF Next, Handlers, RunLoop, StopCall, UnregisterSteps

\* Only Register takes a new connection on.
LEMMA FreshKept ==
    ASSUME HubInv, Next
    PROVE  Fresh'
<1> USE HubAssumption, ExecutorsDiffer, UnregistrationTypes
    DEF HubInv, TypeOK, Fresh, Sending, hubVars, userVars, RunAt, RunTo, Move
<1>0. ~crashed
  BY DEF Next
<1>1. ASSUME NEW c \in Clients,
             \/ Register(c) \/ StartLoop(c) \/ Tick(c) \/ ReadData(c)
             \/ WriteMessage(c) \/ ChannelClosed(c) \/ Quit(c)
      PROVE  Fresh'
  BY <1>0, <1>1
     DEF Register, StartLoop, Tick, ReadData, WriteMessage, ChannelClosed, Quit
<1>2. ASSUME NEW c \in Clients, Unregister(c) PROVE Fresh'
  BY <1>0, <1>2, Began DEF Unregister
<1>3. CASE StoreData
  BY <1>0, <1>3 DEF StoreData
<1>4. CASE RelayBlock \/ \E c \in Clients : RelayPing(c)
  BY <1>0, <1>4 DEF RelayBlock, RelayPing, StartRange
<1>5. CASE (\E c \in Clients : PickClient(c)) \/ EndRange \/ Deliver
  BY <1>0, <1>5 DEF PickClient, EndRange, Deliver
<1>6. CASE Drop
  <2>1. PICK g \in Executors \ {TheRunLoop, TheStopper} :
               /\ unreg[g] = Idle /\ unreg' \in [Executors -> Unregistrations]
               /\ unreg'[g].client = run.client /\ unreg'[g].step = "lookup"
               /\ \A f \in Executors \ {g} : unreg'[f] = unreg[f]
    BY <1>6, DropBegins
  <2>2. QED
    BY <1>0, <1>6, <2>1 DEF Drop
<1>7. CASE RunQuits \/ CallStop \/ StopReturns
  BY <1>0, <1>7 DEF RunQuits, CallStop, StopReturns
<1>8. ASSUME NEW c \in Clients, StopClient(c) PROVE Fresh'
  BY <1>0, <1>8, Began DEF StopClient
<1>9. ASSUME NEW e \in Executors, Lookup(e) PROVE Fresh'
  BY <1>0, <1>9, WentOn, Ended DEF Lookup
<1>10. ASSUME NEW e \in Executors, Delete(e) PROVE Fresh'
  BY <1>0, <1>10, WentOn DEF Delete
<1>11. ASSUME NEW e \in Executors, CheckClosed(e) PROVE Fresh'
  BY <1>0, <1>11, WentOn, Ended DEF CheckClosed
<1>12. ASSUME NEW e \in Executors, CloseChannel(e) PROVE Fresh'
  BY <1>0, <1>12, Ended DEF CloseChannel
<1>13. CASE Crash
  BY <1>0, <1>13 DEF Crash
<1>14. QED
  BY <1>1, <1>2, <1>3, <1>4, <1>5, <1>6, <1>7, <1>8, <1>9, <1>10, <1>11, <1>12, <1>13
     DEF Next, Handlers, RunLoop, StopCall, UnregisterSteps

\* No client enters the map between the delete and the close.
LEMMA OutOfMapKept ==
    ASSUME HubInv, Next
    PROVE  OutOfMap'
<1> USE HubAssumption, ExecutorsDiffer, UnregistrationTypes
    DEF HubInv, TypeOK, OutOfMap, Fresh, hubVars, userVars, RunAt, RunTo, Move
<1>0. ~crashed
  BY DEF Next
<1>1. ASSUME NEW c \in Clients,
             \/ Register(c) \/ StartLoop(c) \/ Tick(c) \/ ReadData(c)
             \/ WriteMessage(c) \/ ChannelClosed(c) \/ Quit(c)
      PROVE  OutOfMap'
  BY <1>0, <1>1
     DEF Register, StartLoop, Tick, ReadData, WriteMessage, ChannelClosed, Quit
<1>2. ASSUME NEW c \in Clients, Unregister(c) PROVE OutOfMap'
  BY <1>0, <1>2, Began DEF Unregister
<1>3. CASE StoreData
  BY <1>0, <1>3 DEF StoreData
<1>4. CASE RelayBlock \/ \E c \in Clients : RelayPing(c)
  BY <1>0, <1>4 DEF RelayBlock, RelayPing, StartRange
<1>5. CASE (\E c \in Clients : PickClient(c)) \/ EndRange \/ Deliver
  BY <1>0, <1>5 DEF PickClient, EndRange, Deliver
<1>6. CASE Drop
  <2>1. PICK g \in Executors \ {TheRunLoop, TheStopper} :
               /\ unreg[g] = Idle /\ unreg' \in [Executors -> Unregistrations]
               /\ unreg'[g].client = run.client /\ unreg'[g].step = "lookup"
               /\ \A f \in Executors \ {g} : unreg'[f] = unreg[f]
    BY <1>6, DropBegins
  <2>2. QED
    BY <1>0, <1>6, <2>1 DEF Drop
<1>7. CASE RunQuits \/ CallStop \/ StopReturns
  BY <1>0, <1>7 DEF RunQuits, CallStop, StopReturns
<1>8. ASSUME NEW c \in Clients, StopClient(c) PROVE OutOfMap'
  BY <1>0, <1>8, Began DEF StopClient
<1>9. ASSUME NEW e \in Executors, Lookup(e) PROVE OutOfMap'
  BY <1>0, <1>9, WentOn, Ended DEF Lookup
<1>10. ASSUME NEW e \in Executors, Delete(e) PROVE OutOfMap'
  BY <1>0, <1>10, WentOn DEF Delete
<1>11. ASSUME NEW e \in Executors, CheckClosed(e) PROVE OutOfMap'
  BY <1>0, <1>11, WentOn, Ended DEF CheckClosed
<1>12. ASSUME NEW e \in Executors, CloseChannel(e) PROVE OutOfMap'
  BY <1>0, <1>12, Ended DEF CloseChannel
<1>13. CASE Crash
  BY <1>0, <1>13 DEF Crash
<1>14. QED
  BY <1>1, <1>2, <1>3, <1>4, <1>5, <1>6, <1>7, <1>8, <1>9, <1>10, <1>11, <1>12, <1>13
     DEF Next, Handlers, RunLoop, StopCall, UnregisterSteps

\* The client sent to comes from the map.
LEMMA SendingKept ==
    ASSUME HubInv, Next
    PROVE  Sending'
<1> USE HubAssumption, ExecutorsDiffer, UnregistrationTypes
    DEF HubInv, TypeOK, Sending, Fresh, hubVars, userVars, RunAt, RunTo, Move
<1>0. ~crashed
  BY DEF Next
<1>1. ASSUME NEW c \in Clients,
             \/ Register(c) \/ StartLoop(c) \/ Tick(c) \/ ReadData(c)
             \/ WriteMessage(c) \/ ChannelClosed(c) \/ Quit(c)
      PROVE  Sending'
  BY <1>0, <1>1
     DEF Register, StartLoop, Tick, ReadData, WriteMessage, ChannelClosed, Quit
<1>2. ASSUME NEW c \in Clients, Unregister(c) PROVE Sending'
  BY <1>0, <1>2, Began DEF Unregister
<1>3. CASE StoreData
  BY <1>0, <1>3 DEF StoreData
<1>4. CASE RelayBlock \/ \E c \in Clients : RelayPing(c)
  BY <1>0, <1>4 DEF RelayBlock, RelayPing, StartRange
<1>5. CASE (\E c \in Clients : PickClient(c)) \/ EndRange \/ Deliver
  BY <1>0, <1>5 DEF PickClient, EndRange, Deliver
<1>6. CASE Drop
  <2>1. PICK g \in Executors \ {TheRunLoop, TheStopper} :
               /\ unreg[g] = Idle /\ unreg' \in [Executors -> Unregistrations]
               /\ unreg'[g].client = run.client /\ unreg'[g].step = "lookup"
               /\ \A f \in Executors \ {g} : unreg'[f] = unreg[f]
    BY <1>6, DropBegins
  <2>2. QED
    BY <1>0, <1>6, <2>1 DEF Drop
<1>7. CASE RunQuits \/ CallStop \/ StopReturns
  BY <1>0, <1>7 DEF RunQuits, CallStop, StopReturns
<1>8. ASSUME NEW c \in Clients, StopClient(c) PROVE Sending'
  BY <1>0, <1>8, Began DEF StopClient
<1>9. ASSUME NEW e \in Executors, Lookup(e) PROVE Sending'
  BY <1>0, <1>9, WentOn, Ended DEF Lookup
<1>10. ASSUME NEW e \in Executors, Delete(e) PROVE Sending'
  BY <1>0, <1>10, WentOn DEF Delete
<1>11. ASSUME NEW e \in Executors, CheckClosed(e) PROVE Sending'
  BY <1>0, <1>11, WentOn, Ended DEF CheckClosed
<1>12. ASSUME NEW e \in Executors, CloseChannel(e) PROVE Sending'
  BY <1>0, <1>12, Ended DEF CloseChannel
<1>13. CASE Crash
  BY <1>0, <1>13 DEF Crash
<1>14. QED
  BY <1>1, <1>2, <1>3, <1>4, <1>5, <1>6, <1>7, <1>8, <1>9, <1>10, <1>11, <1>12, <1>13
     DEF Next, Handlers, RunLoop, StopCall, UnregisterSteps

\* A block's signal is with the loop, the handler or the goroutine that unregisters.
LEMMA BlocksKept ==
    ASSUME HubInv, Next
    PROVE  BlocksTold'
<1> USE HubAssumption, ExecutorsDiffer, UnregistrationTypes
    DEF HubInv, TypeOK, BlocksTold, Pending, Fresh, OutOfMap, Blocks, hubVars, userVars,
        RunAt, RunTo, Move
<1>0. ~crashed
  BY DEF Next
<1>1. ASSUME NEW c \in Clients,
             \/ Register(c) \/ StartLoop(c) \/ Tick(c) \/ ReadData(c)
             \/ WriteMessage(c) \/ ChannelClosed(c) \/ Quit(c)
      PROVE  BlocksTold'
  BY <1>0, <1>1
     DEF Register, StartLoop, Tick, ReadData, WriteMessage, ChannelClosed, Quit
<1>2. ASSUME NEW c \in Clients, Unregister(c) PROVE BlocksTold'
  BY <1>0, <1>2, Began DEF Unregister
<1>3. CASE StoreData
  BY <1>0, <1>3 DEF StoreData
<1>4. CASE RelayBlock \/ \E c \in Clients : RelayPing(c)
  BY <1>0, <1>4 DEF RelayBlock, RelayPing, StartRange
<1>5. CASE (\E c \in Clients : PickClient(c)) \/ EndRange \/ Deliver
  BY <1>0, <1>5 DEF PickClient, EndRange, Deliver
<1>6. CASE Drop
  <2>1. PICK g \in Executors \ {TheRunLoop, TheStopper} :
               /\ unreg[g] = Idle /\ unreg' \in [Executors -> Unregistrations]
               /\ unreg'[g].client = run.client /\ unreg'[g].step = "lookup"
               /\ \A f \in Executors \ {g} : unreg'[f] = unreg[f]
    BY <1>6, DropBegins
  <2>2. QED
    BY <1>0, <1>6, <2>1 DEF Drop
<1>7. CASE RunQuits \/ CallStop \/ StopReturns
  BY <1>0, <1>7 DEF RunQuits, CallStop, StopReturns
<1>8. ASSUME NEW c \in Clients, StopClient(c) PROVE BlocksTold'
  BY <1>0, <1>8, Began DEF StopClient
<1>9. ASSUME NEW e \in Executors, Lookup(e) PROVE BlocksTold'
  BY <1>0, <1>9, WentOn, Ended DEF Lookup
<1>10. ASSUME NEW e \in Executors, Delete(e) PROVE BlocksTold'
  <2>1. /\ clients' = clients \ {unreg[e].client} /\ run' = run
        /\ UNCHANGED <<signal, todo, handler, data, shown, due>>
    BY <1>10 DEF Delete, Proceed
  <2>2. /\ unreg'[e].client = unreg[e].client
        /\ \A f \in Executors \ {e} : unreg'[f] = unreg[f]
    BY <1>10, WentOn DEF Delete
  <2>3. \A f \in Executors : unreg'[f].client = unreg[f].client
    BY <2>2
  <2>4. QED
    BY <1>0, <2>1, <2>3
<1>11. ASSUME NEW e \in Executors, CheckClosed(e) PROVE BlocksTold'
  BY <1>0, <1>11, WentOn, Ended DEF CheckClosed
<1>12. ASSUME NEW e \in Executors, CloseChannel(e) PROVE BlocksTold'
  BY <1>0, <1>12, Ended DEF CloseChannel
<1>13. CASE Crash
  BY <1>0, <1>13 DEF Crash
<1>14. QED
  BY <1>1, <1>2, <1>3, <1>4, <1>5, <1>6, <1>7, <1>8, <1>9, <1>10, <1>11, <1>12, <1>13
     DEF Next, Handlers, RunLoop, StopCall, UnregisterSteps

\* Before a client is dropped the goroutines and Stop are idle.
LEMMA AloneKept ==
    ASSUME HubInv, Next
    PROVE  LoopAlone'
<1> USE HubAssumption, ExecutorsDiffer, UnregistrationTypes
    DEF HubInv, TypeOK, LoopAlone, RegisteredOpen, hubVars, userVars, RunAt, RunTo, Move
<1>0. ~crashed
  BY DEF Next
<1>1. ASSUME NEW c \in Clients,
             \/ Register(c) \/ StartLoop(c) \/ Tick(c) \/ ReadData(c)
             \/ WriteMessage(c) \/ ChannelClosed(c) \/ Quit(c)
      PROVE  LoopAlone'
  BY <1>0, <1>1
     DEF Register, StartLoop, Tick, ReadData, WriteMessage, ChannelClosed, Quit
<1>2. ASSUME NEW c \in Clients, Unregister(c) PROVE LoopAlone'
  BY <1>0, <1>2, Began DEF Unregister
<1>3. CASE StoreData
  BY <1>0, <1>3 DEF StoreData
<1>4. CASE RelayBlock \/ \E c \in Clients : RelayPing(c)
  BY <1>0, <1>4 DEF RelayBlock, RelayPing, StartRange
<1>5. CASE (\E c \in Clients : PickClient(c)) \/ EndRange \/ Deliver
  BY <1>0, <1>5 DEF PickClient, EndRange, Deliver
<1>6. CASE Drop
  <2>1. PICK g \in Executors \ {TheRunLoop, TheStopper} :
               /\ unreg[g] = Idle /\ unreg' \in [Executors -> Unregistrations]
               /\ unreg'[g].client = run.client /\ unreg'[g].step = "lookup"
               /\ \A f \in Executors \ {g} : unreg'[f] = unreg[f]
    BY <1>6, DropBegins
  <2>2. QED
    BY <1>0, <1>6, <2>1 DEF Drop
<1>7. CASE RunQuits \/ CallStop \/ StopReturns
  BY <1>0, <1>7 DEF RunQuits, CallStop, StopReturns
<1>8. ASSUME NEW c \in Clients, StopClient(c) PROVE LoopAlone'
  BY <1>0, <1>8, Began DEF StopClient
<1>9. ASSUME NEW e \in Executors, Lookup(e) PROVE LoopAlone'
  BY <1>0, <1>9, WentOn, Ended DEF Lookup
<1>10. ASSUME NEW e \in Executors, Delete(e) PROVE LoopAlone'
  BY <1>0, <1>10, WentOn DEF Delete
<1>11. ASSUME NEW e \in Executors, CheckClosed(e) PROVE LoopAlone'
  BY <1>0, <1>11, WentOn, Ended DEF CheckClosed
<1>12. ASSUME NEW e \in Executors, CloseChannel(e) PROVE LoopAlone'
  BY <1>0, <1>12, Ended DEF CloseChannel
<1>13. CASE Crash
  BY <1>0, <1>13 DEF Crash
<1>14. QED
  BY <1>1, <1>2, <1>3, <1>4, <1>5, <1>6, <1>7, <1>8, <1>9, <1>10, <1>11, <1>12, <1>13
     DEF Next, Handlers, RunLoop, StopCall, UnregisterSteps

\* Alone, the loop meets no other user of the map and no closed channel.
LEMMA SafeKept ==
    ASSUME HubInv, Next
    PROVE  SafeWhileKeepingUp'
<1> USE HubAssumption, ExecutorsDiffer, UnregistrationTypes
    DEF HubInv, TypeOK, LoopAlone, RegisteredOpen, SafeWhileKeepingUp, MapRace,
        DoubleClose, SendOnClosed, hubVars, userVars, RunAt, RunTo, Move
<1>0. ~crashed
  BY DEF Next
<1>1. ASSUME NEW c \in Clients,
             \/ Register(c) \/ StartLoop(c) \/ Tick(c) \/ ReadData(c)
             \/ WriteMessage(c) \/ ChannelClosed(c) \/ Quit(c)
      PROVE  SafeWhileKeepingUp'
  BY <1>0, <1>1
     DEF Register, StartLoop, Tick, ReadData, WriteMessage, ChannelClosed, Quit
<1>2. ASSUME NEW c \in Clients, Unregister(c) PROVE SafeWhileKeepingUp'
  BY <1>0, <1>2, Began DEF Unregister
<1>3. CASE StoreData
  BY <1>0, <1>3 DEF StoreData
<1>4. CASE RelayBlock \/ \E c \in Clients : RelayPing(c)
  BY <1>0, <1>4 DEF RelayBlock, RelayPing, StartRange
<1>5. CASE (\E c \in Clients : PickClient(c)) \/ EndRange \/ Deliver
  BY <1>0, <1>5 DEF PickClient, EndRange, Deliver
<1>6. CASE Drop
  <2>1. PICK g \in Executors \ {TheRunLoop, TheStopper} :
               /\ unreg[g] = Idle /\ unreg' \in [Executors -> Unregistrations]
               /\ unreg'[g].client = run.client /\ unreg'[g].step = "lookup"
               /\ \A f \in Executors \ {g} : unreg'[f] = unreg[f]
    BY <1>6, DropBegins
  <2>2. QED
    BY <1>0, <1>6, <2>1 DEF Drop
<1>7. CASE RunQuits \/ CallStop \/ StopReturns
  BY <1>0, <1>7 DEF RunQuits, CallStop, StopReturns
<1>8. ASSUME NEW c \in Clients, StopClient(c) PROVE SafeWhileKeepingUp'
  BY <1>0, <1>8, Began DEF StopClient
<1>9. ASSUME NEW e \in Executors, Lookup(e) PROVE SafeWhileKeepingUp'
  BY <1>0, <1>9, WentOn, Ended DEF Lookup
<1>10. ASSUME NEW e \in Executors, Delete(e) PROVE SafeWhileKeepingUp'
  BY <1>0, <1>10, WentOn DEF Delete
<1>11. ASSUME NEW e \in Executors, CheckClosed(e) PROVE SafeWhileKeepingUp'
  BY <1>0, <1>11, WentOn, Ended DEF CheckClosed
<1>12. ASSUME NEW e \in Executors, CloseChannel(e) PROVE SafeWhileKeepingUp'
  BY <1>0, <1>12, Ended DEF CloseChannel
<1>13. CASE Crash
  BY <1>0, <1>13 DEF Crash
<1>14. QED
  BY <1>1, <1>2, <1>3, <1>4, <1>5, <1>6, <1>7, <1>8, <1>9, <1>10, <1>11, <1>12, <1>13
     DEF Next, Handlers, RunLoop, StopCall, UnregisterSteps

\* The hub starts with no client and nothing under way.
LEMMA HubInit == Init => HubInv
<1> SUFFICES ASSUME Init PROVE HubInv
  OBVIOUS
<1>1. TypeOK
  <2>1. 0 \in Blocks /\ 0 \in 0..MaxPings
    BY HubAssumption DEF Blocks
  <2>2. unreg \in [Executors -> Unregistrations] /\ unreg[TheRunLoop] = Idle
    BY ExecutorsDiffer, UnregistrationTypes DEF Init
  <2>3. /\ shown \in [Clients -> Blocks] /\ due \in [Clients -> Blocks]
        /\ data \in Blocks /\ pings \in 0..MaxPings
    BY <2>1 DEF Init
  <2>4. QED
    BY <2>2, <2>3 DEF Init, TypeOK, Signals, RunAt
<1>2. RegisteredOpen /\ SafeWhileKeepingUp /\ Sending /\ BlocksTold
  BY HubAssumption DEF Init, RegisteredOpen, SafeWhileKeepingUp, Sending, BlocksTold, RunAt
<1>3. Fresh /\ OutOfMap /\ LoopAlone
  BY HubAssumption, ExecutorsDiffer, UnregistrationTypes
     DEF Init, Fresh, OutOfMap, LoopAlone, RunAt
<1>4. QED
  BY <1>1, <1>2, <1>3 DEF HubInv

\* Each step of the hub keeps the invariant.
LEMMA HubNext == HubInv /\ [Next]_vars => HubInv'
<1>1. ASSUME HubInv, Next PROVE HubInv'
  BY <1>1, TypesKept, OpenKept, FreshKept, OutOfMapKept, SendingKept, BlocksKept,
     AloneKept, SafeKept DEF HubInv
<1>2. ASSUME HubInv, UNCHANGED vars PROVE HubInv'
  BY <1>2 DEF vars, hubVars, userVars, HubInv, TypeOK, RegisteredOpen, SafeWhileKeepingUp,
              Fresh, OutOfMap, Sending, BlocksTold, Pending, LoopAlone, RunAt
<1>3. QED
  BY <1>1, <1>2

-----------------------------------------------------------------------------
(***************************************************************************)
(* The theorems.                                                           *)
(***************************************************************************)

\* The invariant holds in every reachable state.
THEOREM HubInvariant == Spec => []HubInv
BY HubInit, HubNext, PTL DEF Spec

\* Every variable has its type; the run loop hands out no signal while it unregisters.
THEOREM HubTypes == Spec => []TypeOK
<1>1. HubInv => TypeOK
  BY DEF HubInv
<1>2. QED
  BY <1>1, HubInvariant, PTL

\* A registered client's channel is open, whoever unregisters it at once.
THEOREM RegisteredStaysOpen == Spec => []RegisteredOpen
<1>1. HubInv => RegisteredOpen
  BY DEF HubInv
<1>2. QED
  BY <1>1, HubInvariant, PTL

\* A registered client is written every block signalled to it or is being unregistered.
THEOREM BlocksReachClients == Spec => []NoBlockMissed
<1>1. HubInv => NoBlockMissed
  BY DEF HubInv, BlocksTold, Pending, NoBlockMissed, RunAt
<1>2. QED
  BY <1>1, HubInvariant, PTL

\* The hub crashes only after it has dropped a slow client or Stop was called.
THEOREM HubSafe == Spec => []SafeWhileKeepingUp
<1>1. HubInv => SafeWhileKeepingUp
  BY DEF HubInv
<1>2. QED
  BY <1>1, HubInvariant, PTL
-----------------------------------------------------------------------------
(***************************************************************************)
(* The loop waits for no client: a goroutine is started for every signal   *)
(* that a slow client misses, so that no more than the signals run at once.*)
(***************************************************************************)

\* The pings that have not been received by the loop.
Pinging == {c \in Clients : pinger[c] = "send"}
Relayed == IF store = "relay" THEN data - 1 ELSE data
HandedOut == Relayed + (pings - Cardinality(Pinging))

\* The range statement has not come to the client, or the loop sends to it.
HasYet(c) ==
    \/ RunAt("range") /\ c \in todo
    \/ RunAt("send") /\ c \in todo \union {run.client}

\* The signals that were offered to a client that was in the map, at most.
Offered(c) == IF HasYet(c) THEN HandedOut - 1 ELSE HandedOut

\* What the numbers are made of.
Counted ==
    /\ IsFiniteSet(Pinging) /\ Cardinality(Pinging) <= pings
    /\ store = "relay" => data >= 1

\* The loop hands out a signal it has received, to one client after the other.
InHand ==
    /\ RunAt("range") \/ RunAt("send") => HandedOut >= 1
    /\ RunAt("send") => run.client \notin todo

\* Each goroutine of a client was started for a signal of its own.
OnePerSignal ==
    \A c \in Clients : \A i \in 1..MaxGoroutines :
        unreg[<<c, i>>] # Idle => i <= Offered(c)

\* A connection pings once its handler has come to its loop.
PingsLater == \A c \in Clients : handler[c] \in {"new", "setup"} => pinger[c] = "none"

SignalInv == HubInv /\ PingsLater /\ Counted /\ InHand /\ OnePerSignal

\* The send of run(), select with a default case, never waits: the client receives, or
\* there is room for the goroutine that unregisters it (or the channel is closed, and
\* the process ends).
NeverWaits ==
    RunAt("send") =>
        \/ run.client \in closed
        \/ handler[run.client] = "select"
        \/ \E i \in 1..MaxGoroutines :
             /\ unreg[<<run.client, i>>] = Idle
             /\ \A j \in 1..(i - 1) : unreg[<<run.client, j>>] # Idle

\* The counts are numbers.
LEMMA Numbers ==
    ASSUME TypeOK, Counted
    PROVE  /\ data \in Nat /\ pings \in Nat /\ Cardinality(Pinging) \in Nat
           /\ Relayed \in Nat /\ HandedOut \in Nat
           /\ Relayed <= MaxBlocks /\ pings <= MaxPings
           /\ HandedOut <= MaxBlocks + MaxPings
<1>1. /\ data \in Nat /\ data <= MaxBlocks /\ pings \in Nat /\ pings <= MaxPings
      /\ MaxBlocks \in Nat /\ MaxPings \in Nat
  BY HubAssumption DEF TypeOK, Blocks
<1>2. Cardinality(Pinging) \in Nat /\ Cardinality(Pinging) <= pings
  BY FS_CardinalityType DEF Counted
<1>3. Relayed \in Nat /\ Relayed <= MaxBlocks
  BY <1>1 DEF Counted, Relayed
<1>4. QED
  BY <1>1, <1>2, <1>3 DEF HandedOut

\* A ping that waits for the loop is not handed out yet.
LEMMA PingWaits ==
    ASSUME TypeOK, Counted, NEW c \in Clients, Tick(c)
    PROVE  Counted' /\ HandedOut' = HandedOut
<1>1. pinger' = [pinger EXCEPT ![c] = "send"] /\ pinger[c] = "wait"
  BY DEF Tick
<1>2. Pinging' = Pinging \union {c} /\ c \notin Pinging
  BY <1>1 DEF Pinging, TypeOK
<1>3. /\ IsFiniteSet(Pinging') /\ Cardinality(Pinging') = Cardinality(Pinging) + 1
  BY <1>2, FS_AddElement DEF Counted
<1>4. /\ pings' = pings + 1 /\ data' = data /\ store' = store
  BY DEF Tick
<1>5. Relayed' = Relayed
  BY <1>4 DEF Relayed
<1> HIDE DEF Pinging
<1>6. QED
  BY <1>3, <1>4, <1>5, Numbers DEF Counted, HandedOut

\* The loop receives one ping.
LEMMA PingReceived ==
    ASSUME TypeOK, Counted, NEW c \in Clients, RelayPing(c)
    PROVE  Counted' /\ HandedOut' = HandedOut + 1
<1>1. pinger' = [pinger EXCEPT ![c] = "wait"] /\ pinger[c] = "send"
  BY DEF RelayPing
<1>2. Pinging' = Pinging \ {c} /\ c \in Pinging
  BY <1>1 DEF Pinging, TypeOK
<1>3. /\ IsFiniteSet(Pinging') /\ Cardinality(Pinging') = Cardinality(Pinging) - 1
  BY <1>2, FS_RemoveElement DEF Counted
<1>4. pings' = pings /\ data' = data /\ store' = store
  BY DEF RelayPing, StartRange
<1>5. Relayed' = Relayed
  BY <1>4 DEF Relayed
<1>6. QED
  BY <1>3, <1>4, <1>5, Numbers DEF Counted, HandedOut

\* A block is stored and its signal waits; the loop receives it.
LEMMA BlockCounted ==
    ASSUME TypeOK, Counted
    PROVE  /\ StoreData => Counted' /\ HandedOut' = HandedOut
           /\ RelayBlock => Counted' /\ HandedOut' = HandedOut + 1
<1>1. pinger' = pinger => Pinging' = Pinging
  BY DEF Pinging
<1>2. ASSUME StoreData PROVE Counted' /\ HandedOut' = HandedOut
  <2>1. /\ store = "idle" /\ data' = data + 1 /\ store' = "relay"
        /\ pings' = pings /\ Pinging' = Pinging
    BY <1>1, <1>2 DEF StoreData
  <2>2. Relayed' = Relayed
    BY <2>1, Numbers DEF Relayed
  <2>3. Counted'
    BY <2>1, Numbers DEF Counted
  <2>4. QED
    BY <2>1, <2>2, <2>3 DEF HandedOut
<1>3. ASSUME RelayBlock PROVE Counted' /\ HandedOut' = HandedOut + 1
  <2>1. /\ store = "relay" /\ data' = data /\ store' = "idle"
        /\ pings' = pings /\ Pinging' = Pinging
    BY <1>1, <1>3 DEF RelayBlock, StartRange
  <2>2. Relayed' = Relayed + 1
    BY <2>1, Numbers DEF Relayed
  <2>3. Counted'
    BY <2>1 DEF Counted
  <2>4. QED
    BY <2>1, <2>2, <2>3, Numbers DEF HandedOut
<1>4. QED
  BY <1>2, <1>3

\* Every other step leaves the counts alone.
LEMMA CountsStay ==
    ASSUME Counted, UNCHANGED <<pinger, store, data, pings>>
    PROVE  Counted' /\ HandedOut' = HandedOut
<1>1. Pinging' = Pinging /\ Relayed' = Relayed
  BY DEF Pinging, Relayed
<1>2. QED
  BY <1>1 DEF Counted, HandedOut

\* Where the loop stays, and no goroutine is started, the signals are offered as before.
LEMMA LoopStays ==
    ASSUME SignalInv, UNCHANGED <<run, todo>>, HandedOut' = HandedOut,
           \A c \in Clients : \A i \in 1..MaxGoroutines :
               unreg'[<<c, i>>] # Idle => unreg[<<c, i>>] # Idle
    PROVE  InHand' /\ OnePerSignal'
<1>1. \A c \in Clients : HasYet(c)' = HasYet(c)
  BY DEF HasYet, RunAt
<1>2. \A c \in Clients : Offered(c)' = Offered(c)
  BY <1>1 DEF Offered
<1>3. InHand'
  BY DEF SignalInv, InHand, RunAt
<1>4. OnePerSignal'
  BY <1>2 DEF SignalInv, OnePerSignal
<1>5. QED
  BY <1>3, <1>4

\* Where the loop hands out nothing after the step, every signal has been offered.
LEMMA LoopFreed ==
    ASSUME SignalInv, HandedOut' = HandedOut, ~RunAt("range")', ~RunAt("send")',
           \A c \in Clients : \A i \in 1..MaxGoroutines :
               unreg'[<<c, i>>] # Idle => unreg[<<c, i>>] # Idle
    PROVE  InHand' /\ OnePerSignal'
<1>1. HandedOut \in Nat
  BY Numbers DEF SignalInv, HubInv
<1>2. \A c \in Clients : Offered(c) <= HandedOut /\ Offered(c) \in Int
  BY <1>1 DEF Offered
<1>3. \A c \in Clients : Offered(c)' = HandedOut
  BY DEF Offered, HasYet
<1>4. InHand'
  BY DEF InHand
<1>5. OnePerSignal'
  BY <1>1, <1>2, <1>3 DEF SignalInv, OnePerSignal
<1>6. QED
  BY <1>4, <1>5

\* A received signal has been offered to nobody that is still in the map.
LEMMA RangeStarts ==
    ASSUME SignalInv, NEW sig, StartRange(sig), HandedOut' = HandedOut + 1
    PROVE  InHand' /\ OnePerSignal'
<1>1. HandedOut \in Nat
  BY Numbers DEF SignalInv, HubInv
<1>2. /\ run.at = "select" /\ run' = [at |-> "range", client |-> Nobody] /\ unreg' = unreg
  BY DEF StartRange, RunAt, RunTo
<1>3. \A c \in Clients : Offered(c) = HandedOut
  BY <1>2 DEF Offered, HasYet, RunAt
<1>4. \A c \in Clients : Offered(c)' \in {HandedOut, HandedOut + 1}
  BY <1>1 DEF Offered
<1>5. InHand'
  BY <1>1, <1>2 DEF InHand, RunAt
<1>6. OnePerSignal'
  BY <1>1, <1>2, <1>3, <1>4 DEF SignalInv, OnePerSignal
<1>7. QED
  BY <1>5, <1>6

\* The client that is picked has yet to be offered the signal.
LEMMA PickKeeps ==
    ASSUME SignalInv, NEW c \in Clients, PickClient(c), HandedOut' = HandedOut
    PROVE  InHand' /\ OnePerSignal'
<1>1. /\ run.at = "range" /\ run' = [at |-> "send", client |-> c]
      /\ c \in todo /\ todo' = todo \ {c} /\ unreg' = unreg
  BY DEF PickClient, RunAt, RunTo
<1>2. \A d \in Clients : HasYet(d)' <=> HasYet(d)
  BY <1>1 DEF HasYet, RunAt
<1>3. \A d \in Clients : Offered(d)' = Offered(d)
  BY <1>2 DEF Offered
<1>4. InHand'
  BY <1>1 DEF SignalInv, InHand, RunAt
<1>5. OnePerSignal'
  BY <1>1, <1>3 DEF SignalInv, OnePerSignal
<1>6. QED
  BY <1>4, <1>5

\* After the send the signal was offered to the client, and to the others as before.
LEMMA SendDone ==
    ASSUME SignalInv, RunAt("send"), RunTo("range", Nobody), todo' = todo,
           HandedOut' = HandedOut
    PROVE  /\ HandedOut \in Nat /\ HandedOut >= 1 /\ run.client \in Clients
           /\ Offered(run.client) = HandedOut - 1
           /\ \A c \in Clients : Offered(c) \in Int /\ Offered(c)' \in Int
                                 /\ Offered(c) <= Offered(c)'
           /\ \A c \in Clients : c = run.client => Offered(c)' = HandedOut
           /\ InHand'
<1>1. HandedOut \in Nat /\ HandedOut >= 1 /\ run.client \notin todo
  BY Numbers DEF SignalInv, HubInv, InHand
<1>2. run.client \in Clients
  BY DEF SignalInv, HubInv, Sending, TypeOK
<1>3. run.at = "send" /\ run' = [at |-> "range", client |-> Nobody]
  BY DEF RunAt, RunTo
<1>4. HasYet(run.client)
  BY <1>3 DEF HasYet, RunAt
<1>5. \A c \in Clients : HasYet(c)' <=> c \in todo
  BY <1>3 DEF HasYet, RunAt
<1>6. \A c \in Clients : c \in todo => HasYet(c)
  BY <1>3 DEF HasYet, RunAt
<1>7. InHand'
  BY <1>1, <1>3 DEF InHand, RunAt
<1> HIDE DEF HasYet
<1>8. QED
  BY <1>1, <1>2, <1>4, <1>5, <1>6, <1>7 DEF Offered

\* Deliver starts no goroutine; Drop starts the next one, for the signal that is missed.
LEMMA SendKeeps ==
    ASSUME SignalInv, Deliver \/ Drop, HandedOut' = HandedOut
    PROVE  InHand' /\ OnePerSignal'
<1>1. RunAt("send") /\ RunTo("range", Nobody) /\ todo' = todo
  BY DEF Deliver, Drop
<1>2. /\ HandedOut \in Nat /\ HandedOut >= 1 /\ run.client \in Clients
      /\ Offered(run.client) = HandedOut - 1
      /\ \A c \in Clients : Offered(c) \in Int /\ Offered(c)' \in Int
                            /\ Offered(c) <= Offered(c)'
      /\ \A c \in Clients : c = run.client => Offered(c)' = HandedOut
      /\ InHand'
  BY <1>1, SendDone
<1>3. CASE Deliver
  <2>1. unreg' = unreg
    BY <1>3 DEF Deliver
  <2>2. QED
    BY <1>2, <2>1 DEF SignalInv, OnePerSignal
<1>4. CASE Drop
  <2>1. PICK i \in 1..MaxGoroutines :
          /\ \A j \in 1..(i - 1) : unreg[<<run.client, j>>] # Idle
          /\ unreg' = [unreg EXCEPT ![<<run.client, i>>] = Unregistering(run.client)]
    BY <1>4 DEF Drop
  <2>2. i <= HandedOut
    <3>1. CASE i = 1
      BY <1>2, <3>1
    <3>2. CASE i # 1
      <4>1. i - 1 \in 1..(i - 1) /\ i - 1 \in 1..MaxGoroutines
        BY <3>2, HubAssumption
      <4>2. unreg[<<run.client, i - 1>>] # Idle
        BY <2>1, <4>1
      <4>3. i - 1 <= Offered(run.client)
        BY <1>2, <4>1, <4>2 DEF SignalInv, OnePerSignal
      <4>4. QED
        BY <1>2, <4>3
    <3>3. QED
      BY <3>1, <3>2
  <2>3. ASSUME NEW c \in Clients, NEW k \in 1..MaxGoroutines, unreg'[<<c, k>>] # Idle
        PROVE  k <= Offered(c)'
    <3>1. CASE <<c, k>> = <<run.client, i>>
      BY <1>2, <2>2, <3>1
    <3>2. CASE <<c, k>> # <<run.client, i>>
      <4>1. unreg[<<c, k>>] # Idle
        BY <2>1, <2>3, <3>2, ExecutorsDiffer DEF SignalInv, HubInv, TypeOK
      <4>2. k <= Offered(c)
        BY <4>1 DEF SignalInv, OnePerSignal
      <4>3. QED
        BY <1>2, <4>2
    <3>3. QED
      BY <3>1, <3>2
  <2>4. QED
    BY <1>2, <2>3 DEF OnePerSignal
<1>5. QED
  BY <1>3, <1>4

\* A step of unregisterClient starts no goroutine, and the loop goes nowhere with it but
\* back to its select.
LEMMA UnregistersAside ==
    ASSUME TypeOK, NEW e \in Executors,
           Lookup(e) \/ Delete(e) \/ CheckClosed(e) \/ CloseChannel(e)
    PROVE  /\ UNCHANGED <<todo, pinger, store, data, pings>>
           /\ run' = run \/ run' = [at |-> "select", client |-> Nobody]
           /\ \A f \in Executors : unreg'[f] # Idle => unreg[f] # Idle
<1>1. UNCHANGED <<todo, pinger, store, data, pings>>
  BY DEF Lookup, Delete, CheckClosed, CloseChannel, userVars
<1>2. unreg[e].step # "idle" /\ unreg[e] # Idle
  BY UnregistrationTypes DEF Lookup, Delete, CheckClosed, CloseChannel
<1>3. Finish(e) \/ \E step \in {"delete", "check", "close"} : Proceed(e, step)
  BY DEF Lookup, Delete, CheckClosed, CloseChannel
<1>4. CASE Finish(e)
  BY <1>1, <1>4, Ended
<1>5. ASSUME NEW step \in {"delete", "check", "close"}, Proceed(e, step)
      PROVE  run' = run /\ \A f \in Executors : unreg'[f] # Idle => unreg[f] # Idle
  <2>1. run' = run /\ \A f \in Executors \ {e} : unreg'[f] = unreg[f]
    BY <1>2, <1>5, WentOn
  <2>2. QED
    BY <1>2, <2>1
<1>6. QED
  BY <1>1, <1>3, <1>4, <1>5

\* The goroutines of the clients are executors of their own.
LEMMA GoroutinesAside ==
    ASSUME \A f \in Executors \ {TheRunLoop, TheStopper} : unreg'[f] # Idle => unreg[f] # Idle
    PROVE  \A c \in Clients : \A i \in 1..MaxGoroutines :
               unreg'[<<c, i>>] # Idle => unreg[<<c, i>>] # Idle
BY ExecutorsDiffer

\* No connection goes back to where it has not pinged.
LEMMA PingsLaterKept ==
    ASSUME TypeOK, PingsLater, Next
    PROVE  PingsLater'
<1> USE DEF TypeOK, PingsLater, hubVars, userVars, Move
<1>1. ASSUME NEW c \in Clients,
             \/ Register(c) \/ StartLoop(c) \/ Tick(c) \/ ReadData(c)
             \/ WriteMessage(c) \/ ChannelClosed(c) \/ Quit(c) \/ Unregister(c)
      PROVE  PingsLater'
  BY <1>1 DEF Register, StartLoop, Tick, ReadData, WriteMessage, ChannelClosed, Quit,
              Unregister
<1>2. CASE StoreData \/ RelayBlock \/ EndRange \/ Drop \/ RunQuits \/ StopCall
  BY <1>2 DEF StoreData, RelayBlock, StartRange, EndRange, Drop, RunQuits, StopCall,
              CallStop, StopReturns, StopClient
<1>3. CASE Deliver \/ \E c \in Clients : RelayPing(c) \/ PickClient(c)
  BY <1>3 DEF Deliver, RelayPing, StartRange, PickClient
<1>4. CASE UnregisterSteps
  BY <1>4 DEF UnregisterSteps, Lookup, Delete, CheckClosed, CloseChannel
<1>5. CASE Crash
  BY <1>5 DEF Crash
<1>6. QED
  BY <1>1, <1>2, <1>3, <1>4, <1>5 DEF Next, Handlers, RunLoop

\* Each step keeps the count of the goroutines within that of the signals.
LEMMA SignalsKept ==
    ASSUME SignalInv, Next
    PROVE  Counted' /\ InHand' /\ OnePerSignal'
<1>0. ~crashed /\ TypeOK /\ Counted /\ PingsLater
  BY DEF Next, SignalInv, HubInv
<1>1. ASSUME NEW c \in Clients,
             \/ Register(c) \/ ReadData(c) \/ WriteMessage(c) \/ ChannelClosed(c) \/ Quit(c)
      PROVE  Counted' /\ InHand' /\ OnePerSignal'
  <2>1. UNCHANGED <<run, todo, unreg, pinger, store, data, pings>>
    BY <1>1 DEF Register, ReadData, WriteMessage, ChannelClosed, Quit, hubVars
  <2>2. Counted' /\ HandedOut' = HandedOut
    BY <1>0, <2>1, CountsStay
  <2>3. QED
    BY <2>1, <2>2, LoopStays
<1>2. ASSUME NEW c \in Clients, StartLoop(c) PROVE Counted' /\ InHand' /\ OnePerSignal'
  <2>1. /\ UNCHANGED <<run, todo, unreg, store, data, pings>>
        /\ handler[c] = "setup" /\ pinger' = [pinger EXCEPT ![c] = "wait"]
    BY <1>2 DEF StartLoop, hubVars
  <2>2. Pinging' = Pinging /\ Relayed' = Relayed
    BY <1>0, <2>1 DEF Pinging, PingsLater, TypeOK, Relayed
  <2>3. Counted' /\ HandedOut' = HandedOut
    BY <1>0, <2>1, <2>2 DEF Counted, HandedOut
  <2>4. QED
    BY <2>1, <2>3, LoopStays
<1>3. ASSUME NEW c \in Clients, Tick(c) PROVE Counted' /\ InHand' /\ OnePerSignal'
  <2>1. UNCHANGED <<run, todo, unreg>>
    BY <1>3 DEF Tick, hubVars
  <2>2. Counted' /\ HandedOut' = HandedOut
    BY <1>0, <1>3, PingWaits
  <2>3. QED
    BY <2>1, <2>2, LoopStays
<1>4. ASSUME NEW c \in Clients, Unregister(c) PROVE Counted' /\ InHand' /\ OnePerSignal'
  <2>1. /\ UNCHANGED <<pinger, store, data, pings>>
        /\ ~RunAt("range")' /\ ~RunAt("send")'
        /\ \A f \in Executors \ {TheRunLoop, TheStopper} : unreg'[f] = unreg[f]
    BY <1>0, <1>4, ExecutorsDiffer DEF Unregister, RunTo, RunAt, TypeOK
  <2>2. Counted' /\ HandedOut' = HandedOut
    BY <1>0, <2>1, CountsStay
  <2>3. QED
    BY <2>1, <2>2, GoroutinesAside, LoopFreed
<1>5. CASE StoreData
  <2>1. UNCHANGED <<run, todo, unreg>>
    BY <1>5 DEF StoreData, hubVars
  <2>2. Counted' /\ HandedOut' = HandedOut
    BY <1>0, <1>5, BlockCounted
  <2>3. QED
    BY <2>1, <2>2, LoopStays
<1>6. CASE RelayBlock
  <2>1. Counted' /\ HandedOut' = HandedOut + 1
    BY <1>0, <1>6, BlockCounted
  <2>2. StartRange("block")
    BY <1>6 DEF RelayBlock
  <2>3. QED
    BY <2>1, <2>2, RangeStarts
<1>7. ASSUME NEW c \in Clients, RelayPing(c) PROVE Counted' /\ InHand' /\ OnePerSignal'
  <2>1. Counted' /\ HandedOut' = HandedOut + 1
    BY <1>0, <1>7, PingReceived
  <2>2. StartRange("ping")
    BY <1>7 DEF RelayPing
  <2>3. QED
    BY <2>1, <2>2, RangeStarts
<1>8. ASSUME NEW c \in Clients, PickClient(c) PROVE Counted' /\ InHand' /\ OnePerSignal'
  <2>1. Counted' /\ HandedOut' = HandedOut
    BY <1>0, <1>8, CountsStay DEF PickClient, userVars
  <2>2. QED
    BY <1>8, <2>1, PickKeeps
<1>9. CASE EndRange \/ RunQuits
  <2>1. /\ UNCHANGED <<unreg, pinger, store, data, pings>>
        /\ ~RunAt("range")' /\ ~RunAt("send")'
    BY <1>9 DEF EndRange, RunQuits, userVars, RunTo, RunAt
  <2>2. Counted' /\ HandedOut' = HandedOut
    BY <1>0, <2>1, CountsStay
  <2>3. QED
    BY <2>1, <2>2, LoopFreed
<1>10. CASE Deliver \/ Drop
  <2>1. UNCHANGED <<pinger, store, data, pings>>
    BY <1>10 DEF Deliver, Drop, userVars
  <2>2. Counted' /\ HandedOut' = HandedOut
    BY <1>0, <2>1, CountsStay
  <2>3. QED
    BY <1>10, <2>2, SendKeeps
<1>11. CASE StopCall
  <2>1. /\ UNCHANGED <<run, todo, pinger, store, data, pings>>
        /\ \A f \in Executors \ {TheRunLoop, TheStopper} : unreg'[f] = unreg[f]
    BY <1>0, <1>11, ExecutorsDiffer
       DEF StopCall, CallStop, StopReturns, StopClient, userVars, TypeOK
  <2>2. Counted' /\ HandedOut' = HandedOut
    BY <1>0, <2>1, CountsStay
  <2>3. QED
    BY <2>1, <2>2, GoroutinesAside, LoopStays
<1>12. CASE UnregisterSteps
  <2>1. /\ UNCHANGED <<todo, pinger, store, data, pings>>
        /\ run' = run \/ run' = [at |-> "select", client |-> Nobody]
        /\ \A f \in Executors : unreg'[f] # Idle => unreg[f] # Idle
    BY <1>0, <1>12, UnregistersAside DEF UnregisterSteps
  <2>2. Counted' /\ HandedOut' = HandedOut
    BY <1>0, <2>1, CountsStay
  <2>3. CASE run' = run
    BY <2>1, <2>2, <2>3, GoroutinesAside, LoopStays
  <2>4. CASE run' = [at |-> "select", client |-> Nobody]
    <3>1. ~RunAt("range")' /\ ~RunAt("send")'
      BY <2>4 DEF RunAt
    <3>2. QED
      BY <2>1, <2>2, <3>1, GoroutinesAside, LoopFreed
  <2>5. QED
    BY <2>1, <2>3, <2>4
<1>13. CASE Crash
  <2>1. /\ Pinging' = {} /\ pings' = 0 /\ store' = "idle"
        /\ ~RunAt("range")' /\ ~RunAt("send")'
    BY <1>13 DEF Crash, Pinging, RunTo, RunAt
  <2>2. \A c \in Clients : \A i \in 1..MaxGoroutines : unreg'[<<c, i>>] = Idle
    BY <1>13, ExecutorsDiffer DEF Crash
  <2>3. Counted'
    BY <2>1, FS_EmptySet DEF Counted
  <2>4. QED
    BY <2>1, <2>2, <2>3 DEF InHand, OnePerSignal
<1>14. QED
  BY <1>1, <1>2, <1>3, <1>4, <1>5, <1>6, <1>7, <1>8, <1>9, <1>10, <1>11, <1>12, <1>13
     DEF Next, Handlers, RunLoop

\* At first there is no signal and no goroutine.
LEMMA SignalInit == Init => SignalInv
<1> SUFFICES ASSUME Init PROVE SignalInv
  OBVIOUS
<1>1. /\ Pinging = {} /\ pings = 0 /\ store = "idle"
      /\ ~RunAt("range") /\ ~RunAt("send") /\ PingsLater
  BY DEF Init, Pinging, RunAt, PingsLater
<1>2. \A c \in Clients : \A i \in 1..MaxGoroutines : unreg[<<c, i>>] = Idle
  BY ExecutorsDiffer DEF Init
<1>3. Counted
  BY <1>1, FS_EmptySet DEF Counted
<1>4. QED
  BY <1>1, <1>2, <1>3, HubInit DEF SignalInv, InHand, OnePerSignal

\* Each step of the hub keeps the count.
LEMMA SignalNext == SignalInv /\ [Next]_vars => SignalInv'
<1>1. ASSUME SignalInv, Next PROVE SignalInv'
  BY <1>1, HubNext, PingsLaterKept, SignalsKept DEF SignalInv, HubInv
<1>2. ASSUME SignalInv, UNCHANGED vars PROVE SignalInv'
  <2>1. UNCHANGED <<run, todo, unreg, handler, pinger, store, data, pings>>
    BY <1>2 DEF vars, hubVars, userVars
  <2>2. HubInv' /\ PingsLater'
    BY <1>2, <2>1, HubNext DEF SignalInv, PingsLater
  <2>3. Counted' /\ HandedOut' = HandedOut
    BY <1>2, <2>1, CountsStay DEF SignalInv
  <2>4. InHand' /\ OnePerSignal'
    BY <1>2, <2>1, <2>3, LoopStays
  <2>5. QED
    BY <2>2, <2>3, <2>4 DEF SignalInv
<1>3. QED
  BY <1>1, <1>2

\* There is room for as many goroutines as there are signals.
LEMMA RoomLeft ==
    ASSUME SignalInv, MaxBlocks + MaxPings <= MaxGoroutines
    PROVE  NeverWaits
<1> SUFFICES ASSUME RunAt("send")
             PROVE  \E i \in 1..MaxGoroutines :
                      /\ unreg[<<run.client, i>>] = Idle
                      /\ \A j \in 1..(i - 1) : unreg[<<run.client, j>>] # Idle
  BY DEF NeverWaits
<1>1. /\ HandedOut \in Nat /\ HandedOut >= 1 /\ HandedOut <= MaxBlocks + MaxPings
      /\ MaxBlocks \in Nat /\ MaxPings \in Nat /\ MaxGoroutines \in Nat
  BY Numbers, HubAssumption DEF SignalInv, HubInv, InHand
<1>2. run.client \in Clients /\ Offered(run.client) = HandedOut - 1
  BY <1>1 DEF SignalInv, HubInv, Sending, TypeOK, Offered, HasYet
<1> DEFINE Room == {i \in 1..MaxGoroutines : unreg[<<run.client, i>>] = Idle}
<1>3. MaxGoroutines \in Room
  <2>1. MaxGoroutines \in 1..MaxGoroutines
    BY <1>1
  <2>2. unreg[<<run.client, MaxGoroutines>>] # Idle => MaxGoroutines <= HandedOut - 1
    BY <1>2, <2>1 DEF SignalInv, OnePerSignal
  <2>3. QED
    BY <1>1, <2>1, <2>2
<1>4. PICK i \in Room : \A j \in Room : ~(j < i)
  <2>1. Room \subseteq Nat /\ Room # {}
    BY <1>3
  <2> HIDE DEF Room
  <2>2. PICK i \in Room : \A j \in Room : <<j, i>> \notin OpToRel(<, Nat)
    BY <2>1, Zenon, NatLessThanWellFounded, WFMin
  <2>3. QED
    BY <2>1, <2>2 DEF OpToRel
<1>5. \A j \in 1..(i - 1) : j \in 1..MaxGoroutines /\ j < i
  BY <1>1
<1>6. QED
  BY <1>4, <1>5

\* The run loop waits for no client, however slow, and however many goroutines still
\* unregister it: there is one at most for each block stored and each ping sent, so that a
\* bound of that many goroutines leaves out no behaviour.
THEOREM LoopWaitsForNoClient ==
    ASSUME MaxBlocks + MaxPings <= MaxGoroutines
    PROVE  Spec => []NeverWaits
<1>1. Spec => []SignalInv
  BY SignalInit, SignalNext, PTL DEF Spec
<1>2. SignalInv => NeverWaits
  BY RoomLeft
<1>3. QED
  BY <1>1, <1>2, PTL
=============================================================================
