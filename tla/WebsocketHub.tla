---------------------------- MODULE WebsocketHub ----------------------------
(***************************************************************************)
(* A websocket hub (websocket.go, explorer/websocket.go), the handlers of  *)
(* its connections (WSBlockUpdater, rootWebsocket) and the block handler   *)
(* that stores new data for the pages (Store).  The second hub's module is *)
(* the same but for the signal of the mempool.  All channels of the hub    *)
(* and of its clients are unbuffered: a send and its receive are one step. *)
(* The map of clients is changed by the run loop, by goroutines that it    *)
(* starts for slow clients, and by Stop, without a lock.                   *)
(***************************************************************************)
EXTENDS Naturals

CONSTANTS
    Clients,       \* websocket connections
    Nobody,        \* no client
    MaxBlocks,     \* bound: blocks stored
    MaxPings,      \* bound: pings sent
    MaxGoroutines  \* bound: goroutines that unregister one slow client at once; as many as
                   \* signals leave nothing out (WebsocketHubProofs!LoopWaitsForNoClient)

ASSUME HubAssumption ==
    /\ Nobody \notin Clients
    /\ MaxBlocks \in Nat /\ MaxPings \in Nat /\ MaxGoroutines \in Nat

VARIABLES
    \* the hub
    clients,      \* the keys of the map
    closed,       \* clients whose channel is closed
    run,          \* what the run loop does
    signal,       \* the signal it hands out
    todo,         \* clients the range statement has not come to
    quitClosed,   \* quitWSHandler is closed
    stop,         \* what the caller of Stop does
    unreg,        \* unregisterClient, by who executes it
    dropped,      \* a client was too slow for a signal
    crashed,      \* the process is gone
    \* its users
    handler,      \* what a connection's handler does
    pinger,       \* what its ping goroutine does
    store,        \* what the block handler does
    data,         \* the last block stored for the pages
    shown,        \* the last block written to each connection
    due,          \* the block the hub signalled last, while it was registered
    pings         \* pings sent

hubVars == <<clients, closed, run, signal, todo, quitClosed, stop, unreg, dropped, crashed>>
userVars == <<handler, pinger, store, data, shown, due, pings>>
vars == <<hubVars, userVars>>

Blocks == 0..MaxBlocks
Signals == {"block", "ping"}

\* Who executes unregisterClient: the run loop, Stop, and the goroutines started for
\* each slow client.
TheRunLoop == <<Nobody, 1>>
TheStopper == <<Nobody, 2>>
Executors == (Clients \X (1..MaxGoroutines)) \union {TheRunLoop, TheStopper}

Idle == [client |-> Nobody, step |-> "idle"]
Unregistrations ==
    {Idle} \union [client : Clients, step : {"lookup", "delete", "check", "close"}]
Unregistering(c) == [client |-> c, step |-> "lookup"]

Init ==
    /\ clients = {} /\ closed = {}
    /\ run = [at |-> "select", client |-> Nobody]
    /\ signal = "ping" /\ todo = {}
    /\ quitClosed = FALSE /\ dropped = FALSE /\ crashed = FALSE
    /\ stop = "none"
    /\ unreg = [e \in Executors |-> Idle]
    /\ handler = [c \in Clients |-> "new"]
    /\ pinger = [c \in Clients |-> "none"]
    /\ store = "idle" /\ data = 0
    /\ shown = [c \in Clients |-> 0] /\ due = [c \in Clients |-> 0]
    /\ pings = 0

RunAt(place) == run.at = place
RunTo(place, c) == run' = [at |-> place, client |-> c]
Move(c, place) == handler' = [handler EXCEPT ![c] = place]

-----------------------------------------------------------------------------
(* A connection: WSBlockUpdater and rootWebsocket.                         *)

\* RegisterClient: the run loop takes the client of a new connection into the map.
Register(c) ==
    /\ handler[c] = "new" /\ RunAt("select")
    /\ clients' = clients \union {c}
    /\ Move(c, "setup")
    /\ UNCHANGED <<closed, run, signal, todo, quitClosed, stop, unreg, dropped, crashed,
                   pinger, store, data, shown, due, pings>>

\* The ticker and the ping goroutine are started; the handler comes to its select.
StartLoop(c) ==
    /\ handler[c] = "setup"
    /\ Move(c, "select")
    /\ pinger' = [pinger EXCEPT ![c] = "wait"]
    /\ UNCHANGED <<hubVars, store, data, shown, due, pings>>

\* The ping goroutine hears the ticker, until the handler has stopped it.
Tick(c) ==
    /\ pinger[c] = "wait" /\ handler[c] # "done" /\ pings < MaxPings
    /\ pinger' = [pinger EXCEPT ![c] = "send"]
    /\ pings' = pings + 1
    /\ UNCHANGED <<hubVars, handler, store, data, shown, due>>

\* A new block is read under the read lock, which is held while a message is written.
ReadData(c) ==
    /\ handler[c] = "signalled"
    /\ Move(c, "write")
    /\ shown' = [shown EXCEPT ![c] = data]
    /\ UNCHANGED <<hubVars, pinger, store, data, due, pings>>

\* The message is written, or the connection fails and the handler returns.
WriteMessage(c) ==
    /\ handler[c] \in {"write", "ping"}
    /\ Move(c, "select") \/ Move(c, "deferred")
    /\ UNCHANGED <<hubVars, pinger, store, data, shown, due, pings>>

\* The channel is closed: UnregisterClient is called here, and again on return.
ChannelClosed(c) ==
    /\ handler[c] = "select" /\ c \in closed
    /\ Move(c, "leave")
    /\ UNCHANGED <<hubVars, pinger, store, data, shown, due, pings>>

\* quitWSHandler is closed, or this handler and not the run loop receives the one
\* value that Stop sends.
Quit(c) ==
    /\ handler[c] = "select" /\ (quitClosed \/ stop = "send")
    /\ Move(c, "deferred")
    /\ stop' = IF quitClosed THEN stop ELSE "range"
    /\ UNCHANGED <<clients, closed, run, signal, todo, quitClosed, unreg, dropped, crashed,
                   pinger, store, data, shown, due, pings>>

\* Faulty: it is unregistered beside the loop.
UnregisterBeside(c) ==
    /\ handler[c] \in {"leave", "deferred"} /\ RunAt("select")
    /\ unreg[TheRunLoop] = Idle
    /\ unreg' = [unreg EXCEPT ![TheRunLoop] = Unregistering(c)]
    /\ Move(c, IF handler[c] = "leave" THEN "deferred" ELSE "done")
    /\ UNCHANGED <<clients, closed, run, signal, todo, quitClosed, stop, dropped, crashed,
                   pinger, store, data, shown, due, pings>>

\* UnregisterClient: the run loop receives the client and unregisters it.
Unregister(c) ==
    /\ handler[c] \in {"leave", "deferred"} /\ RunAt("select")
    /\ RunTo("unregister", Nobody)
    /\ unreg' = [unreg EXCEPT ![TheRunLoop] = Unregistering(c)]
    /\ Move(c, IF handler[c] = "leave" THEN "deferred" ELSE "done")
    /\ UNCHANGED <<clients, closed, signal, todo, quitClosed, stop, dropped, crashed,
                   pinger, store, data, shown, due, pings>>

-----------------------------------------------------------------------------
(* The block handler: Store of web.go and of explorer.go.                  *)

\* The data is replaced under the lock, once nobody reads it; the signal follows.
StoreData ==
    /\ store = "idle" /\ data < MaxBlocks
    /\ \A c \in Clients : handler[c] \notin {"write", "ping"}
    /\ data' = data + 1
    /\ store' = "relay"
    /\ UNCHANGED <<hubVars, handler, pinger, shown, due, pings>>

-----------------------------------------------------------------------------
(* The run loop.                                                           *)

\* The loop receives a signal and begins to hand it out.
StartRange(sig) ==
    /\ RunAt("select")
    /\ signal' = sig
    /\ todo' = clients
    /\ RunTo("range", Nobody)
    /\ UNCHANGED <<clients, closed, quitClosed, stop, unreg, dropped, crashed,
                   handler, data, shown>>

RelayBlock ==
    /\ store = "relay"
    /\ StartRange("block")
    /\ store' = "idle"
    /\ due' = [c \in Clients |-> IF c \in clients THEN data ELSE due[c]]
    /\ UNCHANGED <<pinger, pings>>

RelayPing(c) ==
    /\ pinger[c] = "send"
    /\ StartRange("ping")
    /\ pinger' = [pinger EXCEPT ![c] = "wait"]
    /\ UNCHANGED <<store, due, pings>>

\* The range statement yields a client that is still in the map, in any order.
PickClient(c) ==
    /\ RunAt("range") /\ c \in todo \intersect clients
    /\ todo' = todo \ {c}
    /\ RunTo("send", c)
    /\ UNCHANGED <<clients, closed, signal, quitClosed, stop, unreg, dropped, crashed,
                   userVars>>

EndRange ==
    /\ RunAt("range") /\ todo \intersect clients = {}
    /\ todo' = {} /\ signal' = "ping"
    /\ RunTo("select", Nobody)
    /\ UNCHANGED <<clients, closed, quitClosed, stop, unreg, dropped, crashed,
                   userVars>>

\* A client that waits in its select gets the signal.
Deliver ==
    /\ RunAt("send") /\ run.client \notin closed
    /\ handler[run.client] = "select"
    /\ Move(run.client, IF signal = "block" THEN "signalled" ELSE "ping")
    /\ RunTo("range", Nobody)
    /\ UNCHANGED <<clients, closed, signal, todo, quitClosed, stop, unreg, dropped, crashed,
                   pinger, store, data, shown, due, pings>>

\* Faulty: a client that does not wait is passed over.
PassOver ==
    /\ RunAt("send") /\ run.client \notin closed
    /\ handler[run.client] # "select"
    /\ RunTo("range", Nobody)
    /\ dropped' = TRUE
    /\ UNCHANGED <<clients, closed, signal, todo, quitClosed, stop, unreg, crashed,
                   userVars>>

\* Faulty: the send has no default case.
SendOnly == Deliver

\* A client that does not is unregistered, in a goroutine: the first that is free, as
\* goroutines of one client are alike.
Drop ==
    /\ RunAt("send") /\ run.client \notin closed
    /\ handler[run.client] # "select"
    /\ \E i \in 1..MaxGoroutines :
         /\ unreg[<<run.client, i>>] = Idle
         /\ \A j \in 1..(i - 1) : unreg[<<run.client, j>>] # Idle
         /\ unreg' = [unreg EXCEPT ![<<run.client, i>>] = Unregistering(run.client)]
    /\ RunTo("range", Nobody)
    /\ dropped' = TRUE
    /\ UNCHANGED <<clients, closed, signal, todo, quitClosed, stop, crashed, userVars>>

\* The loop receives from quitWSHandler, closes it and ends.
RunQuits ==
    /\ RunAt("select") /\ stop = "send"
    /\ RunTo("ended", Nobody)
    /\ quitClosed' = TRUE
    /\ stop' = "range"
    /\ UNCHANGED <<clients, closed, signal, todo, unreg, dropped, crashed, userVars>>

-----------------------------------------------------------------------------
(* Stop.                                                                   *)

CallStop ==
    /\ stop = "none"
    /\ stop' = "send"
    /\ UNCHANGED <<clients, closed, run, signal, todo, quitClosed, unreg, dropped, crashed,
                   userVars>>

\* Stop's own range over the map, one client after another.
StopClient(c) ==
    /\ stop = "range" /\ unreg[TheStopper] = Idle /\ c \in clients
    /\ unreg' = [unreg EXCEPT ![TheStopper] = Unregistering(c)]
    /\ UNCHANGED <<clients, closed, run, signal, todo, quitClosed, stop, dropped, crashed,
                   userVars>>

StopReturns ==
    /\ stop = "range" /\ unreg[TheStopper] = Idle /\ clients = {}
    /\ stop' = "done"
    /\ UNCHANGED <<clients, closed, run, signal, todo, quitClosed, unreg, dropped, crashed,
                   userVars>>

-----------------------------------------------------------------------------
(* unregisterClient and safeClose, step by step.                           *)

\* When the run loop has unregistered a client it returns to its select.
Finish(e) ==
    /\ unreg' = [unreg EXCEPT ![e] = Idle]
    /\ IF e = TheRunLoop THEN RunTo("select", Nobody) ELSE UNCHANGED run

Proceed(e, step) ==
    /\ unreg' = [unreg EXCEPT ![e].step = step]
    /\ UNCHANGED run

\* Faulty: the client stays in the map.
LookupOnly(e) ==
    /\ unreg[e].step = "lookup"
    /\ IF unreg[e].client \in clients THEN Proceed(e, "check") ELSE Finish(e)
    /\ UNCHANGED <<clients, closed, signal, todo, quitClosed, stop, dropped, crashed,
                   userVars>>

Lookup(e) ==
    /\ unreg[e].step = "lookup"
    /\ IF unreg[e].client \in clients THEN Proceed(e, "delete") ELSE Finish(e)
    /\ UNCHANGED <<clients, closed, signal, todo, quitClosed, stop, dropped, crashed,
                   userVars>>

Delete(e) ==
    /\ unreg[e].step = "delete"
    /\ clients' = clients \ {unreg[e].client}
    /\ Proceed(e, "check")
    /\ UNCHANGED <<closed, signal, todo, quitClosed, stop, dropped, crashed, userVars>>

\* safeClose finds the channel closed and leaves it, or goes on to close it.  Its own
\* receive does not wait and meets no sender.
CheckClosed(e) ==
    /\ unreg[e].step = "check"
    /\ IF unreg[e].client \in closed THEN Finish(e) ELSE Proceed(e, "close")
    /\ UNCHANGED <<clients, closed, signal, todo, quitClosed, stop, dropped, crashed,
                   userVars>>

CloseChannel(e) ==
    /\ unreg[e].step = "close" /\ unreg[e].client \notin closed
    /\ closed' = closed \union {unreg[e].client}
    /\ Finish(e)
    /\ UNCHANGED <<clients, signal, todo, quitClosed, stop, dropped, crashed, userVars>>

-----------------------------------------------------------------------------
(* The ends of the process.                                                *)

\* Two goroutines use the map at once and one of them writes, by deleting a client or, in
\* the run loop, by registering one: the runtime may notice.
MapRace ==
    \E e \in Executors :
        \/ /\ unreg[e].step = "delete"
           /\ \/ \E f \in Executors \ {e} : unreg[f].step \in {"lookup", "delete"}
              \/ RunAt("range")
              \/ stop = "range" /\ e # TheStopper /\ unreg[TheStopper] = Idle
        \/ /\ unreg[e].step \in {"lookup", "delete"}
           /\ RunAt("select") /\ \E c \in Clients : handler[c] = "new"

\* close of a closed channel.
DoubleClose ==
    \E e \in Executors : unreg[e].step = "close" /\ unreg[e].client \in closed

\* send on a closed channel.
SendOnClosed == RunAt("send") /\ run.client \in closed

\* Nothing is left of the process; what led to its end is remembered.
Crash ==
    /\ MapRace \/ DoubleClose \/ SendOnClosed
    /\ crashed' = TRUE
    /\ UNCHANGED <<stop, dropped>>
    /\ clients' = {} /\ closed' = {} /\ todo' = {}
    /\ RunTo("ended", Nobody) /\ signal' = "ping" /\ quitClosed' = FALSE
    /\ unreg' = [e \in Executors |-> Idle]
    /\ handler' = [c \in Clients |-> "done"]
    /\ pinger' = [c \in Clients |-> "none"]
    /\ store' = "idle" /\ data' = 0 /\ pings' = 0
    /\ shown' = [c \in Clients |-> 0] /\ due' = [c \in Clients |-> 0]

-----------------------------------------------------------------------------
Handlers ==
    \E c \in Clients :
        \/ Register(c) \/ StartLoop(c) \/ Tick(c) \/ ReadData(c)
        \/ WriteMessage(c) \/ ChannelClosed(c) \/ Quit(c) \/ Unregister(c)

RunLoop ==
    \/ RelayBlock \/ EndRange \/ Deliver \/ Drop \/ RunQuits
    \/ \E c \in Clients : RelayPing(c) \/ PickClient(c)

StopCall == CallStop \/ StopReturns \/ \E c \in Clients : StopClient(c)

UnregisterSteps ==
    \E e \in Executors : Lookup(e) \/ Delete(e) \/ CheckClosed(e) \/ CloseChannel(e)

Next ==
    /\ ~crashed
    /\ Handlers \/ StoreData \/ RunLoop \/ StopCall \/ UnregisterSteps \/ Crash

Spec == Init /\ [][Next]_vars

\* Goroutines that can go on do; a write ends within wsWriteTimeout, and one that
\* wants to be received by the run loop is in the end.  What cannot go on because its
\* channel is closed panics.  Connections, pings, blocks and Stop come if they like.
Fairness ==
    /\ WF_vars(~crashed /\ RunLoop)
    /\ WF_vars(~crashed /\ (DoubleClose \/ SendOnClosed) /\ Crash)
    /\ \A e \in Executors :
         WF_vars(~crashed /\ (Lookup(e) \/ Delete(e) \/ CheckClosed(e) \/ CloseChannel(e)))
    /\ SF_vars(~crashed /\ RelayBlock)
    /\ \A c \in Clients :
         /\ WF_vars(~crashed /\ (StartLoop(c) \/ ReadData(c) \/ WriteMessage(c)))
         /\ WF_vars(~crashed /\ ChannelClosed(c))
         /\ SF_vars(~crashed /\ Unregister(c))

FairSpec == Spec /\ Fairness

-----------------------------------------------------------------------------
\* Every variable has its type, and the run loop is at unregisterClient exactly while
\* it executes it: it hands out no signal then.
TypeOK ==
    /\ clients \subseteq Clients /\ closed \subseteq Clients
    /\ run \in [at : {"select", "range", "send", "unregister", "ended"},
                client : Clients \union {Nobody}]
    /\ signal \in Signals /\ todo \subseteq Clients
    /\ quitClosed \in BOOLEAN /\ dropped \in BOOLEAN /\ crashed \in BOOLEAN
    /\ stop \in {"none", "send", "range", "done"}
    /\ unreg \in [Executors -> Unregistrations]
    /\ ~crashed => (RunAt("unregister") <=> unreg[TheRunLoop] # Idle)
    /\ handler \in [Clients -> {"new", "setup", "select", "signalled",
                                "ping", "write", "leave", "deferred", "done"}]
    /\ pinger \in [Clients -> {"none", "wait", "send"}]
    /\ store \in {"idle", "relay"}
    /\ data \in Blocks /\ shown \in [Clients -> Blocks] /\ due \in [Clients -> Blocks]
    /\ pings \in 0..MaxPings

\* A client in the map has an open channel: whoever unregisters it takes it out
\* before the channel is closed, also when several do so at once.
RegisteredOpen == clients \intersect closed = {}

\* No registered client silently misses a block: when the loop is back in its select
\* a client has been written what was signalled to it, is about to, or is being
\* unregistered.  The code: a signal is not kept for a client that does not wait.
NoBlockMissed ==
    (RunAt("select") /\ ~crashed) =>
        \A c \in clients :
            \/ shown[c] >= due[c]
            \/ handler[c] \in {"signalled", "deferred", "done"}
            \/ \E e \in Executors : unreg[e].client = c

\* While the clients keep up and nobody calls Stop, the hub does not crash: the map is
\* used by the run loop alone and no channel is closed twice.
SafeWhileKeepingUp == crashed => dropped \/ stop # "none"

\* A block stored for the pages is signalled and the block handler returns: the loop
\* waits for no client, which may itself be waiting for the loop to take it out of the
\* map.  Only a loop that Stop has ended keeps the block handler waiting.
StoreReturns == store = "relay" ~> store = "idle" \/ RunAt("ended") \/ crashed

\* Stop's comment (websocket.go:116): it kills the run loop.
StopEndsRun == stop = "done" => RunAt("ended")
=============================================================================
