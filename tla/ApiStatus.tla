------------------------------ MODULE ApiStatus ------------------------------
(***************************************************************************)
(* How the API learns whether the explorer is up to date.                  *)
(*                                                                         *)
(* /status shows the node's height, the height of the stored data, and     *)
(* whether they agree.  The heights come over two buffered channels:       *)
(* ProcessBlocks reports a block's height when all handlers have run,      *)
(* SQLite's Store does so in the middle of the second handler.             *)
(* StatusNtfnHandler takes from both, in no fixed order.                   *)
(*                                                                         *)
(* An operator whose comment begins with "Faulty" is part of no            *)
(* specification: see ChainFollow.                                         *)
(***************************************************************************)
EXTENDS Integers, Sequences, FiniteSetsExt

CONSTANTS
    StartHeight,  \* the height of the node and of SQLite at registration
    MaxHeight,    \* bound: the greatest height of the node
    MaxReorgs,    \* bound: how often the node reorganizes its chain
    MaxFailures,  \* bound: how often a call of the node or of SQLite fails
    Cap           \* blockConnChanBuffer, the capacity of both channels

ASSUME HeightsAssumption == StartHeight \in Nat /\ MaxHeight \in Nat
                            /\ StartHeight <= MaxHeight
ASSUME BoundsAssumption == MaxReorgs \in Nat /\ MaxFailures \in Nat /\ Cap \in Nat \ {0}

VARIABLES
    nodeHeight, reorgs,     \* the node's height, and how often it reorganized
    failures,               \* how often a call of the node or of SQLite failed
    queue, pc, cur,         \* collectionQueue.q; the place of ProcessBlocks
    summaryHeight,          \* DB.dbSummaryHeight: the height of SQLite's best row
    nodeChan, dbChan,       \* updateStatusNodeHeight, updateStatusDBHeight
    main, initial,          \* mainCore: its place, the height it sends
    status,                 \* appContext.Status
    reading                 \* StatusNtfnHandler: the height it has received, that of
                            \* the summary it has read, and the best height (bdHeight)

nodeVars == <<nodeHeight, reorgs>>
workerVars == <<queue, pc, cur>>
mainVars == <<main, initial>>
vars == <<nodeHeight, reorgs, failures, queue, pc, cur, summaryHeight, nodeChan,
          dbChan, main, initial, status, reading>>

AllHeights == 0..MaxHeight
NotReading == [height |-> -1, summary |-> -1, best |-> -1]

\* A notified block: "block" is one on top of the chain, "side" and "head" belong to
\* a reorganization, "head" is its last.
Block(h, kind) == [height |-> h, kind |-> kind]

\* mainCore has just registered for notifications.
Init ==
    /\ nodeHeight = StartHeight /\ reorgs = 0 /\ failures = 0
    /\ queue = <<>> /\ pc = "idle" /\ cur = Block(StartHeight, "block")
    /\ summaryHeight = StartHeight
    /\ nodeChan = <<>> /\ dbChan = <<>>
    /\ main = "newContext" /\ initial = 0
    /\ status = [Height |-> 0, DBHeight |-> 0, Ready |-> FALSE]
    /\ reading = NotReading

-----------------------------------------------------------------------------
(***************************************************************************)
(* The node and ProcessBlocks.                                             *)
(***************************************************************************)
NodeExtend ==
    /\ nodeHeight < MaxHeight
    /\ nodeHeight' = nodeHeight + 1
    /\ queue' = Append(queue, Block(nodeHeight + 1, "block"))
    /\ UNCHANGED <<reorgs, failures, pc, cur, summaryHeight, nodeChan, dbChan,
                   mainVars, status, reading>>

\* The chain above height k is replaced by one that ends at height h.
NodeReorg(k, h) ==
    /\ reorgs < MaxReorgs /\ reorgs' = reorgs + 1
    /\ k < nodeHeight /\ nodeHeight <= h
    /\ nodeHeight' = h
    /\ queue' = queue \o [i \in 1..(h - k) |->
                             Block(k + i, IF k + i = h THEN "head" ELSE "side")]
    /\ UNCHANGED <<failures, pc, cur, summaryHeight, nodeChan, dbChan, mainVars,
                   status, reading>>

WorkerAt(place) == pc = place

\* A call of the node or of SQLite returns an error.
Fails == failures < MaxFailures /\ failures' = failures + 1

\* The blocks of a reorganization are held back by the monitors until its head.
Dequeue ==
    /\ WorkerAt("idle") /\ queue # <<>>
    /\ cur' = Head(queue) /\ queue' = Tail(queue)
    /\ pc' = CASE Head(queue).kind = "block" -> "store"
               [] Head(queue).kind = "side" -> "report"
               [] Head(queue).kind = "head" -> "switch"
    /\ UNCHANGED <<nodeVars, failures, summaryHeight, nodeChan, dbChan, mainVars,
                   status, reading>>

\* StoreBlockSummary never lowers the height.
Stored(h) == Max({summaryHeight, h})

\* Faulty: the height is sent whether or not there is room.
OfferAlways(chan, value) == Append(chan, value)

\* select with a default: a full channel drops the value.
Offer(chan, value) == IF Len(chan) < Cap THEN Append(chan, value) ELSE chan

\* Faulty: the height is sent before the row is stored.
StoreSendsFirst ==
    /\ WorkerAt("store")
    /\ dbChan' = Offer(dbChan, cur.height)
    /\ pc' = "switch"
    /\ UNCHANGED <<nodeVars, failures, queue, cur, summaryHeight, nodeChan, mainVars,
                   status, reading>>

\* DBDataSaver.Store, left out if the block's data could not be collected.
Store ==
    /\ WorkerAt("store")
    /\ \/ summaryHeight' = Stored(cur.height) /\ pc' = "send" /\ UNCHANGED failures
       \/ Fails /\ pc' = "report" /\ UNCHANGED summaryHeight
    /\ UNCHANGED <<nodeVars, queue, cur, nodeChan, dbChan, mainVars, status, reading>>

\* Faulty: the second half of Store is forgotten.
SkipDBHeight ==
    /\ WorkerAt("send")
    /\ pc' = "report"
    /\ UNCHANGED <<nodeVars, failures, queue, cur, summaryHeight, nodeChan, dbChan,
                   mainVars, status, reading>>

SendDBHeight ==
    /\ WorkerAt("send")
    /\ dbChan' = Offer(dbChan, cur.height)
    /\ pc' = "report"
    /\ UNCHANGED <<nodeVars, failures, queue, cur, summaryHeight, nodeChan, mainVars,
                   status, reading>>

\* SQLite's switchToSideChain stores row by row, with StoreBlockSummary, which sends no
\* height.  A row that cannot be collected is skipped; without the head the monitor
\* panics, which ChainFollow has.
SwitchToSideChain ==
    /\ WorkerAt("switch")
    /\ \/ /\ \E row \in summaryHeight + 1..cur.height - 1 : summaryHeight' = row
          /\ UNCHANGED pc
       \/ summaryHeight' = Stored(cur.height) /\ pc' = "report"
    /\ UNCHANGED <<nodeVars, failures, queue, cur, nodeChan, dbChan, mainVars, status,
                   reading>>

SendNodeHeight ==
    /\ WorkerAt("report")
    /\ nodeChan' = Offer(nodeChan, cur.height)
    /\ pc' = "idle"
    /\ UNCHANGED <<nodeVars, failures, queue, cur, summaryHeight, dbChan, mainVars,
                   status, reading>>

-----------------------------------------------------------------------------
(***************************************************************************)
(* mainCore, which goes on while blocks already arrive.                    *)
(***************************************************************************)

\* newContext: an error of GetBlockCount is ignored and its 0 taken.
NewContext ==
    /\ main = "newContext"
    /\ main' = "getHeight"
    /\ \/ status' = [status EXCEPT !.Height = nodeHeight] /\ UNCHANGED failures
       \/ Fails /\ status' = [status EXCEPT !.Height = 0]
    /\ UNCHANGED <<nodeVars, workerVars, summaryHeight, nodeChan, dbChan, initial,
                   reading>>

\* "Initial setting of db_height.": the height is read, then sent.
GetHeight ==
    /\ main = "getHeight"
    /\ main' = "sendHeight" /\ initial' = summaryHeight
    /\ UNCHANGED <<nodeVars, failures, workerVars, summaryHeight, nodeChan, dbChan,
                   status, reading>>

SendInitialHeight ==
    /\ main = "sendHeight" /\ Len(dbChan) < Cap
    /\ main' = "done" /\ dbChan' = Append(dbChan, initial)
    /\ UNCHANGED <<nodeVars, failures, workerVars, summaryHeight, nodeChan, initial,
                   status, reading>>

-----------------------------------------------------------------------------
(***************************************************************************)
(* StatusNtfnHandler, which mainCore starts after newContext.              *)
(***************************************************************************)
Selects == main # "newContext" /\ reading = NotReading

\* Ready is left as it is, unless GetConnectionCount fails.
TakeNodeHeight ==
    /\ Selects /\ nodeChan # <<>>
    /\ nodeChan' = Tail(nodeChan)
    /\ \/ status' = [status EXCEPT !.Height = Head(nodeChan)] /\ UNCHANGED failures
       \/ Fails /\ status' = [status EXCEPT !.Height = Head(nodeChan), !.Ready = FALSE]
    /\ UNCHANGED <<nodeVars, workerVars, summaryHeight, dbChan, mainVars, reading>>

\* GetBestBlockSummary; the height is forgotten when it fails.
TakeDBHeight ==
    /\ Selects /\ dbChan # <<>>
    /\ dbChan' = Tail(dbChan)
    /\ \/ reading' = [height |-> Head(dbChan), summary |-> summaryHeight, best |-> -1]
          /\ UNCHANGED failures
       \/ Fails /\ UNCHANGED reading
    /\ UNCHANGED <<nodeVars, workerVars, summaryHeight, nodeChan, mainVars, status>>

\* GetHeight, once the summary is there; no lock is held over the two reads.
ReadHeight ==
    /\ reading # NotReading /\ reading.best = -1
    /\ reading' = [reading EXCEPT !.best = summaryHeight]
    /\ UNCHANGED <<nodeVars, failures, workerVars, summaryHeight, nodeChan, dbChan,
                   mainVars, status>>

\* Faulty: the height received is not compared with those of the store.
UpdateWithoutCheck ==
    /\ reading.best # -1
    /\ reading' = NotReading
    /\ status' = [status EXCEPT !.DBHeight = reading.height,
                                !.Ready = status.Height = reading.height]
    /\ UNCHANGED <<nodeVars, failures, workerVars, summaryHeight, nodeChan, dbChan,
                   mainVars>>

\* The decision, with statusMtx, from what has been read: SQLite may be further by now.
Update ==
    /\ reading.best # -1
    /\ reading' = NotReading
    /\ status' =
         IF reading.summary = reading.best /\ reading.height = reading.best
           THEN [status EXCEPT !.DBHeight = reading.height,
                               !.Ready = status.Height = reading.height]
           ELSE [status EXCEPT !.Ready = FALSE]
    /\ UNCHANGED <<nodeVars, failures, workerVars, summaryHeight, nodeChan, dbChan,
                   mainVars>>

-----------------------------------------------------------------------------
ProcessBlocks == \/ Dequeue \/ Store \/ SendDBHeight
                 \/ SwitchToSideChain \/ SendNodeHeight
MainCore == NewContext \/ GetHeight \/ SendInitialHeight
StatusNtfnHandler == TakeNodeHeight \/ TakeDBHeight \/ ReadHeight \/ Update

Next ==
    \/ NodeExtend
    \/ \E k, h \in AllHeights : NodeReorg(k, h)
    \/ ProcessBlocks
    \/ MainCore
    \/ StatusNtfnHandler

Spec == Init /\ [][Next]_vars

\* Three goroutines that are always scheduled again.
FairSpec ==
    Spec /\ WF_vars(ProcessBlocks) /\ WF_vars(MainCore) /\ WF_vars(StatusNtfnHandler)

-----------------------------------------------------------------------------
(***************************************************************************)
(* Properties.                                                             *)
(***************************************************************************)
Chan == {c \in Seq(AllHeights) : Len(c) <= Cap}

\* Every variable has its type; no channel holds more than its capacity.
TypeOK ==
    /\ nodeHeight \in AllHeights /\ reorgs \in 0..MaxReorgs
    /\ failures \in 0..MaxFailures
    /\ queue \in Seq([height : AllHeights, kind : {"block", "side", "head"}])
    /\ pc \in {"idle", "store", "send", "switch", "report"}
    /\ cur \in [height : AllHeights, kind : {"block", "side", "head"}]
    /\ summaryHeight \in AllHeights
    /\ nodeChan \in Chan /\ dbChan \in Chan
    /\ main \in {"newContext", "getHeight", "sendHeight", "done"}
    /\ initial \in AllHeights
    /\ status \in [Height : AllHeights, DBHeight : AllHeights, Ready : BOOLEAN]
    /\ reading \in [height : AllHeights, summary : AllHeights,
                    best : AllHeights \union {-1}] \union {NotReading}

\* No height is reported for data that SQLite does not hold yet: neither by the
\* status, nor on the way to it (DBDataSaver.Store sends after it has stored).
NothingBeforeItsRow ==
    /\ status.DBHeight <= summaryHeight
    /\ \A i \in 1..Len(dbChan) : dbChan[i] <= summaryHeight
    /\ reading.height <= summaryHeight
    /\ initial <= summaryHeight
    /\ pc = "send" => cur.height <= summaryHeight

\* The API is never declared ready on old news: if SQLite has a greater height by then
\* than the one declared, a height is still to come that makes StatusNtfnHandler look
\* again.  It reads the best row twice without a lock and decides later, heights arrive
\* out of order, and full channels drop them.  Only the head of a reorganization is
\* stored without a word.
ReadyOnLastNews ==
    [][~status.Ready /\ status'.Ready =>
          /\ status'.Height = status'.DBHeight
          /\ \/ status'.DBHeight = summaryHeight
             \/ pc = "send" \/ dbChan # <<>>
             \/ reorgs > 0]_vars

\* Everything that was reported has been dealt with.
Settled ==
    /\ queue = <<>> /\ pc = "idle" /\ main = "done"
    /\ nodeChan = <<>> /\ dbChan = <<>> /\ reading = NotReading

\* Neither a reorganization, whose head is stored but not reported, nor a failure.
Undisturbed == reorgs = 0 /\ failures = 0

\* "handler to keep /status up-to-date" (mainCore): when nothing is under way the
\* height shown is that of the data.
UpToDate == Settled /\ Undisturbed => status.DBHeight = summaryHeight

\* "if DB height agrees with node height, then we're ready" (StatusNtfnHandler): when
\* nothing is under way, and the heights shown agree, the API is ready.
ReadyWhenEqual == Settled /\ status.Height = status.DBHeight => status.Ready

\* Every stored height comes to be shown, unless it is overtaken by a greater one: no
\* interleaving of the sends, the initial height and the reads loses the last one.
HeightsShown ==
    \A h \in AllHeights : summaryHeight = h ~> status.DBHeight >= h \/ ~Undisturbed
=============================================================================
