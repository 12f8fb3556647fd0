---------------------------- MODULE ChainFollow ----------------------------
(***************************************************************************)
(* How hcexplorer follows the best chain of an hcd node while it runs.     *)
(*                                                                         *)
(* hcd announces every change of its best chain.  OnBlockConnected queues  *)
(* the block, OnReorganization hands the new tip to three ReorgHandlers.   *)
(* ProcessBlocks takes one block at a time and calls, in this order, the   *)
(* block handlers of three chain monitors:                                 *)
(*                                                                         *)
(*   "stakedb"    connects the block to the stake database;                *)
(*   "blockdata"  collects the block's data and gives it to the savers:    *)
(*                PostgreSQL, SQLite and the web pages;                    *)
(*   "wired"      rewrites the SQLite rows of a reorganization.            *)
(*                                                                         *)
(* The call of a handler is synchronous: module BlockHandoff models the    *)
(* channels that make it so and shows that it behaves like the call that   *)
(* is made here in one step.                                               *)
(*                                                                         *)
(* An operator whose comment begins with "Faulty" is part of no            *)
(* specification: it is the operator after it with a plausible mistake, to *)
(* see that a property notices.                                            *)
(***************************************************************************)
EXTENDS BlockTree

CONSTANTS
    StartBlocks,   \* the blocks at which the start-up synchronization may end
    MaxTips,       \* bound: how often the node's best block is set, start included
    ReorgBuffer,   \* reorgBuffer, the capacity of each reorg channel
    RpcMayFail,    \* whether an RPC to the node may return an error
    Quiet          \* what is assumed of the node's timing, see below

(***************************************************************************)
(* The code sets no limit to what the node does while a block is handled.  *)
(* Quiet names the moments at which a run assumes the node stays quiet:    *)
(*   "drained"  a reorganization starts only after all that was announced  *)
(*              before has been handled;                                   *)
(*   "picked"   the first block of a reorganization arrives only after the *)
(*              three ReorgHandlers have received the reorganization;      *)
(*   "steady"   the best block does not change between GetBlockCount and   *)
(*              GetBestBlockHash of one block's collection.                *)
(***************************************************************************)
Timings == {"drained", "picked", "steady"}

ASSUME StartAssumption == StartBlocks \subseteq Blocks
ASSUME BoundsAssumption == MaxTips \in Nat \ {0} /\ ReorgBuffer \in Nat
ASSUME FlagsAssumption == RpcMayFail \in BOOLEAN /\ Quiet \subseteq Timings

Monitor == {"stakedb", "blockdata", "wired"}
NoRow == [hash |-> "none"]

VARIABLES
    tips,          \* node: all best blocks so far, the current one last
    inFlight,      \* node: notifications sent, not yet delivered
    queue,         \* collectionQueue.q
    pc,            \* where ProcessBlocks is
    cur,           \* the block it handles
    reorgChan,     \* the buffered reorg channels of the monitors
    reorganizing,  \* the monitors' fields of the same names
    reorgData,
    sideChain,
    bestNode,      \* StakeDatabase.BestNode: its block
    nodeMtxHeld,   \* nodeMtx was locked and will never be unlocked
    poolInfo,      \* the keys of StakeDatabase.poolInfo
    reorg,         \* blockdata's local: the block ends a reorganization
    collected,     \* the block whose data Collect or CollectHash returned
    summary,       \* SQLite: height -> block hash and the block the pool info is of
    pgBlocks,      \* PostgreSQL: the hashes in the blocks table
    webBlock,      \* the block the web pages show as the best
    panicked       \* a monitor has panicked: the process is gone

nodeVars == <<tips, inFlight>>
workerVars == <<pc, cur>>
reorgVars == <<reorganizing, reorgData, sideChain>>
stakeVars == <<bestNode, nodeMtxHeld, poolInfo>>
collectVars == <<reorg, collected>>
storeVars == <<summary, pgBlocks, webBlock>>
vars == <<tips, inFlight, queue, pc, cur, reorgChan, reorganizing, reorgData,
          sideChain, bestNode, nodeMtxHeld, poolInfo, reorg, collected,
          summary, pgBlocks, webBlock, panicked>>

nodeTip == tips[Len(tips)]
Row(b, p) == [hash |-> b, pool |-> p]
RowsOf(b) == [h \in Heights |->
                IF h <= Height(b) THEN Row(Ancestor(b, h), Ancestor(b, h)) ELSE NoRow]

(***************************************************************************)
(* The state in which main() starts the monitors: all stores have been     *)
(* synchronized with the node's best block.                                *)
(***************************************************************************)
Init ==
    \E b \in StartBlocks :
        /\ tips = <<b>>
        /\ inFlight = <<>> /\ queue = <<>>
        /\ pc = "idle" /\ cur = b
        /\ reorgChan = [m \in Monitor |-> <<>>]
        /\ reorganizing = [m \in Monitor |-> FALSE]
        /\ reorgData = [m \in Monitor |-> b]
        /\ sideChain = [m \in Monitor |-> <<>>]
        /\ bestNode = b /\ nodeMtxHeld = FALSE /\ poolInfo = {}
        /\ reorg = FALSE /\ collected = b
        /\ summary = RowsOf(b) /\ pgBlocks = AncestorsOf(b) /\ webBlock = b
        /\ panicked = FALSE

-----------------------------------------------------------------------------
(***************************************************************************)
(* The hcd node, as the code uses it.                                      *)
(***************************************************************************)
Block(b) == [type |-> "block", hash |-> b]
Reorg(b) == [type |-> "reorg", hash |-> b]

\* Nothing announced is still waiting or being handled.
Drained == inFlight = <<>> /\ queue = <<>> /\ pc = "idle"

NodeMayMove ==
    /\ Len(tips) < MaxTips
    /\ "steady" \in Quiet => pc # "collect"

\* The best chain grows by one block.
NodeExtend(b) ==
    /\ NodeMayMove
    /\ IsChild(b, nodeTip)
    /\ tips' = Append(tips, b)
    /\ inFlight' = Append(inFlight, Block(b))
    /\ UNCHANGED <<queue, workerVars, reorgChan, reorgVars, stakeVars,
                   collectVars, storeVars, panicked>>

\* The best chain changes to that of b, which is no shorter: the node announces
\* the reorganization and then every block that it attaches.
NodeReorg(b, k) ==
    /\ NodeMayMove
    /\ "drained" \in Quiet => Drained
    /\ ForkAt(nodeTip, b, k) /\ Height(b) >= Height(nodeTip)
    /\ tips' = Append(tips, b)
    /\ inFlight' = inFlight \o <<Reorg(b)>>
                     \o [i \in 1..(Height(b) - k) |-> Block(Ancestor(b, k + i))]
    /\ UNCHANGED <<queue, workerVars, reorgChan, reorgVars, stakeVars,
                   collectVars, storeVars, panicked>>

-----------------------------------------------------------------------------
(***************************************************************************)
(* The notification handlers.                                              *)
(***************************************************************************)
OnBlockConnected ==
    /\ ~panicked
    /\ inFlight # <<>> /\ Head(inFlight).type = "block"
    /\ "picked" \in Quiet => \A m \in Monitor : reorgChan[m] = <<>>
    /\ queue' = Append(queue, Head(inFlight).hash)
    /\ inFlight' = Tail(inFlight)
    /\ UNCHANGED <<tips, workerVars, reorgChan, reorgVars, stakeVars,
                   collectVars, storeVars, panicked>>

\* Faulty: the send is not dropped when the channel is full.
OnReorganizationUnbounded ==
    /\ ~panicked
    /\ inFlight # <<>> /\ Head(inFlight).type = "reorg"
    /\ reorgChan' = [m \in Monitor |-> Append(reorgChan[m], Head(inFlight).hash)]
    /\ inFlight' = Tail(inFlight)
    /\ UNCHANGED <<tips, queue, workerVars, reorgVars, stakeVars,
                   collectVars, storeVars, panicked>>

\* Faulty: the stake database's monitor is not told.
OnReorganizationSkipsStakeDB ==
    /\ ~panicked
    /\ inFlight # <<>> /\ Head(inFlight).type = "reorg"
    /\ reorgChan' = [m \in Monitor |->
                        IF m # "stakedb" /\ Len(reorgChan[m]) < ReorgBuffer
                          THEN Append(reorgChan[m], Head(inFlight).hash)
                          ELSE reorgChan[m]]
    /\ inFlight' = Tail(inFlight)
    /\ UNCHANGED <<tips, queue, workerVars, reorgVars, stakeVars,
                   collectVars, storeVars, panicked>>

\* A send that would block is dropped.
OnReorganization ==
    /\ ~panicked
    /\ inFlight # <<>> /\ Head(inFlight).type = "reorg"
    /\ reorgChan' = [m \in Monitor |->
                        IF Len(reorgChan[m]) < ReorgBuffer
                          THEN Append(reorgChan[m], Head(inFlight).hash)
                          ELSE reorgChan[m]]
    /\ inFlight' = Tail(inFlight)
    /\ UNCHANGED <<tips, queue, workerVars, reorgVars, stakeVars,
                   collectVars, storeVars, panicked>>

\* Faulty: a second reorganization replaces the one in progress.
ReorgHandlerRestarts(m) ==
    /\ ~panicked
    /\ reorgChan[m] # <<>>
    /\ reorgChan' = [reorgChan EXCEPT ![m] = Tail(@)]
    /\ reorganizing' = [reorganizing EXCEPT ![m] = TRUE]
    /\ reorgData' = [reorgData EXCEPT ![m] = Head(reorgChan[m])]
    /\ UNCHANGED <<nodeVars, queue, workerVars, sideChain, stakeVars, collectVars,
                   storeVars, panicked>>

\* The ReorgHandler goroutine of monitor m.
ReorgHandler(m) ==
    /\ ~panicked
    /\ reorgChan[m] # <<>>
    /\ reorgChan' = [reorgChan EXCEPT ![m] = Tail(@)]
    /\ IF reorganizing[m]
         THEN UNCHANGED reorgVars
         ELSE /\ reorganizing' = [reorganizing EXCEPT ![m] = TRUE]
              /\ reorgData' = [reorgData EXCEPT ![m] = Head(reorgChan[m])]
              /\ UNCHANGED sideChain
    /\ UNCHANGED <<nodeVars, queue, workerVars, stakeVars, collectVars,
                   storeVars, panicked>>

-----------------------------------------------------------------------------
(***************************************************************************)
(* ProcessBlocks and the first half of every BlockConnectedHandler.        *)
(***************************************************************************)
Dequeue ==
    /\ ~panicked
    /\ pc = "idle" /\ queue # <<>>
    /\ cur' = Head(queue) /\ queue' = Tail(queue)
    /\ pc' = "stakedb"
    /\ UNCHANGED <<nodeVars, reorgChan, reorgVars, stakeVars, collectVars,
                   storeVars, panicked>>

At(m) == ~panicked /\ pc = m

\* The block cur goes to the side chain of m, whose tip is still to come.
JoinsSideChain(m) == reorganizing[m] /\ cur # reorgData[m]
JoinSideChain(m) ==
    /\ JoinsSideChain(m)
    /\ sideChain' = [sideChain EXCEPT ![m] = Append(@, cur)]
    /\ UNCHANGED <<reorganizing, reorgData>>

\* The block cur is the tip of the new chain: the reorganization of m is over.
ReachesNewHead(m) == reorganizing[m] /\ cur = reorgData[m]

\* Faulty: the side chain is not cleared.
EndReorgKeepsSideChain(m) ==
    /\ reorganizing' = [reorganizing EXCEPT ![m] = FALSE]
    /\ UNCHANGED <<reorgData, sideChain>>

\* Faulty: the reorganization is not ended.
EndReorgKeepsFlag(m) ==
    /\ sideChain' = [sideChain EXCEPT ![m] = <<>>]
    /\ UNCHANGED <<reorgData, reorganizing>>

EndReorg(m) ==
    /\ sideChain' = [sideChain EXCEPT ![m] = <<>>]
    /\ reorganizing' = [reorganizing EXCEPT ![m] = FALSE]
    /\ UNCHANGED reorgData
FullSideChain(m) == Append(sideChain[m], cur)

-----------------------------------------------------------------------------
(***************************************************************************)
(* The stake database's monitor.                                           *)
(***************************************************************************)

\* ConnectBlock returns an error before it reaches the stake node.
Refused(b) == Height(b) <= Height(bestNode)

\* ConnectBlockHash(cur), called outside a reorganization.  The stake node
\* accepts a block only on top of its parent; when it does not, connectBlock
\* returns with nodeMtx locked, and BestNode, overwritten with nil, is out of
\* everybody's reach.  Of two RPC errors one is returned, and the other, that of
\* the block whose tickets mature, is a nil dereference.
ConnectBlock ==
    \/ /\ RpcMayFail \/ (~nodeMtxHeld /\ Refused(cur))
       /\ pc' = "blockdata" /\ UNCHANGED <<stakeVars, panicked>>
    \/ /\ RpcMayFail
       /\ panicked' = TRUE /\ UNCHANGED <<pc, stakeVars>>
    \/ /\ ~nodeMtxHeld /\ ~Refused(cur) /\ Parent(cur) = bestNode
       /\ bestNode' = cur
       /\ poolInfo' = poolInfo \union {cur}
       /\ pc' = "blockdata" /\ UNCHANGED <<nodeMtxHeld, panicked>>
    \/ /\ ~nodeMtxHeld /\ ~Refused(cur) /\ Parent(cur) # bestNode
       /\ nodeMtxHeld' = TRUE
       /\ pc' = "blockdata" /\ UNCHANGED <<bestNode, poolInfo, panicked>>
    \/ nodeMtxHeld /\ pc' = "hung" /\ UNCHANGED <<stakeVars, panicked>>

\* The side chain s forks off above the stake node, which then has no common
\* ancestor to be disconnected to.
ForksAbove(s) == Height(s[1]) - 1 > Height(bestNode)

\* The block on which s[i] is connected.
Below(s, i) == IF i = 1 THEN Ancestor(bestNode, Height(s[1]) - 1) ELSE s[i - 1]
Fits(s, i) == Parent(s[i]) = Below(s, i)

\* s[i] is the first block that cannot be connected.
BreaksAt(s, i) == ~Fits(s, i) /\ \A j \in 1..(i - 1) : Fits(s, j)

\* Faulty: only the new tip's pool info is cached.
SwitchStakeDBCachesTip(s) ==
    /\ bestNode' = cur
    /\ poolInfo' = poolInfo \union {cur}
    /\ EndReorg("stakedb")
    /\ pc' = "blockdata" /\ UNCHANGED <<nodeMtxHeld, panicked>>

\* Faulty: only the first block of the side chain is connected.
SwitchStakeDBConnectsOne(s) ==
    /\ bestNode' = s[1]
    /\ poolInfo' = poolInfo \union {s[1]}
    /\ EndReorg("stakedb")
    /\ pc' = "blockdata" /\ UNCHANGED <<nodeMtxHeld, panicked>>

\* switchToSideChain: disconnect to the common ancestor, connect the side chain.
\* An error on the way ends in a panic; but where the stake node is asked for a
\* block and does not take it, the handler then waits for the nodeMtx that
\* connectBlock has left locked.
SwitchStakeDB(s) ==
    \/ /\ ~nodeMtxHeld /\ ~ForksAbove(s) /\ \A i \in 1..Len(s) : Fits(s, i)
       /\ bestNode' = cur
       /\ poolInfo' = poolInfo \union {s[i] : i \in 1..Len(s)}
       /\ EndReorg("stakedb")
       /\ pc' = "blockdata" /\ UNCHANGED <<nodeMtxHeld, panicked>>
    \/ /\ \/ RpcMayFail
          \/ ~nodeMtxHeld /\ ForksAbove(s)
          \/ /\ ~nodeMtxHeld /\ ~ForksAbove(s)
             /\ \E i \in 1..Len(s) :
                    BreaksAt(s, i) /\ Height(s[i]) <= Height(Below(s, i))
       /\ panicked' = TRUE
       /\ UNCHANGED <<pc, stakeVars, reorgVars>>
    \/ /\ \/ nodeMtxHeld
          \/ ~ForksAbove(s) /\ \E i \in 1..Len(s) :
                BreaksAt(s, i) /\ Height(s[i]) > Height(Below(s, i))
       /\ nodeMtxHeld' = TRUE
       /\ pc' = "hung" /\ UNCHANGED <<bestNode, poolInfo, reorgVars, panicked>>

StakeDBBlock ==
    /\ At("stakedb")
    /\ \/ JoinSideChain("stakedb") /\ pc' = "blockdata" /\ UNCHANGED <<stakeVars, panicked>>
       \/ ReachesNewHead("stakedb") /\ SwitchStakeDB(FullSideChain("stakedb"))
       \/ ~reorganizing["stakedb"] /\ ConnectBlock /\ UNCHANGED reorgVars
    /\ UNCHANGED <<nodeVars, queue, cur, reorgChan, collectVars, storeVars>>

-----------------------------------------------------------------------------
(***************************************************************************)
(* The block data monitor.                                                 *)
(***************************************************************************)

\* Up to the call of GetBlockCount.  The error of GetBlock is ignored and its nil
\* block dereferenced.
FetchNotified ==
    \/ pc' = "count" /\ UNCHANGED panicked
    \/ RpcMayFail /\ panicked' = TRUE /\ UNCHANGED pc

\* Faulty: a block of the side chain is collected as well.
BlockDataBlockNoBreak ==
    /\ At("blockdata")
    /\ reorg' = reorganizing["blockdata"]
    /\ \/ JoinSideChain("blockdata")
       \/ ReachesNewHead("blockdata") /\ EndReorg("blockdata")
       \/ ~reorganizing["blockdata"] /\ UNCHANGED reorgVars
    /\ FetchNotified
    /\ UNCHANGED <<nodeVars, queue, cur, reorgChan, stakeVars, collected, storeVars>>

\* A block of a side chain is not collected, except the last one, which is stored
\* with the reorgDataSavers only.
BlockDataBlock ==
    /\ At("blockdata")
    /\ reorg' = reorganizing["blockdata"]
    /\ \/ JoinSideChain("blockdata") /\ pc' = "wired" /\ UNCHANGED panicked
       \/ ReachesNewHead("blockdata") /\ EndReorg("blockdata") /\ FetchNotified
       \/ ~reorganizing["blockdata"] /\ UNCHANGED reorgVars /\ FetchNotified
    /\ UNCHANGED <<nodeVars, queue, cur, reorgChan, stakeVars, collected, storeVars>>

\* CollectBlockInfo(b) takes the pool info from the cache, else from the stake
\* node, for which it needs nodeMtx.
CanCollect(b) == b \in poolInfo \/ ~nodeMtxHeld
PoolOf(b) == IF b \in poolInfo THEN b ELSE bestNode
CollectBlockInfo(b) ==
    \/ CanCollect(b) /\ collected' = b /\ pc' = "store"
    \/ ~CanCollect(b) /\ pc' = "hung" /\ UNCHANGED collected

\* An RPC error, or the time-out of Collect: the block is given up.
GiveUp == RpcMayFail /\ pc' = "wired" /\ UNCHANGED collected

\* GetBlockCount, and CollectHash when the node is at another height.
CollectHash ==
    /\ At("count")
    /\ \/ Height(cur) # Height(nodeTip) /\ CollectBlockInfo(cur)
       \/ Height(cur) = Height(nodeTip) /\ pc' = "collect" /\ UNCHANGED collected
       \/ GiveUp
    /\ UNCHANGED <<nodeVars, queue, cur, reorgChan, reorgVars, stakeVars, reorg,
                   storeVars, panicked>>

\* Collect: the data are those of the node's best block.
Collect ==
    /\ At("collect")
    /\ CollectBlockInfo(nodeTip) \/ GiveUp
    /\ UNCHANGED <<nodeVars, queue, cur, reorgChan, reorgVars, stakeVars, reorg,
                   storeVars, panicked>>

\* The savers: PostgreSQL stores the notified block, the others what was
\* collected.  After a reorganization only the web pages are told.
Store ==
    /\ At("store")
    /\ IF reorg
         THEN UNCHANGED <<pgBlocks, summary>>
         ELSE /\ pgBlocks' = pgBlocks \union {cur}
              /\ summary' = [summary EXCEPT ![Height(collected)] =
                                Row(collected, PoolOf(collected))]
    /\ webBlock' = collected
    /\ pc' = "wired"
    /\ UNCHANGED <<nodeVars, queue, cur, reorgChan, reorgVars, stakeVars,
                   collectVars, panicked>>

-----------------------------------------------------------------------------
(***************************************************************************)
(* The SQLite monitor.                                                     *)
(***************************************************************************)
BestRow == summary[CHOOSE h \in Heights :
                      /\ summary[h] # NoRow
                      /\ \A g \in Heights : summary[g] # NoRow => g <= h]

\* Faulty: only the row of the new tip is stored.
RewrittenTipOnly(s, good) ==
    [summary EXCEPT ![Height(s[Len(s)])] = Row(s[Len(s)], PoolOf(s[Len(s)]))]

\* The rows after those of the blocks s[i], i \in good, have been stored in order.
Rewritten(s, good) ==
    [h \in Heights |->
        IF \E i \in good : Height(s[i]) = h
          THEN LET i == CHOOSE i \in good :
                            /\ Height(s[i]) = h
                            /\ \A j \in good : Height(s[j]) = h => j <= i
               IN Row(s[i], PoolOf(s[i]))
          ELSE summary[h]]

\* switchToSideChain: the rows of the side chain replace those at their heights.
\* A block whose data cannot be collected is skipped; one that waits for nodeMtx
\* waits forever.
SwitchWired(s) ==
    \E failed \in IF RpcMayFail THEN SUBSET (1..Len(s)) ELSE {{}} :
        LET reached == {i \in 1..Len(s) :
                           \A j \in 1..i : j \in failed \/ CanCollect(s[j])}
        IN  /\ summary' = Rewritten(s, reached \ failed)
            /\ \/ /\ reached = 1..Len(s) /\ BestRow'.hash = reorgData["wired"]
                  /\ EndReorg("wired")
                  /\ pc' = "idle" /\ UNCHANGED panicked
               \/ /\ reached = 1..Len(s) /\ BestRow'.hash # reorgData["wired"]
                  /\ panicked' = TRUE
                  /\ UNCHANGED <<pc, reorgVars>>
               \/ /\ reached # 1..Len(s)
                  /\ pc' = "hung" /\ UNCHANGED <<reorgVars, panicked>>

\* After the last handler ProcessBlocks takes the next block.
WiredBlock ==
    /\ At("wired")
    /\ \/ JoinSideChain("wired") /\ pc' = "idle" /\ UNCHANGED <<summary, panicked>>
       \/ ReachesNewHead("wired") /\ SwitchWired(FullSideChain("wired"))
       \/ ~reorganizing["wired"] /\ pc' = "idle"
             /\ UNCHANGED <<reorgVars, summary, panicked>>
    /\ UNCHANGED <<nodeVars, queue, cur, reorgChan, stakeVars, collectVars,
                   pgBlocks, webBlock>>

-----------------------------------------------------------------------------
Deliver == OnBlockConnected \/ OnReorganization

ProcessBlocks ==
    Dequeue \/ StakeDBBlock \/ BlockDataBlock \/ CollectHash \/ Collect
            \/ Store \/ WiredBlock

Next ==
    \/ \E b \in Blocks : NodeExtend(b)
    \/ \E b \in Blocks, k \in Heights : NodeReorg(b, k)
    \/ OnBlockConnected
    \/ OnReorganization
    \/ \E m \in Monitor : ReorgHandler(m)
    \/ ProcessBlocks

Spec == Init /\ [][Next]_vars

\* The goroutines are scheduled; the node owes nothing but the delivery of what
\* it has sent.
Fairness ==
    /\ WF_vars(Deliver)
    /\ \A m \in Monitor : WF_vars(ReorgHandler(m))
    /\ WF_vars(ProcessBlocks)

FairSpec == Spec /\ Fairness

-----------------------------------------------------------------------------
(***************************************************************************)
(* Properties.                                                             *)
(***************************************************************************)
Notification == [type : {"block", "reorg"}, hash : Blocks]
Places == {"idle", "stakedb", "blockdata", "count", "collect", "store", "wired",
           "hung"}

\* Every variable has its type, and no reorg channel holds more than its capacity.
TypeOK ==
    /\ tips \in Seq(Blocks) /\ Len(tips) \in 1..MaxTips
    /\ inFlight \in Seq(Notification)
    /\ queue \in Seq(Blocks)
    /\ pc \in Places /\ cur \in Blocks
    /\ reorgChan \in [Monitor -> Seq(Blocks)]
    /\ \A m \in Monitor : Len(reorgChan[m]) <= ReorgBuffer
    /\ reorganizing \in [Monitor -> BOOLEAN]
    /\ reorgData \in [Monitor -> Blocks]
    /\ sideChain \in [Monitor -> Seq(Blocks)]
    /\ bestNode \in Blocks /\ nodeMtxHeld \in BOOLEAN /\ poolInfo \subseteq Blocks
    /\ reorg \in BOOLEAN /\ collected \in Blocks
    /\ summary \in [Heights -> [hash : Blocks, pool : Blocks] \union {NoRow}]
    /\ pgBlocks \subseteq Blocks /\ webBlock \in Blocks
    /\ panicked \in BOOLEAN

\* A monitor keeps side chain blocks only while it is reorganizing, never the
\* new head among them: a block is held back only until the switch (the handlers
\* append to sideChain and clear it, ReorgHandler sets reorganizing).
SideChainOnlyInReorg ==
    \A m \in Monitor :
        /\ sideChain[m] # <<>> => reorganizing[m]
        /\ \A i \in 1..Len(sideChain[m]) : sideChain[m][i] # reorgData[m]

\* The target of a reorganization stays what it was until the monitor is done
\* with it: the handlers read p.reorgData again, without the lock, after the switch.
ReorgDataStable ==
    [][\A m \in Monitor : reorganizing[m] /\ reorganizing'[m]
                              => reorgData'[m] = reorgData[m]]_reorgVars

\* No sequence of notifications makes a monitor panic, or makes a handler wait for
\* nodeMtx forever, which stops the handling of blocks for good.
NoPanic == ~panicked
NeverHung == pc # "hung"

\* When all has been handled the stake database is at the node's best block and
\* no monitor waits for more blocks of a reorganization.
StakeFollowsNode ==
    Drained => /\ bestNode = nodeTip
               /\ \A m \in Monitor : ~reorganizing[m]

\* "guaranteed if stakedb block-connected ntfns are always handled before these":
\* when the SQLite monitor collects the blocks of a reorganization their pool
\* info is in the cache (comment in its switchToSideChain).
PoolInfoReady ==
    At("wired") /\ ReachesNewHead("wired")
        => \A i \in 1..Len(FullSideChain("wired")) :
               FullSideChain("wired")[i] \in poolInfo

\* The stake database moves as its specification allows.
StakeFollower == INSTANCE TipFollower WITH view <- bestNode
StakeFollowsTips == StakeFollower!Spec

\* When all has been handled SQLite has, at every height up to the node's best
\* block, the row of the main chain's block with that block's own pool info.
RowsMatchNode ==
    Drained => \A h \in 0..Height(nodeTip) :
                   summary[h] = Row(Ancestor(nodeTip, h), Ancestor(nodeTip, h))

\* The web pages show the node's best blocks in their order and end at the last.
WebFollower == INSTANCE TipFollower WITH view <- webBlock
WebFollowsTips == WebFollower!Spec
WebCatchesUp == WebFollower!CatchesUp

\* When all has been handled PostgreSQL has every block of the main chain.
PgHasMainChain == Drained => AncestorsOf(nodeTip) \subseteq pgBlocks
=============================================================================
