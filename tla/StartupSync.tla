---------------------------- MODULE StartupSync ----------------------------
(***************************************************************************)
(* How hcexplorer brings its stores to the node's best block when it is    *)
(* started, and what a crash leaves for the next start.                    *)
(*                                                                         *)
(* mainCore starts two goroutines, SyncDBAsync for the stake database and  *)
(* SQLite and SyncChainDBAsync for PostgreSQL, and repeats both until they *)
(* end at the same height.  Then it starts the monitors and at last        *)
(* registers for the node's notifications; from then on the handlers write *)
(* to the stores, in the order that module ChainFollow gives and with its  *)
(* assumptions on timing.  The program may be stopped at any moment, and   *)
(* finds on the disk what had been written.  A stop is a crash, or CTRL+C, *)
(* which ends the loops of the synchronization between two blocks.         *)
(*                                                                         *)
(* An operator whose comment begins with "Faulty" is part of no            *)
(* specification: see ChainFollow.                                         *)
(***************************************************************************)
EXTENDS BlockTree, Integers, FiniteSetsExt

CONSTANTS
    StartBlocks,   \* the node's best block at the beginning
    MaxMoves,      \* bound: how often the node's best block changes
    MaxStops,      \* bound: how often the program is stopped
    UsePG,         \* whether PostgreSQL is used
    MaxReorgs,     \* bound: how often that is a reorganization
    MayMoveInGap   \* whether it may change between the last look of the
                   \* synchronization and the registration for notifications

ASSUME SyncStartAssumption == StartBlocks \subseteq Blocks
ASSUME SyncBoundsAssumption == MaxMoves \in Nat /\ MaxStops \in Nat /\ MaxReorgs \in Nat
ASSUME SyncFlagsAssumption == UsePG \in BOOLEAN /\ MayMoveInGap \in BOOLEAN

VARIABLES
    nodeTip, moves,  \* the node's best block, and how often it has changed
    reorgs,          \* how often that was a reorganization
    stakeTip,        \* stake database: its best node's block
    summary,         \* SQLite: height -> block and the block the pool info is of
    stakeInfo,       \* SQLite: the same for the stake info table
    pgBlocks,        \* PostgreSQL: the blocks table
    main,            \* where mainCore is: "down", "sync", "synced", "run"
    stops,           \* how often the program has been stopped
    mustDelete,      \* the last start asked to delete the stake database
    poolInfo,        \* the keys of the pool info cache
    sq,              \* resyncDBWithPoolValue: its place and its locals
    pq,              \* SyncChainDB: its place and its locals
    todo,            \* run: what the handlers have still to write
    stuck            \* run: a handler waits forever

nodeVars == <<nodeTip, moves, reorgs>>
tables == <<summary, stakeInfo, pgBlocks>>
diskVars == <<stakeTip, summary, stakeInfo, pgBlocks>>
mainVars == <<main, stops, mustDelete>>
runVars == <<todo, stuck>>
vars == <<nodeTip, moves, reorgs, stakeTip, summary, stakeInfo, pgBlocks, main,
          stops, mustDelete, poolInfo, sq, pq, todo, stuck>>

NoRow == [hash |-> "none"]
Row(b) == [hash |-> b, pool |-> IF b \in poolInfo THEN b ELSE stakeTip]
EmptyTable == [h \in Heights |-> NoRow]
Rows(b) == [h \in Heights |->
               IF h <= Height(b)
                 THEN [hash |-> Ancestor(b, h), pool |-> Ancestor(b, h)]
                 ELSE NoRow]

\* The height of the last row, -1 if there is none.
Top(t) == Max({h \in Heights : t[h] # NoRow} \union {-1})
PgHeight == Max({Height(b) : b \in pgBlocks} \union {-1})

\* sq.done and pq.done: all blocks up to this height have been dealt with;
\* target: the node's height when it was asked last; summaryTop and infoTop: the
\* heights of the tables when the synchronization began; block: the one being
\* dealt with.
SqIdle == [pc |-> "start", done |-> -1, target |-> -1, summaryTop |-> -1,
           infoTop |-> -1, block |-> <<>>]
PqIdle == [pc |-> "start", done |-> -1, target |-> -1]

\* A program that has been installed and never been run.
Init ==
    /\ nodeTip \in StartBlocks /\ moves = 0 /\ reorgs = 0
    /\ stakeTip = <<>>
    /\ summary = EmptyTable /\ stakeInfo = EmptyTable /\ pgBlocks = {}
    /\ main = "down" /\ stops = 0 /\ mustDelete = FALSE
    /\ poolInfo = {} /\ sq = SqIdle /\ pq = PqIdle
    /\ todo = <<>> /\ stuck = FALSE

-----------------------------------------------------------------------------
(***************************************************************************)
(* The program starts and stops.                                           *)
(***************************************************************************)

\* StakeDatabase.Open: a database that cannot be read is made anew, as is one that
\* the user has removed on the advice "delete stake db (ffldb_stake) and try again".
Open == stakeTip' \in {<<>>} \union (IF mustDelete THEN {} ELSE {stakeTip})

\* Caches and locals are those of a new process.
StartProgram ==
    /\ main = "down"
    /\ main' = "sync"
    /\ Open
    /\ mustDelete' = FALSE
    /\ poolInfo' = {} /\ sq' = SqIdle /\ pq' = PqIdle
    /\ todo' = <<>> /\ stuck' = FALSE
    /\ UNCHANGED <<nodeVars, tables, stops>>

Stop ==
    /\ main # "down" /\ stops < MaxStops
    /\ main' = "down" /\ stops' = stops + 1
    /\ UNCHANGED <<nodeVars, diskVars, mustDelete, poolInfo, sq, pq, runVars>>

-----------------------------------------------------------------------------
(***************************************************************************)
(* resyncDBWithPoolValue                                                   *)
(***************************************************************************)
SqAt(place) == main = "sync" /\ sq.pc = place

\* The heights to choose the start from, given those of the tables.
TableTops == {Top(summary), Top(stakeInfo)}

\* The synchronization starts above the height start.  A stake database that is too
\* far ahead of it is not rewound.
BeginAbove(start) ==
    LET tooFar == /\ Height(stakeTip) > start /\ Height(stakeTip) > 0
                  /\ start < 0 \/ Height(stakeTip) > 2 * start
    IN  /\ SqAt("start")
        /\ sq' = [sq EXCEPT !.pc = IF tooFar THEN "failed" ELSE "rewind",
                            !.done = start, !.target = Height(nodeTip),
                            !.summaryTop = Top(summary), !.infoTop = Top(stakeInfo)]
        /\ mustDelete' = tooFar
        /\ UNCHANGED <<nodeVars, diskVars, main, stops, poolInfo, pq, runVars>>

\* Faulty: the stake database's own height is left out of account.
BeginAboveTables == BeginAbove(Min(TableTops))

\* Faulty: the older of the two tables is left out of account.
BeginAboveNewer == BeginAbove(Min({Max(TableTops), Height(stakeTip)}))

Begin == BeginAbove(Min(TableTops \union {Height(stakeTip)}))

\* DisconnectBlock until the stake database is where the synchronization starts.
Rewind ==
    /\ SqAt("rewind")
    /\ IF Height(stakeTip) > sq.done /\ stakeTip # <<>>
         THEN stakeTip' = Parent(stakeTip) /\ UNCHANGED sq
         ELSE sq' = [sq EXCEPT !.pc = "connect"] /\ UNCHANGED stakeTip
    /\ UNCHANGED <<nodeVars, tables, mainVars, poolInfo, pq, runVars>>

\* getBlock(i): the node's block at height i.
NextBlock(s) == Ancestor(nodeTip, s.done + 1)
More(s) == s.done < s.target

\* ConnectBlock, left out for the genesis block.  A block that the stake node
\* refuses ends the synchronization.
Connect ==
    /\ SqAt("connect") /\ More(sq)
    /\ LET b == NextBlock(sq)
           refused == Height(b) > Height(stakeTip) /\ ~IsChild(b, stakeTip)
           connects == Height(b) > Height(stakeTip) /\ ~refused
       IN  /\ sq' = [sq EXCEPT !.block = b, !.pc = IF refused THEN "failed" ELSE "summary"]
           /\ stakeTip' = IF connects THEN b ELSE stakeTip
           /\ poolInfo' = IF connects THEN poolInfo \union {b} ELSE poolInfo
    /\ UNCHANGED <<nodeVars, tables, mainVars, pq, runVars>>

\* The block has been dealt with, and the node is asked for its height.
BlockDone(s) == [s EXCEPT !.pc = "connect", !.done = s.done + 1,
                          !.target = Height(nodeTip)]

\* StoreBlockSummary, unless the row was there at the beginning.
StoreSummary ==
    /\ SqAt("summary")
    /\ summary' = IF sq.done + 1 > sq.summaryTop
                    THEN [summary EXCEPT ![sq.done + 1] = Row(sq.block)]
                    ELSE summary
    /\ sq' = IF sq.done + 1 <= sq.infoTop THEN BlockDone(sq)
                                          ELSE [sq EXCEPT !.pc = "info"]
    /\ UNCHANGED <<nodeVars, stakeTip, stakeInfo, pgBlocks, mainVars, poolInfo, pq,
                   runVars>>

\* StoreStakeInfoExtended
StoreInfo ==
    /\ SqAt("info")
    /\ stakeInfo' = [stakeInfo EXCEPT ![sq.done + 1] = Row(sq.block)]
    /\ sq' = BlockDone(sq)
    /\ UNCHANGED <<nodeVars, stakeTip, summary, pgBlocks, mainVars, poolInfo, pq,
                   runVars>>

SqliteEnd ==
    /\ SqAt("connect") /\ ~More(sq)
    /\ sq' = [sq EXCEPT !.pc = "end"]
    /\ UNCHANGED <<nodeVars, diskVars, mainVars, poolInfo, pq, runVars>>

-----------------------------------------------------------------------------
(***************************************************************************)
(* SyncChainDB                                                             *)
(***************************************************************************)
PqAt(place) == UsePG /\ main = "sync" /\ pq.pc = place

\* Faulty: the last block is stored once more.
PgBeginAtLast ==
    /\ PqAt("start")
    /\ pq' = [pc |-> "block", done |-> PgHeight - 1, target |-> Height(nodeTip)]
    /\ UNCHANGED <<nodeVars, diskVars, mainVars, poolInfo, sq, runVars>>

PgBegin ==
    /\ PqAt("start")
    /\ pq' = [pc |-> "block", done |-> PgHeight, target |-> Height(nodeTip)]
    /\ UNCHANGED <<nodeVars, diskVars, mainVars, poolInfo, sq, runVars>>

PgStoreBlock ==
    /\ PqAt("block") /\ More(pq)
    /\ pgBlocks' = pgBlocks \union {NextBlock(pq)}
    /\ pq' = [pq EXCEPT !.done = @ + 1, !.target = Height(nodeTip)]
    /\ UNCHANGED <<nodeVars, stakeTip, summary, stakeInfo, mainVars, poolInfo, sq,
                   runVars>>

\* Faulty: the loop leaves out the node's best block.
PgEndEarly ==
    /\ PqAt("block") /\ pq.done + 1 >= pq.target
    /\ pq' = [pq EXCEPT !.pc = "end"]
    /\ UNCHANGED <<nodeVars, diskVars, mainVars, poolInfo, sq, runVars>>

PgEnd ==
    /\ PqAt("block") /\ ~More(pq)
    /\ pq' = [pq EXCEPT !.pc = "end"]
    /\ UNCHANGED <<nodeVars, diskVars, mainVars, poolInfo, sq, runVars>>

-----------------------------------------------------------------------------
(***************************************************************************)
(* mainCore                                                                *)
(***************************************************************************)
PgEnded == UsePG => pq.pc = "end"
SameHeight == UsePG => pq.target = sq.done

\* An error of either one ends the program.
GiveUp ==
    /\ main = "sync" /\ sq.pc = "failed" /\ PgEnded
    /\ main' = "down"
    /\ UNCHANGED <<nodeVars, diskVars, stops, mustDelete, poolInfo, sq, pq, runVars>>

\* "Restarting sync with PostgreSQL at %d, SQLite at %d."
SyncAgain ==
    /\ main = "sync" /\ sq.pc = "end" /\ PgEnded /\ ~SameHeight
    /\ sq' = SqIdle /\ pq' = PqIdle
    /\ UNCHANGED <<nodeVars, diskVars, mainVars, poolInfo, runVars>>

\* Faulty: the two heights are not compared.
EndSyncAnyway ==
    /\ main = "sync" /\ sq.pc = "end" /\ PgEnded
    /\ main' = "synced"
    /\ UNCHANGED <<nodeVars, diskVars, stops, mustDelete, poolInfo, sq, pq, runVars>>

EndSync ==
    /\ main = "sync" /\ sq.pc = "end" /\ PgEnded /\ SameHeight
    /\ main' = "synced"
    /\ UNCHANGED <<nodeVars, diskVars, stops, mustDelete, poolInfo, sq, pq, runVars>>

\* registerNodeNtfnHandlers, after the monitors have been started.
Register ==
    /\ main = "synced"
    /\ main' = "run"
    /\ UNCHANGED <<nodeVars, diskVars, stops, mustDelete, poolInfo, sq, pq, runVars>>

-----------------------------------------------------------------------------
(***************************************************************************)
(* What the handlers write while the program runs: see ChainFollow.        *)
(***************************************************************************)
Write(op, b) == <<[op |-> op, block |-> b]>>

\* For a block on top of the chain.
BlockWrites(b) ==
    Write("connect", b) \o (IF UsePG THEN Write("pg", b) ELSE <<>>)
        \o Write("summary", b) \o Write("info", b)

\* For a reorganization to b that leaves the chain at height k: both switches to
\* the side chain.  Nothing is written to PostgreSQL.
ReorgWrites(b, k) ==
    LET n == Height(b) - k
    IN  Write("rewind", Ancestor(b, k))
        \o [i \in 1..n |-> Write("connect", Ancestor(b, k + i))[1]]
        \o [i \in 1..(2 * n) |->
               Write(IF i % 2 = 1 THEN "summary" ELSE "info",
                     Ancestor(b, k + (i + 1) \div 2))[1]]

Writes(op) == main = "run" /\ todo # <<>> /\ Head(todo).op = op
Written == todo' = Tail(todo) /\ UNCHANGED stuck

RunRewind ==
    /\ Writes("rewind")
    /\ IF Height(stakeTip) > Height(Head(todo).block)
         THEN stakeTip' = Parent(stakeTip) /\ UNCHANGED runVars
         ELSE Written /\ UNCHANGED stakeTip
    /\ UNCHANGED <<nodeVars, tables, mainVars, poolInfo, sq, pq>>

\* A block that the stake node refuses leaves nodeMtx locked, and the collection of
\* its data waits for it.
RunConnect ==
    /\ Writes("connect")
    /\ LET b == Head(todo).block
       IN  IF IsChild(b, stakeTip)
             THEN stakeTip' = b /\ poolInfo' = poolInfo \union {b} /\ Written
             ELSE todo' = <<>> /\ stuck' = TRUE /\ UNCHANGED <<stakeTip, poolInfo>>
    /\ UNCHANGED <<nodeVars, tables, mainVars, sq, pq>>

RunPg ==
    /\ Writes("pg")
    /\ pgBlocks' = pgBlocks \union {Head(todo).block}
    /\ Written
    /\ UNCHANGED <<nodeVars, stakeTip, summary, stakeInfo, mainVars, poolInfo, sq, pq>>

RunSummary ==
    /\ Writes("summary")
    /\ summary' = [summary EXCEPT ![Height(Head(todo).block)] = Row(Head(todo).block)]
    /\ Written
    /\ UNCHANGED <<nodeVars, stakeTip, stakeInfo, pgBlocks, mainVars, poolInfo, sq, pq>>

RunInfo ==
    /\ Writes("info")
    /\ stakeInfo' = [stakeInfo EXCEPT ![Height(Head(todo).block)] = Row(Head(todo).block)]
    /\ Written
    /\ UNCHANGED <<nodeVars, stakeTip, summary, pgBlocks, mainVars, poolInfo, sq, pq>>

-----------------------------------------------------------------------------
(***************************************************************************)
(* The node.  Its moves are notified only once the program has registered. *)
(***************************************************************************)

\* Both goroutines have asked the node for its height for the last time, and the
\* loop will not be repeated.
Unnoticed ==
    \/ main = "synced"
    \/ /\ main = "sync" /\ SameHeight
       /\ sq.pc \in {"rewind", "connect", "end"} /\ ~More(sq)
       /\ UsePG => pq.pc # "start" /\ ~More(pq)

MoveTo(b, writes) ==
    /\ moves < MaxMoves
    /\ Unnoticed => MayMoveInGap
    /\ main = "run" => todo = <<>>
    /\ nodeTip' = b /\ moves' = moves + 1
    /\ todo' = IF main = "run" /\ ~stuck THEN writes ELSE todo
    /\ UNCHANGED <<diskVars, mainVars, poolInfo, sq, pq, stuck>>

NodeExtend(b) ==
    /\ IsChild(b, nodeTip)
    /\ MoveTo(b, BlockWrites(b))
    /\ UNCHANGED reorgs

NodeReorg(b, k) ==
    /\ reorgs < MaxReorgs /\ reorgs' = reorgs + 1
    /\ ForkAt(nodeTip, b, k) /\ Height(b) >= Height(nodeTip)
    /\ MoveTo(b, ReorgWrites(b, k))

-----------------------------------------------------------------------------
SyncSqlite == Begin \/ Rewind \/ Connect \/ StoreSummary \/ StoreInfo \/ SqliteEnd
SyncPg == PgBegin \/ PgStoreBlock \/ PgEnd
MainCore == StartProgram \/ GiveUp \/ SyncAgain \/ EndSync \/ Register
Handlers == RunRewind \/ RunConnect \/ RunPg \/ RunSummary \/ RunInfo

Next ==
    \/ SyncSqlite
    \/ SyncPg
    \/ MainCore
    \/ Handlers
    \/ Stop
    \/ \E b \in Blocks : NodeExtend(b)
    \/ \E b \in Blocks, k \in Heights : NodeReorg(b, k)

Spec == Init /\ [][Next]_vars

\* The goroutines are scheduled, and the user starts the program again.
Fairness ==
    WF_vars(SyncSqlite) /\ WF_vars(SyncPg) /\ WF_vars(MainCore) /\ WF_vars(Handlers)

FairSpec == Spec /\ Fairness

-----------------------------------------------------------------------------
(***************************************************************************)
(* Properties.                                                             *)
(***************************************************************************)
HeightsFrom(n) == Heights \union {n}
RowType == [hash : Blocks, pool : Blocks] \union {NoRow}

\* Every variable has its type.
TypeOK ==
    /\ nodeTip \in Blocks /\ moves \in 0..MaxMoves /\ reorgs \in 0..MaxReorgs
    /\ stakeTip \in Blocks
    /\ summary \in [Heights -> RowType] /\ stakeInfo \in [Heights -> RowType]
    /\ pgBlocks \subseteq Blocks
    /\ main \in {"down", "sync", "synced", "run"} /\ stops \in 0..MaxStops
    /\ mustDelete \in BOOLEAN /\ poolInfo \subseteq Blocks
    /\ sq \in [pc : {"start", "rewind", "connect", "summary", "info", "end", "failed"},
               done : HeightsFrom(-1), target : HeightsFrom(-1),
               summaryTop : HeightsFrom(-1), infoTop : HeightsFrom(-1), block : Blocks]
    /\ pq \in [pc : {"start", "block", "end"},
               done : HeightsFrom(-1), target : HeightsFrom(-1)]
    /\ todo \in Seq([op : {"rewind", "connect", "pg", "summary", "info"}, block : Blocks])
    /\ stuck \in BOOLEAN

\* Wherever the program has been stopped, a table has a row at every height below
\* its last one: no start continues above a hole.
NoHoles(t) == \A h \in 0..Top(t) : t[h] # NoRow
NoTableHasHoles == NoHoles(summary) /\ NoHoles(stakeInfo)

\* The part of table t up to the height h is that of the node's main chain, each
\* row with its own block's pool info.
MatchesUpTo(t, h) == \A g \in 0..h : t[g] = Rows(nodeTip)[g]

\* "Start at next block we don't have in every DB" (resyncDBWithPoolValue): what a
\* synchronization leaves alone is in both tables already.
StartsAboveCommonBlocks ==
    [][sq.pc = "start" /\ sq'.pc = "rewind"
           => MatchesUpTo(summary, sq'.done) /\ MatchesUpTo(stakeInfo, sq'.done)]_vars

\* "ensure they exit with the same best block height": as long as the chain only grows,
\* when the synchronization is over the stake database, SQLite and PostgreSQL all end
\* at one block of the main chain, and each has all that leads to it.
SyncedTogether ==
    main = "synced" /\ reorgs = 0 =>
        \E b \in AncestorsOf(nodeTip) :
            /\ stakeTip = b
            /\ summary = Rows(b) /\ stakeInfo = Rows(b)
            /\ UsePG => pgBlocks = AncestorsOf(b)

\* "Register for notifications now that the monitors are listening" (mainCore): as long
\* as the chain only grows, the first block notified finds the stake database ready
\* to connect it.
NeverStuck == reorgs = 0 => ~stuck

\* After the last stop the program runs again, and its stores reach the best block of a
\* chain that only grows: no stop leaves them in a state that no start gets out of.
Current ==
    /\ main = "run" /\ stakeTip = nodeTip
    /\ summary = Rows(nodeTip) /\ stakeInfo = Rows(nodeTip)
    /\ UsePG => pgBlocks = AncestorsOf(nodeTip)
Recovers == <>[](Current \/ reorgs > 0)
=============================================================================
