# hcexplorer: models and proofs

hcexplorer is a block explorer for the Hcash chain.  It follows the best chain
of an `hcd` node, keeps what it learns in three stores (a stake database, SQLite
and, optionally, PostgreSQL) and shows it on web pages and through an API.
This directory holds TLA+ models of the parts of it where events, goroutines and
failures meet, the TLC configurations that check them on small instances, and
proofs, checked by TLAPS, of what holds for every instance.  It also has the scripts of
the web pages, which take up where the websocket hubs leave off.

All paths below are relative to the repository, `src/` in `PROJECT.json`.

## 1. Inventory of the system

| Component | State | Operations | Hard behaviour |
|---|---|---|---|
| **Notification handlers and collection queue** (`ntfnhandlers.go`, `ntfnchans.go`) | `collectionQueue.q`; buffered and unbuffered channels to every monitor, global and replaced by `closeNtfnChans` | `OnBlockConnected`, `OnReorganization`, `OnTxAccepted`, `ProcessBlocks` | blocks go through a queue and a worker, reorganizations through three channels to three goroutines: nothing orders the two; sends that are dropped when a channel is full |
| **Stake database monitor** (`stakedb/chainmonitor.go`) | `reorganizing`, `reorgData`, `sideChain`, the token and `DoneConnecting` channels | `BlockConnectedSync`, `BlockConnectedHandler`, `ReorgHandler`, `switchToSideChain` | side chain blocks are held back until the new head arrives; two goroutines share the fields |
| **Stake database** (`stakedb/stakedb.go`) | `BestNode`, `blockCache` and `liveTicketCache`, `poolInfo`, the on-disk database | `ConnectBlock(Hash)`, `DisconnectBlock(s)`, `PoolInfoBest`, `Open` | error returns with `nodeMtx` locked; caches keyed by height |
| **Block data collector and monitor** (`blockdata/`) | as the stake database's monitor; the savers | `Collect`, `CollectHash`, `CollectBlockInfo`, the handlers | the best block is asked for twice; a 10 s time-out |
| **SQLite store and monitor** (`db/hcsqlite/chainmonitor.go`, `sqlite.go`) | `hcexplorer_block_summary`, `hcexplorer_stakeinfo_extended` by height, two cached best heights | `Store`, `StoreBlockSummary`, `switchToSideChain`, reads | rows of an abandoned chain must be replaced, with the right pool info |
| **SQLite API source and synchronization** (`db/hcsqlite/apisource.go`, `sync.go`) | none of its own | queries; `resyncDBWithPoolValue` | a crash between two tables, a restart on another chain |
| **PostgreSQL chain database** (`db/hcpg/`) | blocks, transactions, vins, vouts, addresses, tickets, votes, misses; `lastBlock` map; address balance cache | `Store`/`StoreBlock`, spending updates, `AddressHistory`, `SyncChainDB` | many statements per block with no common transaction; parallel goroutines |
| **Start-up and shutdown** (`main.go`, `config.go`) | the wiring of savers and monitors | `mainCore`; CTRL+C | catch up, then register for notifications; close channels after `quit` |
| **API status** (`apiroutes.go`) | node height, database height, `Ready` | `StatusNtfnHandler` | two channels in a `select`, flag recomputed on one only |
| **API routes and middleware** (`apirouter.go`, `apimiddleware.go`) | none | stateless queries | range and parameter edges |
| **Web pages and websocket hubs** (`web.go`, `websocket.go`, `explorer/`) | template data behind an `RWMutex`; the clients of each hub | `Store`, `StoreMPData`, `RegisterClient`, `run`, `Stop`, the connections' handlers | map of clients changed from goroutines without a lock; slow clients dropped; unbuffered relay |
| **Mempool monitor** (`mempool/`) | ticket counter, timer, height; stake data cache | `TxHandler`, `CollectAndStore`, `StoreMPData` | savers run unordered; a read lock taken twice; a collection that fails after the reset |
| **Browser scripts** (`public/js/messagesocket.js`, `node.js`, `humanize.js`, `config.js`, `views/extras.tmpl`) | the current socket and its handlers, the footer, the answers shown | `createWebSocket`, `manageWebSocket`, `send`, `forward`, the map's requests, the conversions | events of two sockets in any order; answers that find another page; rounding |
| **API block cache** (`hcdataapi/apicache.go`) | priority queue and map of blocks | `StoreBlockSummary`, `GetCachedBlock...`, `Remove...` | a lock kept on return, queue and map out of step |
| **Transaction helpers** (`txhelpers/`, `explorer/explorertypes.go`, `db/dbtypes/`) | none | pure functions | boundaries, medians, windows |
| **RPC connection, logging** (`rpcutils/`, `log.go`, `semver/`) | none | I/O | - |
| **Tools** (`cmd/`) | the same stores | batch loops | - |
| **Vendored scripts** (`highcharts.js`, `turbolinks.js`, ...) | - | - | - |

### How the components interact

```
hcd --OnBlockConnected--> queue --ProcessBlocks--> stakedb monitor   --> stake database
  |                                    |---------> blockdata monitor --> PostgreSQL, SQLite, web
  |                                    `---------> SQLite monitor    --> SQLite (reorganizations)
  |--OnReorganization--> three buffered channels --> three ReorgHandler goroutines
  `--OnTxAccepted------> newTxChan --TxHandler--> collection --> savers --> cache, web

web: Store, StoreMPData --HubRelay--> hub --signal--> handler of each connection
     handler --websocket--> MessageSocket of the page --> footer, blocks, answers
```

`ProcessBlocks` calls `BlockConnectedSync` of the three monitors, in this order,
for each block.  A monitor that is reorganizing holds the blocks back in its
`sideChain` until the block that the notification named as the new head arrives,
then switches.  SQLite's monitor and the block data collector take the pool
information of a block from a cache that the stake database's monitor has to have
filled before.

### What makes each component correct

* *Monitors*: a side chain is held back only during a reorganization; the target of
  a reorganization stays put; no block handler panics or waits forever.
* *Stores*: when all notifications are handled each store is at the node's best
  block, with the main chain's block at every height; a store moves through the
  node's best blocks in order and shows nothing in between.
* *Handoff*: a call returns when its own block has been handled, and not earlier.
* *API status*: no height is reported before its row is stored; `Ready` is never
  set on old news while nothing newer is to come; the height shown catches up.
* *Hubs*: a closed channel is never in the map, a registered client misses no block, the
  block handler is not held up by clients, and as long as they keep up nothing crashes.
* *Mempool monitor*: what a collection is skipped for has been collected; a page shows
  one collection, in the end the one in the cache.
* *Browser scripts*: only the current socket acts on the page, the footer says whether it
  is connected, the answer shown is that to the last request, and what is shown of a
  number or a time can be read back.
* *Start-up*: wherever a crash falls, the next start leaves the stores equal to the
  node's main chain, without holes, and ready for the first block that is notified.
* *PostgreSQL* (planned): every block but the best has its successor; an address
  row is spent exactly when a stored transaction spends it.

The hazards are listed in `PROJECT.json`, each at its line, with the properties
that would notice.  Those without a property yet are the work of the plan below.

## 2. Modules

| Module | What it is |
|---|---|
| `BlockTree` | blocks, their heights, parents and forks; extended by the next two |
| `ChainFollow` | the node's notifications, the queue, the worker, the three monitors and the stores |
| `TipFollower` | what it means that a store follows the node's best chain (abstract) |
| `BlockHandoff` | the channel protocol of `BlockConnectedSync` and `BlockConnectedHandler`, with shutdown |
| `SyncCall` | what a synchronous call promises (abstract) |
| `StartupSync` | the synchronization of the three stores at start-up, with stops and restarts |
| `ApiStatus` | the two height channels, the status handler and `Ready` |
| `WebsocketHub` | a hub, the handlers of its connections, the block handler that signals, `Stop` |
| `MempoolMonitor` | the triggers of the collections, and the savers of the web pages with their locks |
| `MessageSocket` | the websocket of a page, the script that owns it, the server's end |
| `NodeMap` | the page with the map of the nodes and its overlapping requests |
| `Humanize`, `ChartLoader` | the conversions of `humanize.js`, the choices of `config.js` |
| `PageScripts` | a tab: the composition of the last four |
| `MC...` | instances for TLC (`MempoolMonitor` needs none) |
| `ChainFollowProofs`, `FollowProofs` | theorems of `ChainFollow`: at any timing, and under the timing of `follow` |
| `BlockHandoffProofs`, `ApiStatusProofs`, `StartupSyncProofs`, `PageScriptsProofs`, `WebsocketHubProofs`, `MempoolProofs` | theorems of the module of that name |

`ChainFollow` takes the call of a handler to be one operation after another;
`BlockHandoff` justifies this, by implementing `SyncCall`.  `StartupSync` takes from
`ChainFollow` what the handlers write, in which order; `ApiStatus` takes the place in
it where heights are sent, and leaves out the hashes.  `WebsocketHub` and `MempoolMonitor`
are what happens after `ChainFollow`'s `Store` for the web pages; `MessageSocket` is the
other end of the connections of `WebsocketHub`, with what its handler does to a connection
as `Accept`, `ServerUpdate`, `ServerFails` and `ServerEnd`.  In all modules an operator whose
comment begins with *Faulty* is no part of the specification: it is the operator that follows it
with a plausible mistake, kept to see that each property notices one.

### ChainFollow and the code

A block is the sequence of choices that leads to it from the genesis block: a
block hash commits to all ancestors, so this loses nothing, and the parent, the
height and the common ancestor of two blocks are prefixes and lengths.

| Variables | Code |
|---|---|
| `tips`, `inFlight` | hcd (external): its best blocks so far, the notifications sent and not delivered |
| `queue`, `pc`, `cur` | `collectionQueue.q`, the place of `ProcessBlocks` and its block |
| `reorgChan`, `reorganizing`, `reorgData`, `sideChain` | one of each per monitor |
| `bestNode`, `nodeMtxHeld`, `poolInfo` | `StakeDatabase.BestNode`, a `nodeMtx` nobody will unlock, the keys of the pool info cache |
| `reorg`, `collected` | locals of the block data handler |
| `summary`, `pgBlocks`, `webBlock` | rows of SQLite by height, hashes in PostgreSQL's blocks table, the block on the web pages |
| `panicked` | the process is gone |

| Action | Code |
|---|---|
| `NodeExtend`, `NodeReorg` | external: a new best block; a reorganization is announced before the blocks it attaches |
| `OnBlockConnected`, `OnReorganization` | the handlers of these names; a full channel drops the reorganization for its monitor |
| `ReorgHandler(m)` | the three goroutines; a second reorganization during the first is ignored |
| `Dequeue` | the head of the loop of `ProcessBlocks` |
| `StakeDBBlock` | `BlockConnectedHandler` of the stake database with `ConnectBlockHash` or `switchToSideChain` |
| `BlockDataBlock`, `CollectHash`, `Collect`, `Store` | the block data handler, cut where it asks the node something or hands data over |
| `WiredBlock` | SQLite's block handler with `switchToSideChain` |

The cuts matter: between two actions the node may change its best block, and a
`ReorgHandler` may run.  Within an action nothing that another goroutine writes is
read twice.

### What is assumed

* hcd announces a reorganization before its blocks, and the new chain is no shorter
  than the old one.  The blocks it disconnects are announced too, but no handler of
  the program does anything with that.
* The stake library's `ConnectNode` refuses a block that is not on top of the node
  (also in `StartupSync`).
* `rpcclient` returns nil with an error.  `RpcMayFail` decides whether errors happen.
* Writes to SQLite and PostgreSQL succeed; a write that fails is logged by the code
  and the row is missing, which is left to the planned `PgStore`.
* The constant `Quiet` names three assumptions on *timing* that nothing in the code
  enforces.  `drained`: a reorganization starts only after everything before it is
  handled.  `picked`: the three `ReorgHandler`s have received it before its first
  block is delivered.  `steady`: the best block does not change between
  `GetBlockCount` and `GetBestBlockHash`.  Blocks are minutes apart, so usually all
  three hold.  Where a property needs one, a run without it shows the failure.

### BlockHandoff and the code

Any number of callers; each locks `syncConnect`, puts the token into
`ConnectingLock`, sends the block and waits for `DoneConnecting`.  The handler
receives (`Receive`, or `Rendezvous` for the unbuffered channel of the stake
database), takes the token without blocking, works and signals if it took the token.
`Quit`, `HandlerQuits` and `CloseNtfnChans` are the shutdown of `mainCore`, which waits for the
handlers before it closes the channels (`main.go:449`, then the deferred line 122); the handlers'
`!ok` branch for a closed channel is therefore left out.  It runs only when the start-up fails
after line 344, when no caller is registered and the process is about to end.

### StartupSync and the code

| Variables | Code |
|---|---|
| `nodeTip`, `moves`, `reorgs` | hcd (external): its best block, and how often it changed |
| `stakeTip`, `summary`, `stakeInfo`, `pgBlocks` | on disk: the stake database's best node, both tables of SQLite by height, the blocks table of PostgreSQL |
| `main` | where `mainCore` is: not running, in the synchronization loop, after it, registered |
| `sq`, `pq` | the locals of `resyncDBWithPoolValue` and of `SyncChainDB`, two goroutines |
| `poolInfo` | the keys of the pool info cache, empty in a new process |
| `mustDelete` | the synchronization ended with "delete stake db (ffldb_stake) and try again" |
| `todo`, `stuck` | once registered: the writes that the handlers have still to make, and a handler that waits for `nodeMtx` |

| Action | Code |
|---|---|
| `StartProgram` | a new process; `stakedb.Open`, which makes an unreadable database anew |
| `Stop` | a crash between any two writes, or CTRL+C |
| `Begin`, `Rewind` | the choice of the start height (the lowest of both tables and the stake database), the rewinding of the stake database |
| `Connect`, `StoreSummary`, `StoreInfo`, `SqliteEnd` | one turn of the loop, cut after each write, and its end |
| `PgBegin`, `PgStoreBlock`, `PgEnd` | the loop of `SyncChainDB`; each turn asks for the node's height again |
| `SyncAgain`, `EndSync`, `GiveUp`, `Register` | `mainCore`: repeat until both heights are equal, return an error, register |
| `RunRewind`, `RunConnect`, `RunPg`, `RunSummary`, `RunInfo` | the writes of the handlers, in `ChainFollow`'s order |

A stop is one of the process: what a write has returned from is on the disk.  SQLite is
opened with `synchronous = OFF`, so a power failure could lose or damage more; that is
not modelled.  While the program runs the node moves only when the writes for the last
block are done (`drained` and `picked` of `ChainFollow`).  `MayMoveInGap` decides whether
it may move after both goroutines have looked at its height for the last time and before
the registration; the run says no, and section 3 tells what happens otherwise.

### ApiStatus and the code

| Variables | Code |
|---|---|
| `queue`, `pc`, `cur` | the collection queue and `ProcessBlocks`, as far as heights are concerned |
| `summaryHeight` | `DB.dbSummaryHeight` |
| `nodeChan`, `dbChan` | `updateStatusNodeHeight`, `updateStatusDBHeight` |
| `main`, `initial` | `mainCore` from `newContext` to the sending of the initial height |
| `status` | `appContext.Status` |
| `reading` | the locals of `StatusNtfnHandler`: the height received, that of `GetBestBlockSummary`, that of `GetHeight` |
| `failures` | how often a call of the node or of SQLite has failed |

| Action | Code |
|---|---|
| `Dequeue`, `SendNodeHeight` | `ProcessBlocks`, with a non-blocking send after all handlers |
| `Store`, `SendDBHeight` | `DBDataSaver.Store`, cut between the row and the height |
| `SwitchToSideChain` | the rows of a reorganization, stored one by one without a report |
| `NewContext`, `GetHeight`, `SendInitialHeight` | `mainCore`, while blocks already arrive |
| `TakeNodeHeight`, `TakeDBHeight`, `ReadHeight`, `Update` | `StatusNtfnHandler`, cut after each of its two reads of the best height; `Update` decides from the locals alone |

No lock is held from the first read to the status: rows are stored in between, and `Ready` may be
set for a height that is no longer SQLite's.  `ReadyOnLastNews` says that then the height of the
newer row is still in the channel or about to be sent, so that the handler looks again.

### WebsocketHub and the code

| Variables | Code |
|---|---|
| `clients`, `closed` | `WebsocketHub.clients`, the clients whose channel is closed |
| `run`, `signal`, `todo` | the place of `run()`, the signal it hands out, what its `range` has still to come to |
| `unreg` | the executions of `unregisterClient`: by the run loop, by `Stop`, by the goroutines for slow clients |
| `stop`, `quitClosed` | `Stop`, and `quitWSHandler` |
| `handler`, `pinger` | the goroutines of a connection: `WSBlockUpdater` or `rootWebsocket`, and its pings |
| `store`, `data`, `shown` | `Store` of the pages, its last block, the last block written to each connection |
| `dropped`, `due`, `crashed` | a client was too slow; the block it was last signalled; the process is gone |

| Action | Code |
|---|---|
| `Register`, `Unregister` | `RegisterClient`, `UnregisterClient`: a send that the run loop receives |
| `StartLoop`, `Tick`, `ReadData`, `WriteMessage`, `ChannelClosed`, `Quit` | the handler's loop, cut where it waits; the ping goroutine |
| `StoreData`, `RelayBlock` | `Store`: the data under the lock, then the signal |
| `RelayPing`, `PickClient`, `Deliver`, `Drop`, `EndRange`, `RunQuits` | the cases of `run()`; a client that does not wait is unregistered by a goroutine |
| `Lookup`, `Delete`, `CheckClosed`, `CloseChannel` | `unregisterClient` and `safeClose`, step by step, by whoever executes them |
| `CallStop`, `StopClient`, `StopReturns` | `Stop` |
| `Crash` | the Go runtime ends the process: the map is used by two goroutines, one of which deletes or registers a client (`MapRace`), a channel is closed twice (`DoubleClose`), a signal is sent on a closed one (`SendOnClosed`) |

A signal carries no data: the handler reads the block when it writes (`web.go:416`), so a
connection may be written a newer block than the one it was signalled, and then that block
again.  The comment of `unregisterClient`, "should only be called from the loop in run()"
(`websocket.go:91`), is not what the code does: lines 122 and 148 call it from elsewhere, and
`MapRace` is reachable there.  The ticker's `Stop` does not close its channel, so the ping
goroutine of every connection that has ended stays for ever (`web.go:387`): in the model it
waits.  Every connection's ticker pings all clients.  The two hubs are the same but for the
signal of the mempool, which is as the ping here: it carries no block.

### MempoolMonitor and the code

| Variables | Code |
|---|---|
| `accepted`, `height` | hcd (external): ticket purchases accepted, best height |
| `notified`, `newTxChan`, `handled`, `handler` | `OnTxAccepted`, the queue of `TxHandler`, the end of `ProcessBlocks` |
| `monitor`, `currentHeight`, `newTickets` | `TxHandler` and `mpoolInfo` |
| `skipped`, `collected`, `collections`, `failed` | tickets that were to trigger and did not, and what the last collection had |
| `saver`, `info`, `cache`, `page` | the goroutines of `StoreMPData`, the cache `webUI.MPC`, the two parts of the template's data |

| Action | Code |
|---|---|
| `OnTxAccepted`, `HandleBlock`, `StoreBlock` | a message is sent unless the queue is full |
| `TakeBlock`, `PassOver`, `TakeTicket` | the cases of `TxHandler`; the times only decide, so the two intervals are chosen |
| `CollectFails`, `Collect` | `CollectAndStore`: the counter and the timer are reset first, the savers are started last |
| `AskLock` to `Relay` | `StoreMPData` of the web pages, cut at every lock |

Times are compared only, and only in one place is the comparison about order: whether a
message was sent before the last collection began, which it remembers.  The API's own cache
(`sqliteDB.MPC`) has a saver of a single step, in another goroutine, that nothing relates to
the pages; the fee dumper writes a file.  `quit` ends the monitor between two messages.

### PageScripts and the code

| Variables | Code |
|---|---|
| `page`, `ws`, `sockets` | the page Turbolinks shows, the global `ws`, every `MessageSocket` with its closure's `handlers` and `pinger`, the browser's state and what the event loop has still to deliver |
| `status`, `kept` | the text of the footer's permanent element, and whether it is still the first one |
| `sent`, `asked`, `decoded` | requests sent, this page's last one, the one whose answer is shown |
| `mapPage`, `visits`, `requests`, `table`, `chart`, `lost` | the page of the nodes and the `$.get` calls under way |
| `call`, `result` | a call of a conversion or of the loader |

| Action | Code |
|---|---|
| `VisitPage` | Turbolinks replaces the page; its script runs `manageWebSocket` |
| `SendRequest`, `SendNothing` | the button of the page that decodes transactions, with a text and without |
| `OnOpen`, `OnMessage`, `OnEnd` | a task of the event loop: `onopen`, `onmessage`, `onerror` and `onclose` |
| `Accept`, `Refuse`, `ServerUpdate`, `ServerEnd` | the server's end of a connection |
| `ServerAnswer`, `ServerFails`, `ReadTimeout` | the goroutine that reads requests: it answers one, or ends at an error of `Receive` or `Send`, or when nothing came in time; the connection stays |
| `NodesAnswered`, `WorldAnswered`, `RequestFails` | the callbacks of `node.js` |
| `Evaluate` | `bytes`, `timeSince`, `decimalParts`, and what `config.js` passes to `require` |

What the model shows of the pages, beyond the properties: the home page's socket has the path
`/ws`, which is no page's root, so each visit of it reconnects; a page does not reconnect when
the server has closed the connection; the server stops reading a connection after 12 s without
a message, and does not say so (`explorer.go:638`; a page pings every 7 s, unless the browser
slows its timers), and it does the same after a request above 1 MB or a failed answer (lines 639
and 692), so that this request and all later ones of the connection stay unanswered:
`LastAnswerShown` is about a connection that is still read; the page of the nodes has no footer,
so the permanent element is lost there, and the footer of the page after it says "Connecting to
WebSocket..." until the socket has something new to say.  `getnodeinfo` may answer `null`, on which the callback throws.  A new
block that arrives while a page is being rendered is not related to the rows of that page.

Sizes are computed exactly; the floating point of the code agrees with this for 0 to
3 000 000 bytes, every value compared.  `bytes` rounds twice, so that 12450 bytes are 13 kB, and
just below a full unit it shows "1000 kB": `ReadsBack` allows what two roundings do.

An amount is a whole number of units of 10^-8, as a double; `decimalParts` applies `toFixed` to it.
The double nearest to a number that is not halfway between two of *p* digits lies on the same side
of every such halfway point; at a halfway point `Fixed` computes from the bits of the double on which
side it lies: a double below goes down, one above, or equal, goes up.  So 1.2345 with three digits
is 1.234, and 0.125 with two is 0.13.  `Representable` bounds this to amounts below 2^26 coins, where doubles tell all amounts
apart.  The share of one vote in the subsidy (`extras.tmpl`, the total divided by five) need not be a
whole number of units; it is not in the model.

## 3. Runs

| Run | Checks | Shows |
|---|---|---|
| `anytime` | `TypeOK`, `SideChainOnlyInReorg`, `ReorgDataStable` | with no assumption on timing, RPC errors, and reorg channels of capacity 1 that overflow, a monitor's reorganization stays consistent |
| `follow` | `NoPanic`, `NeverHung`, `StakeFollowsNode`, `PoolInfoReady`, `RowsMatchNode`, `StakeFollowsTips`, `WebFollowsTips`, `WebCatchesUp` | with `drained`, `picked` and `steady` the stake database and the web pages refine `TipFollower`, the pages catch up, and SQLite has the main chain with the right pool info in every row |
| `handoff_safety` | `SignalsNotMixed`, `KeepsPromise` | three callers, a buffer, shutdown at any time: `SyncCall` is implemented |
| `handoff_live` | `TypeOK`, `CallsReturn` | unbuffered channel: no deadlock, every call returns |
| `startup` | `TypeOK`, `NoTableHasHoles`, `SyncedTogether`, `NeverStuck`, `Recovers` | stops between any two writes: SQLite's tables never have holes, also when the chain is reorganized; on a chain that only grows each synchronization ends with the three stores at one block, the first block notified can be connected, and in the end all reach the best block |
| `api` | `TypeOK`, `NothingBeforeItsRow`, `UpToDate`, `ReadyWhenTrue`, `HeightsShown` | with a reorganization, a failing call and channels that overflow no height is shown before its row, and `Ready` is set on an older height than SQLite's only while a newer one is to come; without them the height shown catches up |
| `page` | `TypeOK`, `OnlyCurrentActs`, `StatusOfCurrent`, `LastAnswerShown`, `MapShown`, `ReadsBack` | three sockets whose connections open, fail and end in any order, two requests that are answered or fail, two overlapping visits of the map: nothing of an old socket reaches the page, and what is shown is right when everything has arrived, the answers as long as the server reads |
| `hub` | `TypeOK`, `RegisteredOpen`, `NoBlockMissed`, `SafeWhileKeepingUp` | slow and failing clients, `Stop` at any time: no closed channel is registered, no block is missed by a registered client; every crash needs a dropped client or `Stop` |
| `hub_live` | `StoreReturns` | the block handler's signal is received, whatever the clients do, until `Stop` |
| `mempool` | `TypeOK`, `SkippedWereCollected`, `PageOfOneCollection`, `PageShowsCache` | overlapping savers, a queue that overflows, collections that fail: what is skipped was collected, the page shows one collection |

These find what the code does against its own comments (`PROJECT.json`, findings):

| Run | Violates | What happens |
|---|---|---|
| `undrained` | `NoPanic` | blocks of the old chain still queued when the flag is set are appended to the side chain; the switch fails and the handler panics |
| `mempool_savers` | `SaversReturn` | a saver holds the read lock and asks for it again while the saver of the next collection waits for the write lock: both wait for ever, and the block handler with them if `templateDataMtx` is held |

Other deviations are stated in the modules, and found by TLC when a configuration is changed as
said here; no run repeats them.

| Property | Constants | What happens |
|---|---|---|
| `ChainFollow!NeverHung` | `RpcMayFail = TRUE` in `follow` | a failed RPC leaves a gap; the next block leaves `nodeMtx` locked; the block after that hangs |
| `ChainFollow!PgHasMainChain` | as `follow` | blocks of a reorganization never reach PostgreSQL while the program runs (`main.go:319`) |
| `StartupSync!NeverStuck` | `MayMoveInGap = TRUE` in `startup` | a block found between the last look of the synchronization and the registration is connected by nobody, and the next one hangs the handlers |
| `StartupSync!StartsAboveCommonBlocks` | as `startup` | the start is chosen by heights: rows of a chain abandoned while the program was down stay |
| `ApiStatus!ReadyWhenEqual` | as `api` | when the database's height is taken before the node's height of the same block, `Ready` stays false although the heights shown are equal |
| `WebsocketHub!StopEndsRun` | as `hub` | a connection's handler receives the one value that `Stop` sends, and the run loop goes on |
| `WebsocketHub`: `crashed = FALSE` | as `hub` | a slow client's goroutine and the loop use the map at once (`MapRace`); `Stop` and such a goroutine close a channel twice |

What the passing runs assume can be taken away to see why it is there.  `follow` without
`picked` violates `PoolInfoReady` (the stake database refuses the first block of the new
chain, of the same height, before its `ReorgHandler` runs, and SQLite collects it without
its pool info), without `steady` `RowsMatchNode` (`Collect` returns a newer block than the
notified one, whose own row is then missing, or has the pool info of the stake database's
best block); its other properties of the stake database do not need `steady`, and section 4
says what is left of those of SQLite and the pages.  `UpToDate`
without `Undisturbed` is violated by a reorganization, whose rows nobody reports.  In
`BlockHandoff` the step `SendOnClosed`, which `handoff_safety` takes, is a panic of the code:
a caller that is inside `BlockConnectedSync` at shutdown sends on a channel that `main` has
closed.

### Bounds, and why they are enough

* *The block tree* has nine blocks, with forks at heights 0 and 1: a reorganization
  attaches one, two or three blocks, detaches one or two, to the same height or to a
  greater one, and a second reorganization can return to the first chain.  The
  monitors tell blocks apart only by hash, parent and height, so longer chains repeat
  these cases.  `anytime` has two branches of two blocks instead, because there the
  node is not held back.
* *MaxTips* (4 to 6) bounds how often the node moves.  Four moves are a block, a
  reorganization, a second one, and a block after it; with six there are three
  reorganizations in a row.
* *ReorgBuffer* is 2, as in the code, and 1 in `anytime`, where the channel is meant to
  overflow after two reorganizations.
* *Callers* is 3: one inside, and two that compete for the mutex; *Cap* 0 and 2 are
  the unbuffered channel and a buffer with room to spare.

* *StartupSync* has two branches that leave the chain at height 1 and end at heights 4 and 3;
  the node starts at height 0 or 2 and moves twice, once to the other branch if it
  likes.  A stake database can then be more than twice as high as a table, which is what the
  code's limit for rewinding is about.  Two stops are one during the first synchronization
  and one during the repair of what the first has left.
* *WebsocketHub*: two clients, so that one is picked while the other is dropped, unregisters
  or registers; one block and one ping, because a client that is busy with a
  ping when the block is signalled is the one that is dropped.  `hub_live` has one client, two
  blocks and two pings: the signal of the second block waits for the loop while the client of the
  first is still unregistering.  *MaxGoroutines*, the goroutines that unregister one client at
  once, is the number of signals, two in `hub` and four in `hub_live`: the goroutines may all
  start before the first of them has taken the client out of the map.  `LoopWaitsForNoClient`
  shows that as many leave no behaviour out; with fewer the loop of the model would wait.
* *MempoolMonitor*: a queue of two, filled by two tickets and two blocks; up to four collections,
  so that two savers overlap while a third is started.  `mempool_savers` needs two collections,
  from one ticket and one block.
* *PageScripts*: three sockets are a current one and two before it, whose ends are still to
  come; the paths are one for each way a page can differ (home, two of one root, of which one
  has no footer, one without a websocket).  The conversions are called with the values around
  each border of their units and all small ones, the amounts with halfway points that `toFixed` rounds
  up and down; queries have up to three parameters.
* *ApiStatus* starts at height 1, so that two blocks are reported besides the initial height.
  *Cap* 3 is a channel that a reorganization of three blocks fills and overflows; without one
  it has room, as 64 has in the code.  One failure and one reorganization, each at any point.

Deadlock is not checked where the system may really stop: the node has made its last
move, a panic has ended the process, or the handler has quit.  The tab, the hub and the mempool
monitor stop when the bounds on visits, blocks and tickets are reached; `mempool_savers` stops
in its deadlock, which is what it is about.

### Fairness

`FairSpec` of `ChainFollow` assumes weak fairness of three things: the delivery of
what the node has sent (the RPC client's goroutine calls the handlers one after the
other), each `ReorgHandler` and `ProcessBlocks` (goroutines that are always scheduled
again).  The node owes no new block.  In `BlockHandoff` the handler and a caller's
sends are weakly fair.  `Lock` is strongly fair, because Go's `sync.Mutex` hands itself
over to a waiter that has waited a millisecond.  Nothing is assumed of `Call` and
`Quit`.  In `StartupSync` both goroutines, `mainCore` and the handlers are weakly fair; with
`mainCore` goes the user, who starts a stopped program again and deletes the stake database
when told to.  In `ApiStatus` the three goroutines are.  The node owes nothing anywhere.

In `WebsocketHub` the run loop, each execution of `unregisterClient` and the handlers are weakly
fair, and so is the end of a process that panics; a write ends because of `wsWriteTimeout`.
Strong fairness is assumed of the block handler's send and of the handlers' unregistering,
which the run loop's `select` receives among others: Go chooses among the ready cases of a
`select` at random and serves the senders of a channel in their order.  Connections, pings,
blocks and `Stop` may or may not come.  In `MempoolMonitor` the monitor is weakly fair, the block
handler and each saver strongly, for a mutex of Go is not withheld from a waiter for ever; that
`SaversReturn` fails even so shows that it is a deadlock.  The properties of `PageScripts` are
safety properties: they say what holds when everything that was on its way has arrived.

## 4. Proofs

The theorems hold for all values of the constants, under the named assumptions of the
modules: `Blocks` is a set of sequences closed under prefixes, finite or not;
`StartBlocks` is a part of it; `MaxTips` and `ReorgBuffer` are numbers; in
`BlockHandoff` there is a block hash and the two model values are not callers or
hashes; in `ApiStatus` the first height is not above the last, and the capacity of the
channels is positive; in `StartupSync` the bounds are numbers; in
`WebsocketHub` "nobody" is not a client; the pages of `PageScripts` include those the scripts
name, only the home page has its root, `Nothing` is no list of nodes and no chart, and
`NoValue` no build; the lists of nodes have counts in the natural numbers, and the conversions
are called with sizes up to `LargestExact` (3 000 000 bytes, below which the code's floating
point is exact), whole seconds, amounts below 2^26
coins (`Representable`) and any query.  A theorem that needs more says
so as its hypothesis.

* `ChainFollowProofs!TypeCorrect`: `Spec => []TypeOK`.  `TypeOK` is inductive.
  The proof has one step per action.  The least obvious one is `WiredBlock`: that
  `Rewritten` yields rows needs that the *last* block of a height in the side chain
  exists (`LastPosition`, from the well-foundedness of the naturals).  That a reorg
  channel never exceeds its capacity is part of it.
* `ChainFollowProofs!SideChainCorrect`: `Spec => []SideChainOnlyInReorg`, whatever
  the timing and whatever fails.  Inductive together with `TypeOK`.  `ReorgStep`
  reduces every step to one of three kinds: it leaves the reorganizations alone, a
  block handler appends to its side chain or ends its reorganization, or a
  `ReorgHandler` starts one; the last can only happen with an empty side chain, by
  the invariant itself.
* `ChainFollowProofs!ReorgTargetStable`: `Spec => ReorgDataStable`, from `ReorgStep`.
* `ChainFollowProofs!WorkEnds`: `Spec => WorkIsDone`.  `WorkLeft` counts the steps that what the node has
  announced still takes, and every step of the program lowers it or is a panic.  With `NeverHangs`
  and `NeverPanics` below it is what `WebCatchesUp` needs besides fairness and ENABLED.
* `FollowProofs!FollowInvariant`: `Followable => (Spec => []FollowInv)`.  `Followable` is the timing
  of the run `follow` but for `steady`: a reorganization waits for what is under way, its monitors
  have it before its first block comes, RPCs are answered, and a reorg channel holds one target.
  The program enforces none of the timing; section 3 tells what goes wrong without it.
  The idea of `FollowInv` is that a place in the pipeline is a height.  What is still to be
  delivered ends at the node's best block, the queue lies below it, and the block being handled
  below the queue (`Pipeline`), so `taken` is the height `ProcessBlocks` has come to and `Done(m)`
  the height monitor `m` has.  One old best block `a`, one fork `k` and one new head `t`
  serve all three monitors: the side chain of each is the chain from `k` to `Done(m)`
  (`Phase`), they come to `t` one after the other within the handling of one block
  (`Turns`), and the stake database is at `a` until its own monitor has switched (`StakeAt`).
  `History` ties the heights to the node's former best blocks, for the refinements.  The
  proof has a lemma for each action; the longest are `NodeReorg`, where the witnesses
  change, and `WiredBlock`, whose rows are written in the order of the side chain.
* `FollowProofs!NeverPanics`, `NeverHangs`, `StakeAtTheTip`, `PoolInfoIsReady`: the properties of
  `follow` about the stake database, from the invariant.  `StakeFollowsNode` alone is not
  inductive: it says nothing while anything is under way.
* `FollowProofs!RowsAreThose`, which also needs `steady`: then what is collected is the block being
  handled (`StoresAt`), and every row is that of its own block.
* `FollowProofs!NoRowIsStale`, `WebAtTheTip`: what holds without `steady`: in the end no row is one of
  an abandoned chain, the best row is right, and the pages show the best block, although rows
  below may be missing or have another block's pool info.  `LooseAt`, the last part of
  `FollowInv`, says that what is collected is some block of the chain no lower than the one
  being handled; that the pages are as far as their monitor or further, on the chain; that each
  row is one of the chain, or of the old one until the SQLite monitor has switched, which the
  height of the new head lets it do at every row; and that where the pages are at the block
  handled last, its row is right.
* `FollowProofs!StakeImplementsFollower`, `WebImplementsFollower`: the refinements of `TipFollower`.
  Every step leaves the view at its place in `tips` or moves it to the next, which `History`
  gives; a reorganization, which `ChainFollow` handles block by block, is one step.  The
  second needs `steady`.
* `BlockHandoffProofs!TypeCorrect`, `HandoffCorrect`: types, and the inductive
  invariant `HandoffInv`.  `SignalsNotMixed` is not inductive: it says nothing of the
  places where the block is in the channel and the token has not been taken.
  `Stage` lists, for the caller that holds the mutex, where its block, the token and
  the handler can be, and that without such a caller all are at rest.
* `BlockHandoffProofs!NoMixedSignals` follows from the invariant.
* `BlockHandoffProofs!NoCallStuck`, `CallsAdvance`: the part of `CallsReturn` that is safety.  Whoever is
  inside, its next step or the handler's is not blocked (`CanProceed`, until the shutdown), and
  each such step lowers `StepsLeft`; what remains for TLC is that the steps are taken, and that
  the mutex comes to every waiter.
* `BlockHandoffProofs!PromiseKept`: `Spec => Promise!Spec`.  `Work` maps to
  `Handle` of the caller inside, `Release` to its `Return`, `Call` to `Call`,
  everything else to a stutter.

* `ApiStatusProofs!TypeCorrect`: types, with the capacity of both channels (`OfferedHeight`
  and `TakenHeight` say what a channel holds after a send and a receive).
* `ApiStatusProofs!ReportCorrect`: `Spec => []NothingBeforeItsRow`, inductive with the
  types: rows are never removed (`StoredHeight`), so a height that was stored when it set out
  is stored wherever it is on its way.  This is why the formula speaks of every place.
* `ApiStatusProofs!ReadyCorrect`: `Spec => ReadyOnLastNews`.  `NewsInv` says that as long as the node
  has not reorganized, whatever the locals of `StatusNtfnHandler` agree on is SQLite's best height,
  or a height is in the channel or about to be sent.  It is kept because a row that changes the
  best height is always followed by a send, and a full channel still holds a height that the
  handler has to take.
* `ApiStatusProofs!StatusUpToDate`: `Spec /\ []KeepsUp => []UpToDate`.  `KeepsUp` is about the
  behaviour: no height finds the channel of the database's heights full (it holds 64) when
  it is sent, which would drop it, and nothing would report that row.  While the chain only grows and no call fails the best row
  is shown, on its way, or about to be sent (`Covered`), and what waits in the queue
  continues the rows (`Line`).
* `ApiStatusProofs!BurstUpToDate`: `MaxHeight - StartHeight < Cap` implies `Spec => []UpToDate`, with
  no assumption on the behaviour.  Each block sends one height and `mainCore` one more (`Room`), so
  fewer blocks than the channel holds never fill it, however late `StatusNtfnHandler` runs.

* `StartupSyncProofs!SyncInvariant`: `Spec => []SyncInv`, for any block tree, any number of stops,
  restarts and moves of the node, with and without PostgreSQL.  A table without holes (`Whole`) is
  as good as the height of its last row, so the invariant speaks of heights only.  Every write
  continues its table: in the synchronization because it starts at the lowest of both tables and
  the stake database (`SqPlace`), afterwards because the stake database is never above
  both tables when a block is notified (`Resting`, `AtConnect`), and a stop may fall anywhere
  because the next start looks at the tables again.  `AtReorg` says what the handlers
  have still to write for a reorganization, as a formula for the i-th write, and
  `ReorgPlace` where the stores are after m of them.
  As long as the chain only grows (`Straight`) each row is that of the main chain's block, and the
  three stores are level when nothing is to be written.
* `StartupSyncProofs!SyncTypes`, `TablesHaveNoHoles`, `StoresEndTogether`: three properties of `startup`, from
  the invariant.
* `StartupSyncProofs!ConnectsWhatIsNotified`: `~MayMoveInGap => (Spec => []NeverStuck)`, by the part
  `Noticed`: the heights that the synchronization has seen last are the node's when it ends.
  Without the hypothesis the property is violated, as said above.

* `PageScriptsProofs!SocketInvariant`, `SocketTypes`, `CurrentActs`, `FooterTrue`: `SocketInv` adds to
  the types that a socket's events are `Ordered` (the opening one first, the ending one last,
  none after it) and that the current socket has all handlers of the page (`CurrentTold`).
  `StatusOfCurrent` alone is not inductive: an event that opens a socket must not be able to
  come after the one that ends it.
* `PageScriptsProofs!AnswersAreShown`: `PageSpec => []LastAnswerShown`.  `AnswerInv` says where the
  answer to the last request is while the socket is open and the server reads from it: the request is the last that the
  server has not read, or its answer is the last on its way, or it is shown (`AnswerDue`).  What
  keeps it is that both queues are served in their order (`DueInOrder`, `DueWhenTold`),
  that a socket which still connects has been asked nothing, and that the page forgets what
  it asked when it is left.
* `PageScriptsProofs!MapIsShown`: `PageSpec => []MapShown`.  Until the map is there the last visit has a
  request under way (`MapInv`), which an answer to an earlier visit does not take away; the
  scale of a chart travels with its nodes in the closure of the callback.  That the loop over
  the nodes finds the largest count of every list is `MaxNumScales`, by induction over the
  list's beginnings.
* `PageScriptsProofs!ConversionsReadBack`: `PageSpec => []ReadsBack`, for every argument within the bounds
  above.  `SmallSizes` and
  `LargeSizes` bound what the two roundings of `bytes` do in each unit, `AgesReadBack` takes
  the units of `timeSince` one after the other, `RoundedIsNearest` and `HalvedIsNearest` that `Fixed` is
  within half of the last digit on either side of a halfway point, `PartsAreRead` shows that the zeros that
  `decimalParts` cuts off are the only thing lost, and `LastBuildLoaded` that the loader asks for
  the build of the last parameter that names one.

* `WebsocketHubProofs!HubInvariant`, `HubTypes`, `RegisteredStaysOpen`, `BlocksReachClients`, `HubSafe`:
  `HubInv` says who may be where in `unregisterClient`.  Whoever checks or closes a channel has
  taken the client out of the map (`OutOfMap`), so no closed channel is in it, even when two
  goroutines unregister the same client; a connection that was not registered yet is in nobody's
  hands (`Fresh`), so that it does not come back; a client without the block is in the loop's
  `todo`, is signalled, or is being unregistered (`BlocksTold`); and until a client is dropped
  or `Stop` is called only the loop executes `unregisterClient` (`LoopAlone`), which is why
  nothing crashes.
* `WebsocketHubProofs!LoopWaitsForNoClient`: the loop's send never waits: the client receives the
  signal, or there is room for the goroutine that unregisters it, where `MaxBlocks + MaxPings <=
  MaxGoroutines`.  This is the safety part of `StoreReturns`, and it says that the bound on the
  goroutines bounds nothing.  `SignalInv` counts: the *i*-th goroutine of a client was started for
  the *i*-th of the signals that it was offered (`OnePerSignal`), and a signal is a block that
  was relayed or a ping that is not waiting for the loop any more (`HandedOut`).
* `MempoolProofs!MempoolInvariant`, `MempoolTypes`, `SkippedCollected`, `OneCollection`, `PageIsCache`:
  `MempoolInv` adds that each collection has used up a message (`Counted`), that a message marked
  as sent before the last collection is in it (`BeforeIsCollected`), and that while a saver is
  between its read lock and its return the cache and what it has read agree (`SaversAgree`): it
  is the outer read lock, and not those of the getters, that this rests on.

Induction over data uses no induction theorem of the library, whose operator parameters the
provers cannot instantiate.  `LeastNumber` and `UpTo` (`PageScriptsProofs`) say it of sets: a set
that has 0, and with each number below a bound the next, has all of them up to the bound.
What a recursive function is follows from its value being given outright and shown to satisfy
its equation.

Only model-checked: the liveness properties, which need fairness and ENABLED (`WebCatchesUp`,
`CallsReturn`, `Recovers`, `HeightsShown`, `StoreReturns`); of the first two the measure that
decreases is a theorem, of the last that the loop waits for nobody.  The two violated properties have
counterexamples.  Every other property of the runs is a theorem.

## 5. Plan

Done: the core (`ChainFollow` to `ApiStatus`), `WebsocketHub`, `MempoolMonitor`, `PageScripts`.  Left,
in this order:

1. **PgStore** and **AddressCache** (`db/hcpg/pgblockchain.go`, `queries.go`): the tables as
   sets of rows, a block's statements in their order and its parallel parts, a failure
   or crash between any two, spending updates, the `lastBlock` map, address balances.
2. **StakeDB**: the block cache by height and the maturing tickets, the live ticket cache,
   `Open` after a crash; refines the stake database of `ChainFollow`.
3. **PureAlgorithms** (`txhelpers/`, `explorer/explorertypes.go`, `semver/`, the ranges of
   `apiroutes.go`): against reference definitions over bounded inputs.
4. **ApiCache** (`hcdataapi/apicache.go`, `blockmemdb.go`): queue and map as one relation, locks
   at every return.  Last, because no other package of the program uses it.

Theorems to come: that `ChainFollow`'s stores are what `StartupSync` takes the handlers to write; for
each module of the plan its type invariant and main safety invariant.

## 6. What is not modelled

What the plan names is not modelled yet.  Not planned: API routes and pages as such (queries
without state), configuration, logging and the RPC connection (I/O), the tools under `cmd/`
(sequential loops over the stores of other components; `rebuilddb2` is that of
`SyncChainDB`), the rendering of templates and vendored scripts.  Of the pages, the rows of the block
table, the switch between light and dark, and `subsidyToString`, which nothing calls, are left out;
of the mempool, the computation of the fees and the file dumper; of a hub's crash, everything after
it.  In `ChainFollow` the amounts, estimates and
tickets that the stores hold are abstracted to the block they are of, winning tickets and
new-transaction notifications have no part in following the chain, and reads by height are
abstracted to the best row.
