--------------------------- MODULE MempoolMonitor ---------------------------
(***************************************************************************)
(* The mempool monitor (mempool/mempool.go), which decides at each new     *)
(* ticket purchase and each new block whether to collect the mempool's     *)
(* data, and the saver of the web pages (StoreMPData of web.go), which     *)
(* runs in a goroutine of its own for every collection, beside the block   *)
(* handler (Store).                                                        *)
(*                                                                         *)
(* Ticket purchases and collections are numbered as they come; a           *)
(* collection holds all the tickets up to a number.  Times are only        *)
(* compared: a message in the queue remembers whether it was sent before   *)
(* the timer of the collections was last reset.                            *)
(***************************************************************************)
EXTENDS Naturals, Sequences

CONSTANTS
    Cap,          \* newTxChanBuffer
    TicketLimit,  \* newTicketLimit
    MaxTickets,   \* bound: ticket purchases
    MaxBlocks     \* bound: blocks mined

ASSUME MempoolAssumption ==
    /\ Cap \in Nat /\ TicketLimit \in Nat
    /\ MaxTickets \in Nat /\ MaxBlocks \in Nat

VARIABLES
    \* the node and its notifications
    accepted,     \* tickets the node has accepted
    notified,     \* tickets whose notification was sent
    height,       \* the node's height
    newTxChan,    \* the monitor's queue
    \* the block handler
    handled,      \* blocks handled
    handler,      \* what it does
    \* the monitor
    monitor,      \* what TxHandler does
    currentHeight, \* mpoolInfo.CurrentHeight
    newTickets,   \* mpoolInfo.NumTicketsSinceStatsReport
    skipped,      \* tickets that were to trigger a collection and were skipped
    failed,       \* the last collection failed
    collected,    \* the tickets in the last one that did not
    collections,  \* collections that did not fail
    \* the savers of the web pages
    saver,        \* what the goroutine of a collection does
    info,         \* the collection whose fee info it has read
    cache,        \* the collection in webUI.MPC
    page          \* the collections that the template's two parts are of

nodeVars == <<accepted, notified, height>>
blockVars == <<handled, handler>>
monitorVars == <<monitor, currentHeight, newTickets, skipped, failed, collected,
                 collections>>
saverVars == <<saver, info, cache, page>>
vars == <<nodeVars, newTxChan, blockVars, monitorVars, saverVars>>

Tickets == 1..MaxTickets
Collections == 1..(MaxTickets + MaxBlocks)
Block == 0   \* the nil hash
Messages == [hash : Tickets \union {Block}, before : BOOLEAN]

\* The initial collection, number 0, is stored everywhere before the monitor starts.
Init ==
    /\ accepted = 0 /\ notified = 0 /\ height = 0
    /\ newTxChan = <<>>
    /\ handled = 0 /\ handler = "wait"
    /\ monitor = "select" /\ currentHeight = 0 /\ newTickets = 0
    /\ skipped = {} /\ failed = FALSE /\ collected = 0 /\ collections = 0
    /\ saver = [k \in Collections |-> "none"]
    /\ info = [k \in Collections |-> 0]
    /\ cache = 0
    /\ page = [info |-> 0, fees |-> 0]

-----------------------------------------------------------------------------
(* The node, OnTxAccepted and the end of ProcessBlocks.                    *)

\* Faulty: the queue grows.
Enqueue(tx) == newTxChan' = Append(newTxChan, [hash |-> tx, before |-> FALSE])

\* A message that finds the queue full is dropped.
Send(tx) ==
    newTxChan' = IF Len(newTxChan) < Cap
                 THEN Append(newTxChan, [hash |-> tx, before |-> FALSE]) ELSE newTxChan

AcceptTicket ==
    /\ accepted < MaxTickets
    /\ accepted' = accepted + 1
    /\ UNCHANGED <<notified, height, newTxChan, blockVars, monitorVars, saverVars>>

OnTxAccepted ==
    /\ notified < accepted
    /\ notified' = notified + 1
    /\ Send(notified')
    /\ UNCHANGED <<accepted, height, blockVars, monitorVars, saverVars>>

MineBlock ==
    /\ height < MaxBlocks
    /\ height' = height + 1
    /\ UNCHANGED <<accepted, notified, newTxChan, blockVars, monitorVars, saverVars>>

\* The block comes to Store of the web pages, which locks the template's data.
HandleBlock ==
    /\ handler = "wait" /\ handled < height
    /\ handler' = "store"
    /\ UNCHANGED <<nodeVars, newTxChan, handled, monitorVars, saverVars>>

TemplateLocked == \E k \in Collections : saver[k] = "rates"

\* Store returns and the monitor is told of the block.
StoreBlock ==
    /\ handler = "store" /\ ~TemplateLocked
    /\ handler' = "wait"
    /\ handled' = handled + 1
    /\ Send(Block)
    /\ UNCHANGED <<nodeVars, monitorVars, saverVars>>

-----------------------------------------------------------------------------
(* TxHandler and CollectAndStore.                                          *)

\* The counter and the timer are reset before the data is collected: what is in the
\* queue was sent before.
BeginCollect(queue) ==
    /\ monitor' = "collect"
    /\ newTickets' = 0
    /\ newTxChan' = [i \in DOMAIN queue |-> [queue[i] EXCEPT !.before = TRUE]]

TakeBlock ==
    /\ monitor = "select" /\ newTxChan # <<>> /\ Head(newTxChan).hash = Block
    /\ BeginCollect(Tail(newTxChan))
    /\ UNCHANGED <<nodeVars, blockVars, currentHeight, skipped, failed, collected,
                   collections, saverVars>>

\* A transaction that cannot be fetched, or whose height cannot, is passed over.
PassOver ==
    /\ monitor = "select" /\ newTxChan # <<>> /\ Head(newTxChan).hash # Block
    /\ newTxChan' = Tail(newTxChan)
    /\ UNCHANGED <<nodeVars, blockVars, monitorVars, saverVars>>

Triggers(quiteLong, longEnough) ==
    \/ height > currentHeight
    \/ quiteLong
    \/ newTickets + 1 >= TicketLimit /\ longEnough

\* Faulty: the two times are compared the wrong way round.
TakeTicketWrongWay(trigger) ==
    /\ monitor = "select" /\ newTxChan # <<>> /\ Head(newTxChan).hash # Block
    /\ currentHeight' = IF height > currentHeight THEN height ELSE currentHeight
    /\ IF trigger /\ Head(newTxChan).before
       THEN BeginCollect(Tail(newTxChan)) /\ UNCHANGED skipped
       ELSE /\ newTickets' = newTickets + 1
            /\ newTxChan' = Tail(newTxChan)
            /\ skipped' = IF trigger THEN skipped \union {Head(newTxChan).hash} ELSE skipped
            /\ UNCHANGED monitor
    /\ UNCHANGED <<nodeVars, blockVars, failed, collected, collections, saverVars>>

\* A ticket purchase triggers a collection if the height is new, if the last one is
\* quite long ago, or if there are enough tickets and it is long enough ago; but not
\* if it was sent before the last one, which must then have it.
TakeTicket(trigger) ==
    /\ monitor = "select" /\ newTxChan # <<>> /\ Head(newTxChan).hash # Block
    /\ currentHeight' = IF height > currentHeight THEN height ELSE currentHeight
    /\ IF trigger /\ ~Head(newTxChan).before
       THEN BeginCollect(Tail(newTxChan)) /\ UNCHANGED skipped
       ELSE /\ newTickets' = newTickets + 1
            /\ newTxChan' = Tail(newTxChan)
            /\ skipped' = IF trigger THEN skipped \union {Head(newTxChan).hash} ELSE skipped
            /\ UNCHANGED monitor
    /\ UNCHANGED <<nodeVars, blockVars, failed, collected, collections, saverVars>>

\* One of Collect's calls fails: the counter and the timer stay reset.
CollectFails ==
    /\ monitor = "collect"
    /\ monitor' = "select"
    /\ failed' = TRUE
    /\ UNCHANGED <<nodeVars, newTxChan, blockVars, currentHeight, newTickets, skipped,
                   collected, collections, saverVars>>

\* The data is collected and the savers are started.
Collect ==
    /\ monitor = "collect"
    /\ monitor' = "select"
    /\ failed' = FALSE
    /\ collected' = accepted
    /\ collections' = collections + 1
    /\ saver' = [saver EXCEPT ![collections'] = "start"]
    /\ UNCHANGED <<nodeVars, newTxChan, blockVars, currentHeight, newTickets, skipped,
                   info, cache, page>>

-----------------------------------------------------------------------------
(* StoreMPData of the web pages.  A Go RWMutex admits no new reader once a *)
(* writer waits, not even one that holds it for reading already.           *)

\* Faulty: nobody, the getters' own locks must do.
NoReaders == {}

\* Who holds webUI.MPC for reading, from its own RLock to its return.
Readers == {k \in Collections : saver[k] \in {"info", "template", "rates", "relay"}}

WriterWaits == \E k \in Collections : saver[k] = "lock"

Goto(k, place) == saver' = [saver EXCEPT ![k] = place]
others == <<nodeVars, newTxChan, blockVars, monitorVars>>

\* The cache's StoreMPData asks for the lock; writers wait for one another.
AskLock(k) ==
    /\ saver[k] = "start" /\ ~WriterWaits
    /\ Goto(k, "lock")
    /\ UNCHANGED <<others, info, cache, page>>

WriteCache(k) ==
    /\ saver[k] = "lock" /\ Readers = {}
    /\ Goto(k, "rlock")
    /\ cache' = k
    /\ UNCHANGED <<others, info, page>>

\* The read lock that is held until StoreMPData returns.
HoldRLock(k) ==
    /\ saver[k] = "rlock" /\ ~WriterWaits
    /\ Goto(k, "info")
    /\ UNCHANGED <<others, info, cache, page>>

\* GetFeeInfoExtra takes the read lock again.
GetFeeInfoExtra(k) ==
    /\ saver[k] = "info" /\ ~WriterWaits
    /\ Goto(k, "template")
    /\ info' = [info EXCEPT ![k] = cache]
    /\ UNCHANGED <<others, cache, page>>

LockTemplate(k) ==
    /\ saver[k] = "template" /\ ~TemplateLocked
    /\ Goto(k, "rates")
    /\ page' = [page EXCEPT !.info = info[k]]
    /\ UNCHANGED <<others, info, cache>>

\* GetFeeRates takes the read lock again; the template's data is then unlocked.
GetFeeRates(k) ==
    /\ saver[k] = "rates" /\ ~WriterWaits
    /\ Goto(k, "relay")
    /\ page' = [page EXCEPT !.fees = cache]
    /\ UNCHANGED <<others, info, cache>>

\* The hub receives the signal, and the read lock is released on return.
Relay(k) ==
    /\ saver[k] = "relay"
    /\ Goto(k, "done")
    /\ UNCHANGED <<others, info, cache, page>>

Save(k) ==
    \/ AskLock(k) \/ WriteCache(k) \/ HoldRLock(k) \/ GetFeeInfoExtra(k)
    \/ LockTemplate(k) \/ GetFeeRates(k) \/ Relay(k)

-----------------------------------------------------------------------------
Node == AcceptTicket \/ OnTxAccepted \/ MineBlock
BlockHandler == HandleBlock \/ StoreBlock
TxHandler ==
    \/ TakeBlock \/ PassOver \/ CollectFails \/ Collect
    \/ \E quiteLong, longEnough \in BOOLEAN :
        TakeTicket(Triggers(quiteLong, longEnough))

Next == Node \/ BlockHandler \/ TxHandler \/ \E k \in Collections : Save(k)

Spec == Init /\ [][Next]_vars

\* The goroutines go on while they can, and a mutex is not withheld for ever from one
\* that waits for it.
Fairness ==
    /\ SF_vars(BlockHandler) /\ WF_vars(TxHandler)
    /\ \A k \in Collections : SF_vars(Save(k))

FairSpec == Spec /\ Fairness

-----------------------------------------------------------------------------
\* Every variable has its type and the queue its capacity.
TypeOK ==
    /\ accepted \in 0..MaxTickets /\ notified \in 0..accepted
    /\ height \in 0..MaxBlocks /\ handled \in 0..height
    /\ handler \in {"wait", "store"}
    /\ newTxChan \in Seq(Messages)
    /\ Len(newTxChan) <= Cap
    /\ monitor \in {"select", "collect"} /\ failed \in BOOLEAN
    /\ currentHeight \in 0..height /\ newTickets \in Nat
    /\ skipped \subseteq Tickets /\ collected \in 0..accepted
    /\ collections \in {0} \union Collections
    /\ saver \in [Collections -> {"none", "start", "lock", "rlock", "info", "template",
                                  "rates", "relay", "done"}]
    /\ info \in [Collections -> {0} \union Collections]
    /\ cache \in {0} \union Collections
    /\ page \in [info : {0} \union Collections, fees : {0} \union Collections]

\* "Do not bother collecting if this transaction came in before last collection, in
\* which case we'd have it already" (mempool.go:220): a ticket that is passed over for
\* that reason is in the last collection, unless that has failed.
SkippedWereCollected ==
    monitor = "select" /\ ~failed => \A s \in skipped : s <= collected

\* The two parts of the web page's mempool data are of one collection whenever they
\* can be read, however the savers of several collections overlap: this is what the
\* read lock is held for between the getters (web.go:236).
PageOfOneCollection == ~TemplateLocked => page.info = page.fees

\* When no saver is at work the page shows what the cache holds.
PageShowsCache ==
    (\A k \in Collections : saver[k] \in {"none", "done"}) =>
        page = [info |-> cache, fees |-> cache]

\* "StoreMPData stores mempool data in the mempool cache and update the webui via
\* websocket" (web.go:232): a saver that was started returns.
SaversReturn ==
    \A k \in Collections : saver[k] = "start" ~> saver[k] = "done"
=============================================================================
