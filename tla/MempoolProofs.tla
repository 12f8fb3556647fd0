---------------------------- MODULE MempoolProofs ----------------------------
(***************************************************************************)
(* Proofs about the mempool monitor and the saver of the web pages, for    *)
(* any capacity, limit and numbers of tickets and blocks, and any number   *)
(* of savers at work at once.                                              *)
(***************************************************************************)
EXTENDS MempoolMonitor, SequenceTheorems, TLAPS

-----------------------------------------------------------------------------
(***************************************************************************)
(* The inductive invariant.                                                *)
(***************************************************************************)
\* Each collection has used up a message of its own and has its own saver; the block
\* that is stored was mined.
Counted ==
    /\ collections + Len(newTxChan) + (IF monitor = "collect" THEN 1 ELSE 0)
           <= notified + handled
    /\ \A k \in Collections : k > collections => saver[k] = "none"
    /\ handler = "store" => handled < height

\* The monitor knows no ticket that the node has not notified.
Notified ==
    /\ \A i \in 1..Len(newTxChan) : newTxChan[i].hash <= notified
    /\ \A s \in skipped : s <= notified

\* What was sent before the last collection is in it.
BeforeIsCollected ==
    (monitor = "select" /\ ~failed) =>
        /\ \A i \in 1..Len(newTxChan) :
             newTxChan[i].before => newTxChan[i].hash <= collected
        /\ \A s \in skipped : s <= collected

\* What a saver has read of the cache is what the cache holds, as long as it holds
\* the read lock; the page is up to date or a saver is about to change it.
SaversAgree ==
    /\ \A k \in Collections : saver[k] \in {"template", "rates"} => info[k] = cache
    /\ \A k \in Collections : saver[k] = "rates" => page.info = cache
    /\ PageOfOneCollection
    /\ \/ page = [info |-> cache, fees |-> cache]
       \/ \E k \in Collections : saver[k] \in {"rlock", "info", "template", "rates"}

MempoolInv ==
    TypeOK /\ Counted /\ Notified /\ BeforeIsCollected /\ SaversAgree

-----------------------------------------------------------------------------
(***************************************************************************)
(* The queue.                                                              *)
(***************************************************************************)

\* A message's hash is the number of a ticket, or no ticket's.
LEMMA MessageTypes ==
    /\ \A m \in Messages : m.hash \in Tickets \union {Block} /\ m.before \in BOOLEAN
    /\ \A tx \in Tickets \union {Block} : tx \in Nat /\ Block <= tx
    /\ \A tx \in Nat : tx \in Tickets <=> tx # Block /\ tx <= MaxTickets
BY MempoolAssumption DEF Messages, Tickets, Block

\* A message that is sent comes last, or not at all.
LEMMA SentMessage ==
    ASSUME newTxChan \in Seq(Messages), Len(newTxChan) <= Cap,
           NEW tx \in Tickets \union {Block}, Send(tx)
    PROVE  /\ newTxChan' \in Seq(Messages) /\ Len(newTxChan') <= Cap
           /\ Len(newTxChan') <= Len(newTxChan) + 1
           /\ \A i \in 1..Len(newTxChan') :
                \/ i \in 1..Len(newTxChan) /\ newTxChan'[i] = newTxChan[i]
                \/ newTxChan'[i].hash = tx /\ ~newTxChan'[i].before
<1> DEFINE m == [hash |-> tx, before |-> FALSE]
<1>1. m \in Messages /\ m.hash = tx /\ ~m.before
  BY DEF Messages
<1> HIDE DEF m
<1>2. CASE newTxChan' = newTxChan
  BY <1>2
<1>3. CASE Len(newTxChan) < Cap /\ newTxChan' = Append(newTxChan, m)
  <2>1. /\ newTxChan' \in Seq(Messages) /\ Len(newTxChan') = Len(newTxChan) + 1
        /\ newTxChan'[Len(newTxChan) + 1] = m
        /\ \A i \in 1..Len(newTxChan) : newTxChan'[i] = newTxChan[i]
    BY <1>1, <1>3, AppendProperties
  <2>2. QED
    BY <1>1, <1>3, <2>1, MempoolAssumption
<1>4. QED
  BY <1>2, <1>3 DEF Send, m

\* The message taken, and what is left.
LEMMA TakenMessage ==
    ASSUME newTxChan \in Seq(Messages), newTxChan # <<>>
    PROVE  /\ Tail(newTxChan) \in Seq(Messages) /\ Head(newTxChan) \in Messages
           /\ Head(newTxChan) = newTxChan[1] /\ Len(newTxChan) \in Nat \ {0}
           /\ Len(Tail(newTxChan)) = Len(newTxChan) - 1
           /\ \A i \in 1..Len(Tail(newTxChan)) : Tail(newTxChan)[i] = newTxChan[i + 1]
OBVIOUS

\* A collection that begins leaves the queue's messages, marked.
LEMMA MarkedMessages ==
    ASSUME NEW queue \in Seq(Messages), BeginCollect(queue)
    PROVE  /\ newTxChan' \in Seq(Messages) /\ Len(newTxChan') = Len(queue)
           /\ \A i \in 1..Len(newTxChan') : newTxChan'[i].hash = queue[i].hash
<1>1. /\ DOMAIN queue = 1..Len(queue) /\ Len(queue) \in Nat
      /\ \A i \in 1..Len(queue) : queue[i] \in Messages
  OBVIOUS
<1>2. \A m \in Messages : /\ [m EXCEPT !.before = TRUE] \in Messages
                         /\ [m EXCEPT !.before = TRUE].hash = m.hash
  BY DEF Messages
<1>3. newTxChan' = [i \in 1..Len(queue) |-> [queue[i] EXCEPT !.before = TRUE]]
  BY <1>1 DEF BeginCollect
<1>4. newTxChan' \in [1..Len(queue) -> Messages]
  BY <1>1, <1>2, <1>3
<1>5. newTxChan' \in Seq(Messages) /\ Len(newTxChan') = Len(queue)
  BY <1>1, <1>4
<1>6. QED
  BY <1>1, <1>2, <1>3, <1>5

\* A collection that begins at a message of the queue.
LEMMA CollectionBegins ==
    ASSUME newTxChan \in Seq(Messages), newTxChan # <<>>, BeginCollect(Tail(newTxChan))
    PROVE  /\ newTxChan' \in Seq(Messages) /\ Len(newTxChan') = Len(newTxChan) - 1
           /\ \A i \in 1..Len(newTxChan') :
                i + 1 \in 1..Len(newTxChan) /\ newTxChan'[i].hash = newTxChan[i + 1].hash
           /\ monitor' = "collect" /\ newTickets' = 0
<1> DEFINE queue == Tail(newTxChan)
<1>1. /\ queue \in Seq(Messages) /\ Len(queue) = Len(newTxChan) - 1
      /\ \A i \in 1..Len(queue) : queue[i] = newTxChan[i + 1]
      /\ Len(newTxChan) \in Nat
  BY TakenMessage
<1>2. BeginCollect(queue)
  OBVIOUS
<1> HIDE DEF queue
<1>3. /\ newTxChan' \in Seq(Messages) /\ Len(newTxChan') = Len(queue)
      /\ \A i \in 1..Len(newTxChan') : newTxChan'[i].hash = queue[i].hash
  BY <1>1, <1>2, MarkedMessages
<1>4. monitor' = "collect" /\ newTickets' = 0
  BY <1>2 DEF BeginCollect
<1>5. QED
  BY <1>1, <1>3, <1>4

-----------------------------------------------------------------------------
(***************************************************************************)
(* Each step keeps the invariant.                                          *)
(***************************************************************************)

\* What the steps of the node, of the block handler and of the monitor do with the
\* queue and the counters.
LEMMA MonitorStep ==
    ASSUME MempoolInv, Node \/ BlockHandler \/ TxHandler
    PROVE  TypeOK' /\ Counted' /\ Notified' /\ BeforeIsCollected'
<1> USE MempoolAssumption, MessageTypes
    DEF MempoolInv, TypeOK, Counted, Notified, BeforeIsCollected, nodeVars, blockVars,
        monitorVars, saverVars
<1>1. /\ newTxChan \in Seq(Messages) /\ Len(newTxChan) \in Nat
      /\ \A i \in 1..Len(newTxChan) : /\ newTxChan[i].hash \in Nat
                                      /\ newTxChan[i].hash <= notified
      /\ \A s \in skipped : s \in Nat /\ s <= notified
      /\ notified \in Nat /\ accepted \in Nat /\ notified <= accepted
  OBVIOUS
<1>2. CASE AcceptTicket
  BY <1>1, <1>2 DEF AcceptTicket
<1>3. CASE OnTxAccepted
  <2>1. notified' \in Tickets \union {Block} /\ Send(notified') /\ notified' = notified + 1
    BY <1>3 DEF OnTxAccepted
  <2>2. TypeOK'
    BY <1>1, <1>3, <2>1, SentMessage DEF OnTxAccepted
  <2>3. /\ newTxChan' \in Seq(Messages) /\ Len(newTxChan') <= Len(newTxChan) + 1
        /\ \A i \in 1..Len(newTxChan') :
             \/ i \in 1..Len(newTxChan) /\ newTxChan'[i] = newTxChan[i]
             \/ newTxChan'[i].hash = notified' /\ ~newTxChan'[i].before
    BY <1>1, <2>1, SentMessage
  <2>4. UNCHANGED <<blockVars, monitorVars, saverVars, height>> /\ Len(newTxChan') \in Nat
    BY <1>3, <2>3 DEF OnTxAccepted
  <2>5. Counted'
    BY <1>1, <2>1, <2>3, <2>4
  <2>6. Notified'
    <3>1. ASSUME NEW i \in 1..Len(newTxChan') PROVE newTxChan'[i].hash <= notified'
      <4>1. CASE i \in 1..Len(newTxChan) /\ newTxChan'[i] = newTxChan[i]
        <5>1. newTxChan[i].hash \in Nat /\ newTxChan[i].hash <= notified
          BY <1>1, <4>1
        <5>2. newTxChan'[i].hash <= notified
          BY <4>1, <5>1
        <5>3. \A n \in Nat : n <= notified => n <= notified + 1
          BY <1>1
        <5>4. QED
          BY <2>1, <4>1, <5>1, <5>2, <5>3
      <4>2. CASE newTxChan'[i].hash = notified'
        BY <1>1, <2>1, <4>2
      <4>3. QED
        BY <2>3, <3>1, <4>1, <4>2
    <3>2. \A s \in skipped' : s <= notified'
      BY <1>1, <2>1, <2>4
    <3>3. QED
      BY <3>1, <3>2
  <2>7. BeforeIsCollected'
    BY <2>3, <2>4
  <2>8. QED
    BY <2>2, <2>5, <2>6, <2>7
<1>4. CASE MineBlock
  BY <1>1, <1>4 DEF MineBlock
<1>5. CASE HandleBlock
  BY <1>1, <1>5 DEF HandleBlock
<1>6. CASE StoreBlock
  <2>1. Block \in Tickets \union {Block} /\ Send(Block) /\ handled' = handled + 1
    BY <1>6 DEF StoreBlock
  <2>2. TypeOK'
    BY <1>1, <1>6, <2>1, SentMessage DEF StoreBlock
  <2>3. /\ newTxChan' \in Seq(Messages) /\ Len(newTxChan') <= Len(newTxChan) + 1
        /\ \A i \in 1..Len(newTxChan') :
             \/ i \in 1..Len(newTxChan) /\ newTxChan'[i] = newTxChan[i]
             \/ newTxChan'[i].hash = Block /\ ~newTxChan'[i].before
    BY <1>1, <2>1, SentMessage
  <2>4. UNCHANGED <<nodeVars, monitorVars, saverVars>> /\ handler' = "wait"
    BY <1>6 DEF StoreBlock
  <2>5. Counted'
    BY <1>1, <2>1, <2>3, <2>4
  <2>6. Notified'
    <3>1. notified' = notified /\ skipped' = skipped /\ Block <= notified
      BY <1>1, <2>4 DEF Block
    <3>2. ASSUME NEW i \in 1..Len(newTxChan') PROVE newTxChan'[i].hash <= notified
      <4>1. CASE i \in 1..Len(newTxChan) /\ newTxChan'[i] = newTxChan[i]
        BY <1>1, <4>1
      <4>2. CASE newTxChan'[i].hash = Block
        BY <3>1, <4>2
      <4>3. QED
        BY <2>3, <4>1, <4>2
    <3>3. QED
      BY <1>1, <3>1, <3>2
  <2>7. BeforeIsCollected'
    <3>1. ASSUME NEW i \in 1..Len(newTxChan'), newTxChan'[i].before,
                 monitor = "select", ~failed
          PROVE  newTxChan'[i].hash <= collected
      BY <2>3, <3>1
    <3>2. QED
      BY <2>4, <3>1
  <2>8. QED
    BY <2>2, <2>5, <2>6, <2>7
<1>7. ASSUME newTxChan # <<>>, BeginCollect(Tail(newTxChan)), monitor = "select",
             currentHeight' \in 0..height,
             UNCHANGED <<nodeVars, blockVars, skipped, failed, collected, collections,
                         saverVars>>
      PROVE  TypeOK' /\ Counted' /\ Notified' /\ BeforeIsCollected'
  <2>1. /\ newTxChan' \in Seq(Messages) /\ Len(newTxChan') = Len(newTxChan) - 1
        /\ \A i \in 1..Len(newTxChan') :
             i + 1 \in 1..Len(newTxChan) /\ newTxChan'[i].hash = newTxChan[i + 1].hash
        /\ monitor' = "collect" /\ newTickets' = 0
    BY <1>1, <1>7, CollectionBegins
  <2>2. TypeOK'
    BY <1>1, <1>7, <2>1
  <2>3. Counted'
    BY <1>1, <1>7, <2>1
  <2>4. Notified' /\ BeforeIsCollected'
    BY <1>1, <1>7, <2>1
  <2>5. QED
    BY <2>2, <2>3, <2>4
<1>8. ASSUME newTxChan # <<>>, newTxChan' = Tail(newTxChan), monitor' = monitor,
             currentHeight' \in 0..height, newTickets' \in Nat,
             \/ skipped' = skipped
             \/ /\ skipped' = skipped \union {Head(newTxChan).hash}
                /\ Head(newTxChan).before /\ Head(newTxChan).hash # Block,
             UNCHANGED <<nodeVars, blockVars, failed, collected, collections, saverVars>>
      PROVE  TypeOK' /\ Counted' /\ Notified' /\ BeforeIsCollected'
  <2>1. /\ newTxChan' \in Seq(Messages) /\ Len(newTxChan') = Len(newTxChan) - 1
        /\ \A i \in 1..Len(newTxChan') : newTxChan'[i] = newTxChan[i + 1]
        /\ Head(newTxChan) = newTxChan[1] /\ newTxChan[1] \in Messages
        /\ Len(newTxChan) \in Nat \ {0}
    BY <1>1, <1>8, TakenMessage
  <2>2. QED
    BY <1>1, <1>8, <2>1
<1>9. CASE TakeBlock
  BY <1>7, <1>9 DEF TakeBlock
<1>10. CASE PassOver
  BY <1>8, <1>10 DEF PassOver
<1>11. ASSUME NEW trigger \in BOOLEAN, TakeTicket(trigger)
      PROVE  TypeOK' /\ Counted' /\ Notified' /\ BeforeIsCollected'
  BY <1>1, <1>7, <1>8, <1>11, TakenMessage DEF TakeTicket
<1>12. CASE CollectFails
  <2>1. TypeOK'
    BY <1>1, <1>12 DEF CollectFails
  <2>2. Counted' /\ Notified' /\ BeforeIsCollected'
    BY <1>1, <1>12 DEF CollectFails
  <2>3. QED
    BY <2>1, <2>2
<1>13. CASE Collect
  <2>1. /\ collections' = collections + 1 /\ collections' \in Collections
        /\ collected' = accepted /\ failed' = FALSE /\ monitor' = "select"
    BY <1>1, <1>13 DEF Collect, Collections
  <2>2. saver' = [saver EXCEPT ![collections'] = "start"]
    BY <1>13 DEF Collect
  <2>3. TypeOK'
    <3>1. saver' \in [Collections -> {"none", "start", "lock", "rlock", "info", "template",
                                      "rates", "relay", "done"}]
      BY <2>2
    <3>2. UNCHANGED <<nodeVars, newTxChan, blockVars, currentHeight, newTickets,
                      skipped, info, cache, page>>
      BY <1>13 DEF Collect
    <3>3. collected' \in 0..accepted'
      BY <2>1, <3>2
    <3>4. QED
      BY <2>1, <3>1, <3>2, <3>3
  <2>4. Counted' /\ Notified' /\ BeforeIsCollected'
    BY <1>1, <1>13, <2>1 DEF Collect
  <2>5. QED
    BY <2>3, <2>4
<1>14. QED
  BY <1>2, <1>3, <1>4, <1>5, <1>6, <1>9, <1>10, <1>11, <1>12, <1>13
     DEF Node, BlockHandler, TxHandler, Triggers

\* A saver touches neither.
LEMMA SaverStep ==
    ASSUME MempoolInv, NEW k \in Collections, Save(k)
    PROVE  TypeOK' /\ Counted' /\ Notified' /\ BeforeIsCollected'
<1> USE DEF MempoolInv, others, nodeVars, blockVars, monitorVars, Goto
<1>1. UNCHANGED others
  BY DEF Save, AskLock, WriteCache, HoldRLock, GetFeeInfoExtra, LockTemplate,
         GetFeeRates, Relay
<1>2. /\ saver' \in [Collections -> {"none", "start", "lock", "rlock", "info", "template",
                                      "rates", "relay", "done"}]
      /\ info' \in [Collections -> {0} \union Collections]
      /\ cache' \in {0} \union Collections
  BY DEF Save, AskLock, WriteCache, HoldRLock, GetFeeInfoExtra, LockTemplate,
         GetFeeRates, Relay, TypeOK
<1>3. page' \in [info : {0} \union Collections, fees : {0} \union Collections]
  BY DEF Save, AskLock, WriteCache, HoldRLock, GetFeeInfoExtra, LockTemplate,
         GetFeeRates, Relay, TypeOK
<1>4. \A j \in Collections : j > collections => saver'[j] = "none"
  <2>1. saver[k] # "none" /\ \A j \in Collections \ {k} : saver'[j] = saver[j]
    BY DEF Save, AskLock, WriteCache, HoldRLock, GetFeeInfoExtra, LockTemplate,
           GetFeeRates, Relay, TypeOK
  <2>2. QED
    BY <2>1 DEF Counted
<1>5. TypeOK'
  BY <1>1, <1>2, <1>3 DEF TypeOK
<1>6. QED
  BY <1>1, <1>4, <1>5 DEF Counted, Notified, BeforeIsCollected

\* While one saver holds the read lock no other writes the cache.
LEMMA SaversStep ==
    ASSUME MempoolInv, Next
    PROVE  SaversAgree'
<1> USE DEF MempoolInv, TypeOK, SaversAgree, PageOfOneCollection, TemplateLocked, Goto
<1>1. CASE Node \/ BlockHandler
  BY <1>1 DEF Node, AcceptTicket, OnTxAccepted, MineBlock, BlockHandler, HandleBlock,
              StoreBlock, saverVars
<1>2. CASE TxHandler
  <2>1. CASE Collect
    <3>1. collections' \in Collections /\ collections' = collections + 1
      BY <2>1, MempoolAssumption DEF Collect, Collections, Counted
    <3>2. saver[collections'] = "none"
      BY <3>1 DEF Counted, Collections
    <3>3. QED
      BY <2>1, <3>1, <3>2 DEF Collect
  <2>2. CASE UNCHANGED saverVars
    BY <2>2 DEF saverVars
  <2>3. QED
    BY <1>2, <2>1, <2>2 DEF TxHandler, TakeBlock, PassOver, TakeTicket, CollectFails
<1>3. ASSUME NEW k \in Collections, AskLock(k) \/ HoldRLock(k) \/ Relay(k)
      PROVE  SaversAgree'
  BY <1>3 DEF AskLock, HoldRLock, Relay
<1>4. ASSUME NEW k \in Collections, WriteCache(k) PROVE SaversAgree'
  BY <1>4 DEF WriteCache, Readers
<1>5. ASSUME NEW k \in Collections, GetFeeInfoExtra(k) PROVE SaversAgree'
  BY <1>5 DEF GetFeeInfoExtra
<1>6. ASSUME NEW k \in Collections, LockTemplate(k) PROVE SaversAgree'
  BY <1>6 DEF LockTemplate
<1>7. ASSUME NEW k \in Collections, GetFeeRates(k) PROVE SaversAgree'
  BY <1>7 DEF GetFeeRates
<1>8. QED
  BY <1>1, <1>2, <1>3, <1>4, <1>5, <1>6, <1>7 DEF Next, Save

\* The invariant holds at the start.
LEMMA MempoolInit == Init => MempoolInv
<1> SUFFICES ASSUME Init PROVE MempoolInv
  OBVIOUS
<1>1. TypeOK
  <2>1. newTxChan \in Seq(Messages) /\ Len(newTxChan) = 0
    BY DEF Init
  <2>2. /\ saver \in [Collections -> {"none", "start", "lock", "rlock", "info", "template",
                                      "rates", "relay", "done"}]
        /\ info \in [Collections -> {0} \union Collections]
        /\ page \in [info : {0} \union Collections, fees : {0} \union Collections]
    BY DEF Init
  <2>3. /\ accepted \in 0..MaxTickets /\ notified \in 0..accepted
        /\ height \in 0..MaxBlocks /\ handled \in 0..height
        /\ currentHeight \in 0..height /\ collected \in 0..accepted /\ newTickets \in Nat
    BY MempoolAssumption DEF Init
  <2>4. /\ handler = "wait" /\ monitor = "select" /\ failed = FALSE /\ skipped = {}
        /\ cache = 0 /\ collections = 0
    BY DEF Init
  <2>5. skipped \subseteq Tickets /\ failed \in BOOLEAN
    BY <2>4
  <2>6. Len(newTxChan) <= Cap
    BY <2>1, MempoolAssumption
  <2>7. QED
    BY <2>1, <2>2, <2>3, <2>4, <2>5, <2>6 DEF TypeOK
<1>2. Counted /\ Notified /\ BeforeIsCollected
  BY DEF Init, Counted, Notified, BeforeIsCollected
<1>3. SaversAgree
  BY DEF Init, SaversAgree, PageOfOneCollection
<1>4. QED
  BY <1>1, <1>2, <1>3 DEF MempoolInv

\* The monitor and the savers keep the invariant.
LEMMA MempoolNext == MempoolInv /\ [Next]_vars => MempoolInv'
<1>1. ASSUME MempoolInv, Next PROVE MempoolInv'
  BY <1>1, MonitorStep, SaverStep, SaversStep DEF Next, MempoolInv
<1>2. ASSUME MempoolInv, UNCHANGED vars PROVE MempoolInv'
  BY <1>2 DEF vars, nodeVars, blockVars, monitorVars, saverVars, MempoolInv, TypeOK,
              Counted, Notified, BeforeIsCollected, SaversAgree, PageOfOneCollection,
              TemplateLocked
<1>3. QED
  BY <1>1, <1>2

-----------------------------------------------------------------------------
(***************************************************************************)
(* The theorems.                                                           *)
(***************************************************************************)

\* The invariant holds in every reachable state.
THEOREM MempoolInvariant == Spec => []MempoolInv
BY MempoolInit, MempoolNext, PTL DEF Spec

\* Every variable has its type and the queue its capacity; the collections never
\* outnumber the messages sent.
THEOREM MempoolTypes == Spec => []TypeOK
<1>1. MempoolInv => TypeOK
  BY DEF MempoolInv
<1>2. QED
  BY <1>1, MempoolInvariant, PTL

\* A ticket that is passed over is in the last collection, unless that has failed.
THEOREM SkippedCollected == Spec => []SkippedWereCollected
<1>1. MempoolInv => SkippedWereCollected
  BY DEF MempoolInv, BeforeIsCollected, SkippedWereCollected
<1>2. QED
  BY <1>1, MempoolInvariant, PTL

\* The page's two parts are of one collection whenever they can be read.
THEOREM OneCollection == Spec => []PageOfOneCollection
<1>1. MempoolInv => PageOfOneCollection
  BY DEF MempoolInv, SaversAgree
<1>2. QED
  BY <1>1, MempoolInvariant, PTL

\* The page shows what the cache holds when no saver is at work.
THEOREM PageIsCache == Spec => []PageShowsCache
<1>1. MempoolInv => PageShowsCache
  BY DEF MempoolInv, SaversAgree, PageShowsCache
<1>2. QED
  BY <1>1, MempoolInvariant, PTL
=============================================================================
