-------------------------- MODULE ApiStatusProofs --------------------------
(***************************************************************************)
(* Proofs about ApiStatus, for channels of any capacity, any number of     *)
(* blocks, reorganizations and failures.                                   *)
(***************************************************************************)
EXTENDS ApiStatus, SequenceTheorems, TLAPS

-----------------------------------------------------------------------------
(***************************************************************************)
(* The operators of the model.                                             *)
(***************************************************************************)

\* Heights are natural numbers; the bounds are numbers.
LEMMA Numbers ==
    /\ MaxHeight \in Nat /\ MaxFailures \in Nat /\ Cap \in Nat \ {0}
    /\ StartHeight \in AllHeights /\ 0 \in AllHeights /\ AllHeights \subseteq Nat
BY HeightsAssumption, BoundsAssumption DEF AllHeights

\* The greater of two heights.
LEMMA MaxOfTwo ==
    ASSUME NEW a \in Nat, NEW b \in Nat
    PROVE  Max({a, b}) \in {a, b} /\ Max({a, b}) >= a /\ Max({a, b}) >= b
<1>1. \E x \in {a, b} : \A y \in {a, b} : x >= y
  <2>1. CASE a >= b
    BY <2>1
  <2>2. CASE b >= a
    BY <2>2
  <2>3. QED
    BY <2>1, <2>2
<1>2. QED
  BY <1>1 DEF Max

\* Storing a row yields a height and does not lower it.
LEMMA StoredHeight ==
    ASSUME TypeOK, NEW h \in AllHeights
    PROVE  /\ Stored(h) \in AllHeights
           /\ Stored(h) >= summaryHeight /\ Stored(h) >= h
BY MaxOfTwo, Numbers DEF Stored, TypeOK

\* What a channel holds after a height was offered to it.
LEMMA OfferedHeight ==
    ASSUME NEW chan \in Chan, NEW h \in AllHeights
    PROVE  /\ Offer(chan, h) \in Chan
           /\ \A i \in 1..Len(Offer(chan, h)) :
                 Offer(chan, h)[i] = h \/ (i \in 1..Len(chan) /\ Offer(chan, h)[i] = chan[i])
<1>1. chan \in Seq(AllHeights) /\ Len(chan) \in Nat /\ Len(chan) <= Cap
  BY DEF Chan
<1>2. CASE Len(chan) < Cap
  <2>1. Offer(chan, h) = Append(chan, h)
    BY <1>2 DEF Offer
  <2>2. Len(Append(chan, h)) <= Cap
    BY <1>1, <1>2, Numbers
  <2>3. QED
    BY <1>1, <2>1, <2>2 DEF Chan
<1>3. CASE ~(Len(chan) < Cap)
  BY <1>1, <1>3 DEF Offer
<1>4. QED
  BY <1>2, <1>3

\* What a channel holds after a height was taken from it.
LEMMA TakenHeight ==
    ASSUME NEW chan \in Chan, chan # <<>>
    PROVE  /\ Head(chan) \in AllHeights /\ Head(chan) = chan[1] /\ 1 \in 1..Len(chan)
           /\ Tail(chan) \in Chan
           /\ \A i \in 1..Len(Tail(chan)) :
                 i + 1 \in 1..Len(chan) /\ Tail(chan)[i] = chan[i + 1]
<1>1. chan \in Seq(AllHeights) /\ Len(chan) \in Nat /\ Len(chan) <= Cap
  BY DEF Chan
<1>2. Tail(chan) \in Seq(AllHeights) /\ Len(Tail(chan)) = Len(chan) - 1 /\ Len(chan) > 0
  BY <1>1
<1>3. QED
  BY <1>1, <1>2, Numbers DEF Chan

-----------------------------------------------------------------------------
(***************************************************************************)
(* Types.                                                                  *)
(***************************************************************************)
BlockType == [height : AllHeights, kind : {"block", "side", "head"}]
ReadingType == [height : AllHeights, summary : AllHeights, best : AllHeights \union {-1}]

\* The blocks of a reorganization have their type.
LEMMA ReorgBlocks ==
    ASSUME NEW k \in AllHeights, NEW h \in AllHeights, k < h
    PROVE  [i \in 1..(h - k) |-> Block(k + i, IF k + i = h THEN "head" ELSE "side")]
               \in Seq(BlockType)
<1>1. h - k \in Nat
  BY Numbers
<1>2. ASSUME NEW i \in 1..(h - k)
      PROVE  Block(k + i, IF k + i = h THEN "head" ELSE "side") \in BlockType
  BY Numbers, <1>2 DEF Block, BlockType, AllHeights
<1>3. QED
  BY <1>1, <1>2

\* The queue holds blocks, and so does what is left of it.
LEMMA QueueType ==
    ASSUME TypeOK
    PROVE  /\ queue \in Seq(BlockType)
           /\ queue # <<>> => Head(queue) \in BlockType /\ Tail(queue) \in Seq(BlockType)
<1>1. queue \in Seq(BlockType)
  BY DEF TypeOK, BlockType
<1>2. QED
  BY <1>1, HeadTailProperties

\* A failure stays within its bound.
LEMMA FailureType == TypeOK /\ Fails => failures' \in 0..MaxFailures
BY Numbers DEF TypeOK, Fails

\* The types are inductive.
LEMMA TypeStep == TypeOK /\ [Next]_vars => TypeOK'
<1> SUFFICES ASSUME TypeOK, [Next]_vars PROVE TypeOK'
  OBVIOUS
<1> USE Numbers
<1>1. CASE NodeExtend
  <2>1. nodeHeight' \in AllHeights
    BY <1>1 DEF NodeExtend, TypeOK, AllHeights
  <2>2. Block(nodeHeight + 1, "block") \in BlockType
    BY <1>1, <2>1 DEF NodeExtend, Block, BlockType
  <2>3. queue' \in Seq(BlockType)
    BY <1>1, <2>2 DEF NodeExtend, TypeOK, BlockType
  <2>4. QED
    BY <1>1, <2>1, <2>3 DEF NodeExtend, TypeOK, BlockType, mainVars
<1>2. ASSUME NEW k \in AllHeights, NEW h \in AllHeights, NodeReorg(k, h) PROVE TypeOK'
  <2>1. reorgs' \in 0..MaxReorgs
    BY <1>2, BoundsAssumption DEF NodeReorg, TypeOK
  <2>2. k < h
    BY <1>2 DEF NodeReorg, TypeOK
  <2> DEFINE new == [i \in 1..(h - k) |->
                        Block(k + i, IF k + i = h THEN "head" ELSE "side")]
  <2>3. new \in Seq(BlockType) /\ queue' = queue \o new
    BY <1>2, <2>2, ReorgBlocks DEF NodeReorg
  <2>4. queue' \in Seq(BlockType)
    <3> HIDE DEF new
    <3>1. QED
      BY <2>3, QueueType
  <2>5. QED
    BY <1>2, <2>1, <2>4 DEF NodeReorg, TypeOK, BlockType, mainVars
<1>3. CASE Dequeue
  <2>1. Head(queue) \in BlockType /\ Tail(queue) \in Seq(BlockType)
    BY <1>3, QueueType DEF Dequeue
  <2>2. pc' \in {"store", "report", "switch"}
    BY <1>3, <2>1 DEF Dequeue, BlockType
  <2>3. QED
    BY <1>3, <2>1, <2>2 DEF Dequeue, TypeOK, BlockType, nodeVars, mainVars
<1>4. CASE Store
  BY <1>4, StoredHeight, FailureType DEF Store, TypeOK, nodeVars, mainVars
<1>5. CASE SendDBHeight
  BY <1>5, OfferedHeight DEF SendDBHeight, TypeOK, nodeVars, mainVars
<1>6. CASE SwitchToSideChain
  <2>1. summaryHeight' \in AllHeights
    BY <1>6, Numbers, StoredHeight DEF SwitchToSideChain, TypeOK, AllHeights
  <2>2. QED
    BY <1>6, <2>1 DEF SwitchToSideChain, WorkerAt, TypeOK, nodeVars, mainVars
<1>7. CASE SendNodeHeight
  BY <1>7, OfferedHeight DEF SendNodeHeight, TypeOK, nodeVars, mainVars
<1>8. CASE NewContext
  BY <1>8, FailureType DEF NewContext, TypeOK, nodeVars, workerVars
<1>9. CASE GetHeight
  BY <1>9 DEF GetHeight, TypeOK, nodeVars, workerVars
<1>10. CASE SendInitialHeight
  <2>1. dbChan' = Offer(dbChan, initial)
    BY <1>10 DEF SendInitialHeight, Offer
  <2>2. QED
    BY <1>10, <2>1, OfferedHeight DEF SendInitialHeight, TypeOK, nodeVars, workerVars
<1>11. CASE TakeNodeHeight
  BY <1>11, TakenHeight, FailureType DEF TakeNodeHeight, TypeOK, nodeVars, workerVars, mainVars
<1>12. CASE TakeDBHeight
  <2>1. Head(dbChan) \in AllHeights /\ Tail(dbChan) \in Chan
    BY <1>12, TakenHeight DEF TakeDBHeight, TypeOK
  <2>2. reading' \in ReadingType \union {NotReading}
    BY <1>12, <2>1 DEF TakeDBHeight, TypeOK, ReadingType
  <2>3. QED
    BY <1>12, <2>1, <2>2, FailureType
       DEF TakeDBHeight, TypeOK, ReadingType, nodeVars, workerVars, mainVars
<1>16. CASE ReadHeight
  <2>1. reading \in ReadingType /\ summaryHeight \in AllHeights
    BY <1>16 DEF ReadHeight, TypeOK, ReadingType
  <2>2. reading' \in ReadingType
    BY <1>16, <2>1 DEF ReadHeight, ReadingType
  <2>3. QED
    BY <1>16, <2>2 DEF ReadHeight, TypeOK, ReadingType, nodeVars, workerVars, mainVars
<1>13. CASE Update
  <2>1. reading.height \in AllHeights
    BY <1>13 DEF Update, TypeOK, NotReading
  <2>2. status' \in [Height : AllHeights, DBHeight : AllHeights, Ready : BOOLEAN]
    BY <1>13, <2>1 DEF Update, TypeOK
  <2>3. QED
    BY <1>13, <2>2 DEF Update, TypeOK, nodeVars, workerVars, mainVars
<1>14. CASE UNCHANGED vars
  BY <1>14 DEF TypeOK, vars
<1>15. QED
  BY <1>1, <1>2, <1>3, <1>4, <1>5, <1>6, <1>7, <1>8, <1>9, <1>10, <1>11, <1>12, <1>13,
     <1>14, <1>16 DEF Next, ProcessBlocks, MainCore, StatusNtfnHandler

\* The program starts with values of the right types.
LEMMA TypeInit == Init => TypeOK
BY Numbers, BoundsAssumption DEF Init, TypeOK, Chan, Block, NotReading

\* Every variable always has its type, and no channel overflows.
THEOREM TypeCorrect == Spec => []TypeOK
<1>1. QED
  BY TypeInit, TypeStep, PTL DEF Spec

-----------------------------------------------------------------------------
(***************************************************************************)
(* What is reported is stored.                                             *)
(***************************************************************************)

\* NothingBeforeItsRow is inductive: rows are never removed, so that it is disturbed
\* only where a height starts on its way or moves on.
LEMMA ReportStep ==
    TypeOK /\ NothingBeforeItsRow /\ [Next]_vars => NothingBeforeItsRow'
<1> SUFFICES ASSUME TypeOK, NothingBeforeItsRow, [Next]_vars PROVE NothingBeforeItsRow'
  OBVIOUS
<1> USE Numbers
<1>a. /\ summaryHeight \in Nat /\ status.DBHeight \in Nat /\ initial \in AllHeights
      /\ reading.height \in Int /\ cur.height \in AllHeights /\ dbChan \in Chan
      /\ \A i \in 1..Len(dbChan) : dbChan[i] \in Nat
  <2>1. /\ summaryHeight \in AllHeights /\ initial \in AllHeights /\ dbChan \in Chan
        /\ status \in [Height : AllHeights, DBHeight : AllHeights, Ready : BOOLEAN]
        /\ cur \in [height : AllHeights, kind : {"block", "side", "head"}]
        /\ reading \in ReadingType \union {NotReading}
    BY DEF TypeOK, ReadingType
  <2>2. reading.height \in Int
    <3>1. CASE reading = NotReading
      BY <3>1 DEF NotReading
    <3>2. CASE reading \in ReadingType
      <4>1. reading.height \in AllHeights
        BY <3>2 DEF ReadingType
      <4>2. QED
        BY <4>1 DEF AllHeights
    <3>3. QED
      BY <2>1, <3>1, <3>2
  <2>3. dbChan \in Seq(AllHeights)
    BY <2>1 DEF Chan
  <2>4. \A i \in 1..Len(dbChan) : dbChan[i] \in AllHeights
    BY <2>3
  <2>5. QED
    BY <2>1, <2>2, <2>4
<1>b. ASSUME summaryHeight' \in Nat, summaryHeight' >= summaryHeight,
             UNCHANGED <<status, dbChan, reading, initial>>,
             pc' = "send" => cur'.height <= summaryHeight'
      PROVE  NothingBeforeItsRow'
  BY <1>a, <1>b DEF NothingBeforeItsRow
<1>1. CASE NodeExtend
  BY <1>1, <1>a, <1>b DEF NodeExtend, NothingBeforeItsRow, mainVars
<1>2. ASSUME NEW k \in AllHeights, NEW h \in AllHeights, NodeReorg(k, h)
      PROVE  NothingBeforeItsRow'
  BY <1>2, <1>a, <1>b DEF NodeReorg, NothingBeforeItsRow, mainVars
<1>3. CASE Dequeue
  <2>1. Head(queue).kind \in {"block", "side", "head"}
    BY <1>3, QueueType DEF Dequeue, BlockType
  <2>2. pc' # "send"
    BY <1>3, <2>1 DEF Dequeue
  <2>3. UNCHANGED <<summaryHeight, status, dbChan, reading, initial>>
    BY <1>3 DEF Dequeue, mainVars
  <2>4. QED
    BY <2>2, <2>3, <1>a, <1>b
<1>4. CASE Store
  <2>1. UNCHANGED <<cur, status, dbChan, reading, initial>>
    BY <1>4 DEF Store, mainVars
  <2>2. CASE summaryHeight' = Stored(cur.height)
    <3>1. Stored(cur.height) \in Nat /\ Stored(cur.height) >= summaryHeight
          /\ Stored(cur.height) >= cur.height
      BY <1>a, StoredHeight
    <3>2. QED
      BY <2>1, <2>2, <3>1, <1>a, <1>b
  <2>3. CASE pc' = "report" /\ summaryHeight' = summaryHeight
    BY <2>1, <2>3, <1>a, <1>b
  <2>4. QED
    BY <1>4, <2>2, <2>3 DEF Store
<1>5. CASE SendDBHeight
  <2>1. dbChan' = Offer(dbChan, cur.height) /\ cur.height <= summaryHeight
    BY <1>5 DEF SendDBHeight, WorkerAt, NothingBeforeItsRow
  <2>2. \A i \in 1..Len(dbChan') : dbChan'[i] <= summaryHeight
    BY <2>1, <1>a, OfferedHeight DEF NothingBeforeItsRow
  <2>3. QED
    BY <1>5, <2>2 DEF SendDBHeight, NothingBeforeItsRow, mainVars
<1>6. CASE SwitchToSideChain
  <2>1. summaryHeight' \in Nat /\ summaryHeight' >= summaryHeight
    BY <1>6, <1>a, Numbers, StoredHeight DEF SwitchToSideChain, TypeOK, AllHeights
  <2>2. QED
    BY <1>6, <2>1, <1>a, <1>b DEF SwitchToSideChain, WorkerAt, mainVars
<1>7. CASE SendNodeHeight
  BY <1>7, <1>a, <1>b DEF SendNodeHeight, mainVars
<1>8. CASE NewContext
  <2>1. status'.DBHeight = status.DBHeight
    BY <1>8 DEF NewContext, TypeOK
  <2>2. QED
    BY <1>8, <2>1 DEF NewContext, NothingBeforeItsRow, workerVars
<1>9. CASE GetHeight
  BY <1>9, <1>a DEF GetHeight, NothingBeforeItsRow, workerVars
<1>10. CASE SendInitialHeight
  <2>1. dbChan' = Offer(dbChan, initial) /\ initial <= summaryHeight
    BY <1>10 DEF SendInitialHeight, Offer, NothingBeforeItsRow
  <2>2. \A i \in 1..Len(dbChan') : dbChan'[i] <= summaryHeight
    BY <2>1, <1>a, OfferedHeight DEF NothingBeforeItsRow
  <2>3. QED
    BY <1>10, <2>2 DEF SendInitialHeight, NothingBeforeItsRow, workerVars
<1>11. CASE TakeNodeHeight
  <2>1. status'.DBHeight = status.DBHeight
    BY <1>11 DEF TakeNodeHeight, TypeOK
  <2>2. QED
    BY <1>11, <2>1 DEF TakeNodeHeight, NothingBeforeItsRow, workerVars, mainVars
<1>12. CASE TakeDBHeight
  <2>1. \A i \in 1..Len(dbChan') : dbChan'[i] <= summaryHeight
    BY <1>12, <1>a, TakenHeight DEF TakeDBHeight, NothingBeforeItsRow
  <2>2. reading'.height <= summaryHeight
    BY <1>12, <1>a, TakenHeight DEF TakeDBHeight, NothingBeforeItsRow
  <2>3. QED
    BY <1>12, <2>1, <2>2 DEF TakeDBHeight, NothingBeforeItsRow, workerVars, mainVars
<1>13. CASE Update
  <2>1. status'.DBHeight \in {status.DBHeight, reading.height} /\ reading'.height = -1
    BY <1>13 DEF Update, TypeOK, NotReading
  <2>2. QED
    BY <1>13, <2>1, <1>a DEF Update, NothingBeforeItsRow, workerVars, mainVars
<1>14. CASE UNCHANGED vars
  BY <1>14 DEF NothingBeforeItsRow, vars
<1>16. CASE ReadHeight
  <2>1. reading'.height = reading.height
    BY <1>16 DEF ReadHeight, TypeOK
  <2>2. QED
    BY <1>16, <2>1 DEF ReadHeight, NothingBeforeItsRow, workerVars, mainVars
<1>15. QED
  BY <1>1, <1>2, <1>3, <1>4, <1>5, <1>6, <1>7, <1>8, <1>9, <1>10, <1>11, <1>12, <1>13,
     <1>14, <1>16 DEF Next, ProcessBlocks, MainCore, StatusNtfnHandler

\* No height is reported before its row is stored.
THEOREM ReportCorrect == Spec => []NothingBeforeItsRow
<1>1. Init => NothingBeforeItsRow
  BY Numbers DEF Init, NothingBeforeItsRow, NotReading
<1>2. QED
  BY <1>1, TypeCorrect, ReportStep, PTL DEF Spec

-----------------------------------------------------------------------------
(***************************************************************************)
(* Ready is not set on old news.  What StatusNtfnHandler has read may be   *)
(* overtaken before it decides; but then a height waits for it, or is      *)
(* about to.                                                               *)
(***************************************************************************)

\* Three readings agree, all taken.
Agree == reading.best # -1 /\ reading.height = reading.best /\ reading.summary = reading.best

\* Without a reorganization only Store stores, and then sends.
OnlyBlocks == pc # "switch" /\ \A i \in 1..Len(queue) : queue[i].kind = "block"

\* SQLite is where the readings say, or something is left to be received.
NewsLeft == Agree => reading.best = summaryHeight \/ pc = "send" \/ dbChan # <<>>

NewsInv == reorgs = 0 => OnlyBlocks /\ NewsLeft

\* Nothing has been read when the program starts.
LEMMA NewsInit == Init => NewsInv
BY DEF Init, NewsInv, OnlyBlocks, NewsLeft, Agree, NotReading

\* NewsInv is inductive.
LEMMA NewsStep == TypeOK /\ NewsInv /\ [Next]_vars => NewsInv'
<1> SUFFICES ASSUME TypeOK, NewsInv, [Next]_vars, reorgs' = 0
             PROVE  OnlyBlocks' /\ NewsLeft'
  BY DEF NewsInv
<1> USE Numbers
<1>n. reorgs \in Nat /\ queue \in Seq(BlockType) /\ dbChan \in Seq(AllHeights)
  BY BoundsAssumption, QueueType DEF TypeOK, Chan
<1>r. ~\E k, h \in AllHeights : NodeReorg(k, h)
  BY <1>n DEF NodeReorg
<1>u. reorgs = 0
  BY <1>r, <1>n DEF Next, ProcessBlocks, MainCore, StatusNtfnHandler,
     NodeExtend, Dequeue, Store, SendDBHeight, SwitchToSideChain, SendNodeHeight,
     NewContext, GetHeight, SendInitialHeight, TakeNodeHeight, TakeDBHeight, ReadHeight,
     Update, nodeVars, vars
<1>l. OnlyBlocks /\ NewsLeft
  BY <1>u DEF NewsInv
\* An action that leaves ProcessBlocks alone, or one that leaves the handler alone.
<1>q. UNCHANGED <<queue, pc>> => OnlyBlocks'
  BY <1>l DEF OnlyBlocks
<1>h. UNCHANGED <<reading, summaryHeight, dbChan>> /\ pc # "send" => NewsLeft'
  BY <1>l DEF NewsLeft, Agree
<1>1. CASE NodeExtend
  <2>1. queue' = Append(queue, Block(nodeHeight + 1, "block"))
        /\ UNCHANGED <<pc, reading, summaryHeight, dbChan>>
    BY <1>1 DEF NodeExtend
  <2>2. Block(nodeHeight + 1, "block") \in BlockType /\ Block(nodeHeight + 1, "block").kind = "block"
    BY <1>1 DEF NodeExtend, Block, BlockType, TypeOK, AllHeights
  <2>3. Len(queue') = Len(queue) + 1 /\ queue'[Len(queue) + 1] = Block(nodeHeight + 1, "block")
        /\ \A i \in 1..Len(queue) : queue'[i] = queue[i]
    BY <2>1, <2>2, <1>n
  <2>4. ASSUME NEW i \in 1..Len(queue') PROVE queue'[i].kind = "block"
    <3>1. i \in 1..Len(queue) \/ i = Len(queue) + 1
      BY <2>3, <1>n
    <3>2. QED
      BY <3>1, <2>2, <2>3, <1>l DEF OnlyBlocks
  <2>5. OnlyBlocks'
    BY <2>1, <2>4, <1>l DEF OnlyBlocks
  <2>6. NewsLeft'
    BY <2>1, <1>l DEF NewsLeft, Agree
  <2>7. QED
    BY <2>5, <2>6
<1>3. CASE Dequeue
  <2>1. /\ pc = "idle" /\ queue # <<>> /\ queue' = Tail(queue)
        /\ UNCHANGED <<reading, summaryHeight, dbChan>>
    BY <1>3 DEF Dequeue, WorkerAt
  <2>2. /\ Head(queue) = queue[1] /\ 1 \in 1..Len(queue)
        /\ \A i \in 1..Len(queue') : i + 1 \in 1..Len(queue) /\ queue'[i] = queue[i + 1]
    BY <2>1, <1>n
  <2>3. Head(queue).kind = "block"
    BY <2>2, <1>l DEF OnlyBlocks
  <2>4. pc' = "store"
    BY <1>3, <2>3 DEF Dequeue
  <2>5. \A i \in 1..Len(queue') : queue'[i].kind = "block"
    BY <2>2, <1>l DEF OnlyBlocks
  <2>6. QED
    BY <2>1, <2>4, <2>5, <1>h DEF OnlyBlocks
<1>4. CASE Store
  <2>1. pc = "store" /\ UNCHANGED <<queue, reading, dbChan>>
        /\ (pc' = "send" \/ (pc' = "report" /\ summaryHeight' = summaryHeight))
    BY <1>4 DEF Store, WorkerAt
  <2>2. OnlyBlocks'
    BY <2>1, <1>l DEF OnlyBlocks
  <2>3. NewsLeft'
    BY <2>1, <1>h DEF NewsLeft
  <2>4. QED
    BY <2>2, <2>3
<1>5. CASE SendDBHeight
  <2>1. pc' = "report" /\ queue' = queue /\ dbChan' = Offer(dbChan, cur.height)
    BY <1>5 DEF SendDBHeight
  <2>2. Len(dbChan') # 0
    <3>1. CASE Len(dbChan) < Cap
      BY <3>1, <2>1, <1>n DEF Offer, TypeOK
    <3>2. CASE ~(Len(dbChan) < Cap)
      BY <3>2, <2>1, <1>n DEF Offer
    <3>3. QED
      BY <3>1, <3>2
  <2>3. dbChan' # <<>>
    BY <2>2
  <2>4. QED
    BY <2>1, <2>3, <1>l DEF OnlyBlocks, NewsLeft
<1>6. CASE SwitchToSideChain
  BY <1>6, <1>l DEF SwitchToSideChain, WorkerAt, OnlyBlocks
<1>7. CASE SendNodeHeight
  <2>1. pc = "report" /\ pc' = "idle" /\ UNCHANGED <<queue, reading, summaryHeight, dbChan>>
    BY <1>7 DEF SendNodeHeight, WorkerAt
  <2>2. QED
    BY <2>1, <1>l, <1>h DEF OnlyBlocks
<1>8. CASE NewContext \/ GetHeight \/ TakeNodeHeight \/ UNCHANGED vars
  <2>1. UNCHANGED <<queue, pc, reading, summaryHeight, dbChan>>
    BY <1>8 DEF NewContext, GetHeight, TakeNodeHeight, workerVars, vars
  <2>2. QED
    BY <2>1, <1>q, <1>l DEF NewsLeft, Agree
<1>9. CASE SendInitialHeight
  <2>1. dbChan' = Append(dbChan, initial) /\ UNCHANGED <<queue, pc>>
    BY <1>9 DEF SendInitialHeight, workerVars
  <2>2. dbChan' # <<>>
    BY <2>1, <1>n DEF TypeOK
  <2>3. QED
    BY <2>1, <2>2, <1>q DEF NewsLeft
<1>10. CASE TakeDBHeight
  <2>1. UNCHANGED <<queue, pc>> /\ (reading'.best = -1 \/ reading' = reading)
        /\ reading = NotReading
    BY <1>10 DEF TakeDBHeight, workerVars, Selects
  <2>2. ~Agree'
    BY <2>1 DEF Agree, NotReading
  <2>3. QED
    BY <2>1, <2>2, <1>q DEF NewsLeft
<1>11. CASE ReadHeight
  <2>1. UNCHANGED <<queue, pc, summaryHeight>>
    BY <1>11 DEF ReadHeight, workerVars
  <2>2. reading'.best = summaryHeight
    BY <1>11 DEF ReadHeight, TypeOK
  <2>3. QED
    BY <2>1, <2>2, <1>q DEF NewsLeft
<1>12. CASE Update
  <2>1. UNCHANGED <<queue, pc>> /\ reading' = NotReading
    BY <1>12 DEF Update, workerVars
  <2>2. QED
    BY <2>1, <1>q DEF NewsLeft, Agree, NotReading
<1>13. QED
  BY <1>r, <1>1, <1>3, <1>4, <1>5, <1>6, <1>7, <1>8, <1>9, <1>10, <1>11, <1>12
     DEF Next, ProcessBlocks, MainCore, StatusNtfnHandler

\* Ready is set only with the height of the best row, or while a height is still to come
\* that makes StatusNtfnHandler look again: for channels of any capacity, and although
\* rows are stored between its reads and its decision.
THEOREM ReadyCorrect == Spec => ReadyOnLastNews
<1> DEFINE ReadyStep == ~status.Ready /\ status'.Ready =>
                          /\ status'.Height = status'.DBHeight
                          /\ \/ status'.DBHeight = summaryHeight
                             \/ pc = "send" \/ dbChan # <<>>
                             \/ reorgs > 0
<1>1. TypeOK /\ NewsInv /\ [Next]_vars => ReadyStep
  <2> SUFFICES ASSUME TypeOK, NewsInv, [Next]_vars, ~status.Ready, status'.Ready
               PROVE  /\ status'.Height = status'.DBHeight
                      /\ \/ status'.DBHeight = summaryHeight
                         \/ pc = "send" \/ dbChan # <<>>
                         \/ reorgs > 0
    OBVIOUS
  <2>1. CASE Update
    <3>1. Agree /\ status'.DBHeight = reading.best /\ status'.Height = reading.best
      BY <2>1 DEF Update, TypeOK, Agree
    <3>2. reorgs = 0 \/ reorgs > 0
      BY BoundsAssumption DEF TypeOK
    <3>3. QED
      BY <3>1, <3>2 DEF NewsInv, NewsLeft
  <2>2. CASE TakeNodeHeight \/ NewContext
    BY <2>2 DEF TakeNodeHeight, NewContext, TypeOK
  <2>3. CASE status' = status
    BY <2>3
  <2>4. QED
    BY <2>1, <2>2, <2>3 DEF Next, ProcessBlocks, MainCore, StatusNtfnHandler, NodeExtend,
       NodeReorg, Dequeue, Store, SendDBHeight, SwitchToSideChain, SendNodeHeight,
       GetHeight, SendInitialHeight, TakeDBHeight, ReadHeight, vars
<1>2. QED
  BY <1>1, NewsInit, NewsStep, TypeCorrect, PTL DEF Spec, ReadyOnLastNews

-----------------------------------------------------------------------------
(***************************************************************************)
(* The status is up to date.  Without reorganizations and failures the     *)
(* blocks come one height after the other, so that ProcessBlocks' place is *)
(* a height, and so is what it has sent.                                   *)
(***************************************************************************)
reached == nodeHeight - Len(queue)

Line ==
    /\ \A i \in 1..Len(queue) : queue[i] = Block(reached + i, "block")
    /\ pc # "switch" /\ (pc # "idle" => cur = Block(reached, "block") /\ StartHeight < reached)
    /\ summaryHeight = IF pc = "store" THEN reached - 1 ELSE reached
    /\ StartHeight <= reached
    /\ main \in {"sendHeight", "done"} => StartHeight <= initial

\* StatusNtfnHandler has received SQLite's height and read nothing else.
Current == /\ reading.height = summaryHeight /\ reading.summary = summaryHeight
           /\ reading.best \in {-1, summaryHeight}

\* SQLite's height is shown, or on its way to be shown, or about to be sent.
Covered ==
    \/ pc = "send"
    \/ main # "done" /\ summaryHeight = StartHeight
    \/ status.DBHeight = summaryHeight
    \/ Current
    \/ \E i \in 1..Len(dbChan) : dbChan[i] = summaryHeight

CoveredInv == Undisturbed => Line /\ Covered

\* The status shows no more than was stored when the summary was read.
Behind == reading # NotReading => status.DBHeight <= reading.summary

\* StatusNtfnHandler keeps up: no height finds the channel full, which would drop it.
KeepsUp == Undisturbed /\ pc = "send" => Len(dbChan) < Cap

\* Behind is inductive: rows are never removed, and only Update changes what is shown.
LEMMA BehindStep ==
    TypeOK /\ NothingBeforeItsRow /\ Behind /\ [Next]_vars => Behind'
<1> SUFFICES ASSUME TypeOK, NothingBeforeItsRow, Behind, [Next]_vars PROVE Behind'
  OBVIOUS
<1>1. CASE TakeDBHeight
  <2>1. status' = status /\ (reading' = reading \/ reading'.summary = summaryHeight)
    BY <1>1 DEF TakeDBHeight
  <2>2. QED
    BY <2>1 DEF Behind, NothingBeforeItsRow
<1>2. CASE ReadHeight
  <2>1. status' = status /\ reading'.summary = reading.summary /\ reading # NotReading
    BY <1>2 DEF ReadHeight, TypeOK
  <2>2. QED
    BY <2>1 DEF Behind
<1>3. CASE Update
  BY <1>3 DEF Update, Behind
<1>4. CASE TakeNodeHeight \/ NewContext
  <2>1. status'.DBHeight = status.DBHeight /\ reading' = reading
    BY <1>4 DEF TakeNodeHeight, NewContext, TypeOK
  <2>2. QED
    BY <2>1 DEF Behind
<1>5. CASE status' = status /\ reading' = reading
  BY <1>5 DEF Behind
<1>6. QED
  BY <1>1, <1>2, <1>3, <1>4, <1>5 DEF Next, ProcessBlocks, MainCore, StatusNtfnHandler,
     NodeExtend, NodeReorg, Dequeue, Store, SendDBHeight, SwitchToSideChain,
     SendNodeHeight, GetHeight, SendInitialHeight, vars

\* What the program starts with.
LEMMA UpInit == Init => CoveredInv
BY Numbers DEF Init, CoveredInv, Line, Covered, reached, Block

\* CoveredInv is inductive as long as no height finds the channel full: Store takes
\* the best row ahead of what is reported, but then its height is about to be sent;
\* Update drops a reading only if a row was stored after it, and shows an older height
\* only if that of the best row was not shown yet.
LEMMA UpStep ==
    TypeOK /\ NothingBeforeItsRow /\ Behind /\ CoveredInv /\ KeepsUp /\ [Next]_vars
      => CoveredInv'
<1> SUFFICES ASSUME TypeOK, NothingBeforeItsRow, Behind, CoveredInv, KeepsUp,
                    [Next]_vars, Undisturbed'
             PROVE  Line' /\ Covered'
  BY DEF CoveredInv
<1> USE Numbers
<1>n. /\ nodeHeight \in Nat /\ summaryHeight \in Nat /\ reorgs \in Nat /\ failures \in Nat
      /\ Len(queue) \in Nat /\ reached \in Int /\ dbChan \in Chan
      /\ initial \in Nat /\ cur.height \in AllHeights
  BY BoundsAssumption, QueueType, LenProperties DEF TypeOK, reached
<1>f. ~Fails
  BY <1>n DEF Fails, Undisturbed
<1>r. ~\E k, h \in AllHeights : NodeReorg(k, h)
  BY <1>n DEF NodeReorg, Undisturbed
<1>u. Undisturbed
  BY <1>f, <1>r, <1>n DEF Undisturbed, Next, ProcessBlocks, MainCore, StatusNtfnHandler,
     NodeExtend, Dequeue, Store, SendDBHeight, SwitchToSideChain, SendNodeHeight,
     NewContext, GetHeight, SendInitialHeight, TakeNodeHeight, TakeDBHeight, ReadHeight,
     Update, nodeVars, vars
<1>l. Line /\ Covered
  BY <1>u DEF CoveredInv
\* An action that leaves the chain, the queue and ProcessBlocks alone.
<1>k. ASSUME UNCHANGED <<nodeVars, workerVars, summaryHeight>>,
             main' \in {"sendHeight", "done"} => StartHeight <= initial'
      PROVE  Line'
  BY <1>k, <1>l DEF Line, reached, nodeVars, workerVars, Block
<1>1. CASE NodeExtend
  <2>1. queue' = Append(queue, Block(nodeHeight + 1, "block")) /\ nodeHeight' = nodeHeight + 1
        /\ UNCHANGED <<pc, cur, summaryHeight, dbChan, main, initial, status, reading>>
    BY <1>1 DEF NodeExtend, mainVars
  <2>2. queue \in Seq(BlockType) /\ Block(nodeHeight + 1, "block") \in BlockType
    BY <1>1, <1>n, QueueType DEF NodeExtend, Block, BlockType, AllHeights
  <2>3. Len(queue') = Len(queue) + 1 /\ queue'[Len(queue) + 1] = Block(nodeHeight + 1, "block")
        /\ \A i \in 1..Len(queue) : queue'[i] = queue[i]
    BY <2>1, <2>2
  <2>4. reached' = reached /\ nodeHeight + 1 = reached + (Len(queue) + 1)
    BY <2>1, <2>3, <1>n DEF reached
  <2>5. ASSUME NEW i \in 1..Len(queue') PROVE queue'[i] = Block(reached + i, "block")
    <3>1. CASE i \in 1..Len(queue)
      BY <3>1, <2>3, <1>l DEF Line
    <3>2. CASE i = Len(queue) + 1
      BY <3>2, <2>3, <2>4
    <3>3. QED
      BY <3>1, <3>2, <2>3, <1>n
  <2>6. Line'
    BY <2>1, <2>4, <2>5, <1>l DEF Line
  <2>7. QED
    BY <2>1, <2>6, <1>l DEF Covered, Current
<1>3. CASE Dequeue
  <2>1. /\ pc = "idle" /\ queue # <<>> /\ cur' = Head(queue) /\ queue' = Tail(queue)
        /\ UNCHANGED <<nodeHeight, summaryHeight, dbChan, main, initial, status, reading>>
    BY <1>3 DEF Dequeue, WorkerAt, nodeVars, mainVars
  <2>2. queue \in Seq(BlockType)
    BY QueueType
  <2>3. /\ Len(queue) > 0 /\ Len(queue') = Len(queue) - 1 /\ Head(queue) = queue[1]
        /\ \A i \in 1..Len(queue') : i + 1 \in 1..Len(queue) /\ queue'[i] = queue[i + 1]
    BY <2>1, <2>2
  <2>4. reached' = reached + 1
    BY <2>1, <2>3, <1>n DEF reached
  <2>5. cur' = Block(reached', "block")
    BY <2>1, <2>3, <2>4, <1>n, <1>l DEF Line
  <2>6. pc' = "store"
    BY <1>3, <2>1, <2>5 DEF Dequeue, Block
  <2>7. ASSUME NEW i \in 1..Len(queue') PROVE queue'[i] = Block(reached' + i, "block")
    <3>1. queue'[i] = Block(reached + (i + 1), "block")
      BY <2>3, <1>l DEF Line
    <3>2. reached + (i + 1) = reached' + i
      BY <2>3, <2>4, <1>n
    <3>3. QED
      BY <3>1, <3>2
  <2>8. summaryHeight' = reached' - 1 /\ StartHeight < reached'
        /\ (main' \in {"sendHeight", "done"} => StartHeight <= initial')
    BY <2>1, <2>4, <1>l, <1>n DEF Line
  <2>9. Line'
    BY <2>5, <2>6, <2>7, <2>8, <2>4, <1>n DEF Line
  <2>10. QED
    BY <2>1, <2>6, <2>9, <1>l DEF Covered, Current
<1>4. CASE Store
  <2>1. /\ pc = "store" /\ pc' = "send" /\ summaryHeight' = Stored(cur.height)
        /\ UNCHANGED <<nodeHeight, queue, cur, main, initial>>
    BY <1>4, <1>f DEF Store, WorkerAt, nodeVars, mainVars
  <2>2. cur = Block(reached, "block") /\ summaryHeight = reached - 1 /\ reached' = reached
    BY <2>1, <1>l DEF Line, reached
  <2>3. Stored(cur.height) = reached
    <3>1. cur.height = reached
      BY <2>2 DEF Block
    <3>2. Max({summaryHeight, cur.height}) \in {summaryHeight, cur.height}
          /\ Max({summaryHeight, cur.height}) >= cur.height
      BY <1>n, MaxOfTwo
    <3>3. QED
      BY <3>1, <3>2, <2>2, <1>n DEF Stored
  <2>4. Line'
    BY <2>1, <2>2, <2>3, <1>l DEF Line
  <2>5. QED
    BY <2>1, <2>4 DEF Covered, Current
<1>5. CASE SendDBHeight
  <2>1. /\ pc = "send" /\ pc' = "report" /\ dbChan' = Offer(dbChan, cur.height)
        /\ UNCHANGED <<nodeHeight, queue, cur, summaryHeight, main, initial>>
    BY <1>5 DEF SendDBHeight, WorkerAt, nodeVars, mainVars
  <2>2. cur = Block(reached, "block") /\ summaryHeight = reached /\ reached' = reached
    BY <2>1, <1>l DEF Line, reached
  <2>3. dbChan' = Append(dbChan, summaryHeight) /\ dbChan \in Seq(AllHeights)
    BY <2>1, <2>2, <1>u DEF Offer, KeepsUp, Chan, Block, TypeOK
  <2>4. Len(dbChan) + 1 \in 1..Len(dbChan') /\ dbChan'[Len(dbChan) + 1] = summaryHeight
    BY <2>3, <1>n DEF TypeOK
  <2>5. Line'
    BY <2>1, <2>2, <1>l DEF Line
  <2>6. QED
    BY <2>1, <2>4, <2>5 DEF Covered, Current
<1>6. CASE SwitchToSideChain
  BY <1>6, <1>l DEF SwitchToSideChain, WorkerAt, Line
<1>7. CASE SendNodeHeight
  <2>1. /\ pc = "report" /\ pc' = "idle"
        /\ UNCHANGED <<nodeHeight, queue, cur, summaryHeight, dbChan, main, initial,
                       status, reading>>
    BY <1>7 DEF SendNodeHeight, WorkerAt, nodeVars, mainVars
  <2>2. Line'
    BY <2>1, <1>l DEF Line, reached
  <2>3. QED
    BY <2>1, <2>2, <1>l DEF Covered, Current
<1>8. CASE NewContext
  <2>1. main = "newContext" /\ main' = "getHeight" /\ status'.DBHeight = status.DBHeight
        /\ UNCHANGED <<nodeVars, workerVars, summaryHeight, dbChan, reading>>
    BY <1>8, <1>f DEF NewContext, TypeOK
  <2>2. Line'
    BY <2>1, <1>k
  <2>3. QED
    BY <2>1, <2>2, <1>l DEF Covered, Current, workerVars
<1>9. CASE GetHeight
  <2>1. main = "getHeight" /\ main' = "sendHeight" /\ initial' = summaryHeight
        /\ UNCHANGED <<nodeVars, workerVars, summaryHeight, dbChan, status, reading>>
    BY <1>9 DEF GetHeight
  <2>2. StartHeight <= summaryHeight
    BY <1>l, <1>n DEF Line
  <2>3. Line'
    BY <2>1, <2>2, <1>k
  <2>4. QED
    BY <2>1, <2>3, <1>l DEF Covered, Current, workerVars
<1>10. CASE SendInitialHeight
  <2>1. /\ main = "sendHeight" /\ main' = "done" /\ dbChan' = Append(dbChan, initial)
        /\ UNCHANGED <<nodeVars, workerVars, summaryHeight, initial, status, reading>>
    BY <1>10 DEF SendInitialHeight
  <2>2. dbChan \in Seq(AllHeights) /\ initial \in AllHeights
    BY DEF TypeOK, Chan
  <2>3. /\ Len(dbChan) + 1 \in 1..Len(dbChan') /\ dbChan'[Len(dbChan) + 1] = initial
        /\ \A i \in 1..Len(dbChan) : i \in 1..Len(dbChan') /\ dbChan'[i] = dbChan[i]
    BY <2>1, <2>2
  <2>4. StartHeight <= initial /\ initial <= summaryHeight
    BY <2>1, <1>l DEF Line, NothingBeforeItsRow
  <2>5. Line'
    BY <2>1, <2>4, <1>k
  <2>6. Covered'
    <3>1. CASE summaryHeight = StartHeight
      <4>1. initial = summaryHeight
        BY <3>1, <2>4, <1>n
      <4>2. QED
        BY <4>1, <2>1, <2>3 DEF Covered, Current
    <3>2. CASE summaryHeight # StartHeight
      BY <3>2, <2>1, <2>3, <1>l DEF Covered, Current, workerVars
    <3>3. QED
      BY <3>1, <3>2
  <2>7. QED
    BY <2>5, <2>6
<1>11. CASE TakeNodeHeight
  <2>1. status'.DBHeight = status.DBHeight
        /\ UNCHANGED <<nodeVars, workerVars, summaryHeight, dbChan, main, initial, reading>>
    BY <1>11 DEF TakeNodeHeight, TypeOK, mainVars
  <2>2. Line'
    BY <2>1, <1>k, <1>l DEF Line
  <2>3. QED
    BY <2>1, <2>2, <1>l DEF Covered, Current, workerVars
<1>12. CASE TakeDBHeight
  <2>1. /\ reading = NotReading /\ dbChan # <<>> /\ dbChan' = Tail(dbChan)
        /\ reading' = [height |-> Head(dbChan), summary |-> summaryHeight, best |-> -1]
        /\ UNCHANGED <<nodeVars, workerVars, summaryHeight, main, initial, status>>
    BY <1>12, <1>f DEF TakeDBHeight, Selects, mainVars
  <2>2. /\ dbChan \in Seq(AllHeights) /\ Head(dbChan) = dbChan[1]
        /\ Len(Tail(dbChan)) = Len(dbChan) - 1 /\ Len(dbChan) \in Nat
        /\ \A i \in 1..Len(Tail(dbChan)) : Tail(dbChan)[i] = dbChan[i + 1]
    BY <2>1 DEF TypeOK, Chan
  <2>3. Line'
    BY <2>1, <1>k, <1>l DEF Line
  <2>4. ~Current
    BY <2>1, <1>n DEF NotReading, Current
  <2>5. ASSUME NEW i \in 1..Len(dbChan), dbChan[i] = summaryHeight PROVE Covered'
    <3>1. CASE i = 1
      BY <3>1, <2>1, <2>2, <2>5 DEF Covered, Current
    <3>2. CASE i # 1
      <4>1. i - 1 \in 1..Len(dbChan') /\ dbChan'[i - 1] = summaryHeight
        BY <3>2, <2>1, <2>2, <2>5
      <4>2. QED
        BY <4>1, <2>1 DEF Covered, Current
    <3>3. QED
      BY <3>1, <3>2
  <2>6. Covered'
    BY <2>1, <2>4, <2>5, <1>l DEF Covered, Current, workerVars
  <2>7. QED
    BY <2>3, <2>6
<1>13. CASE Update
  <2>1. UNCHANGED <<nodeVars, workerVars, summaryHeight, dbChan, main, initial>>
    BY <1>13 DEF Update, mainVars
  <2>2. Line'
    BY <2>1, <1>k, <1>l DEF Line
  <2>3. CASE Current
    <3>1. status'.DBHeight = summaryHeight
      BY <1>13, <2>3 DEF Update, TypeOK, Current
    <3>2. QED
      BY <2>1, <2>2, <3>1 DEF Covered
  <2>4. CASE ~Current
    <3>1. status'.DBHeight = summaryHeight \/ status'.DBHeight = status.DBHeight
          \/ (Agree /\ status'.DBHeight = reading.best)
      BY <1>13 DEF Update, TypeOK, Agree
    <3>2. CASE status.DBHeight = summaryHeight
      <4>1. Agree => reading.best = summaryHeight
        <5> SUFFICES ASSUME Agree PROVE reading.best = summaryHeight
          OBVIOUS
        <5>1. reading # NotReading
          BY DEF Agree, NotReading
        <5>2. reading.height <= summaryHeight /\ summaryHeight <= reading.summary
          BY <3>2, <5>1 DEF NothingBeforeItsRow, Behind
        <5>3. reading.height \in Nat
          BY <5>1 DEF TypeOK
        <5>4. QED
          BY <5>2, <5>3, <1>n DEF Agree
      <4>2. QED
        BY <2>1, <2>2, <3>1, <3>2, <4>1 DEF Covered
    <3>3. QED
      BY <2>1, <2>2, <2>4, <3>2, <1>l DEF Covered, workerVars
  <2>5. QED
    BY <2>3, <2>4
<1>16. CASE ReadHeight
  <2>1. /\ reading.best = -1 /\ reading' = [reading EXCEPT !.best = summaryHeight]
        /\ UNCHANGED <<nodeVars, workerVars, summaryHeight, dbChan, main, initial, status>>
    BY <1>16 DEF ReadHeight, mainVars
  <2>2. Line'
    BY <2>1, <1>k, <1>l DEF Line
  <2>3. Current => Current'
    BY <2>1 DEF Current, TypeOK
  <2>4. QED
    BY <2>1, <2>2, <2>3, <1>l DEF Covered, workerVars
<1>14. CASE UNCHANGED vars
  <2>1. UNCHANGED <<nodeVars, workerVars, summaryHeight, dbChan, main, initial, status,
                    reading>>
    BY <1>14 DEF vars, nodeVars, workerVars
  <2>2. Line'
    BY <2>1, <1>k, <1>l DEF Line
  <2>3. QED
    BY <2>1, <2>2, <1>l DEF Covered, Current, workerVars
<1>15. QED
  BY <1>r, <1>1, <1>3, <1>4, <1>5, <1>6, <1>7, <1>8, <1>9, <1>10, <1>11, <1>12, <1>13,
     <1>14, <1>16 DEF Next, ProcessBlocks, MainCore, StatusNtfnHandler

\* In every behaviour in which StatusNtfnHandler keeps up with ProcessBlocks, when
\* nothing is under way the height shown is that of the data.
THEOREM StatusUpToDate == Spec /\ []KeepsUp => []UpToDate
<1>1. TypeOK /\ CoveredInv => UpToDate
  <2> SUFFICES ASSUME TypeOK, CoveredInv, Settled, Undisturbed
               PROVE  status.DBHeight = summaryHeight
    BY DEF UpToDate
  <2>1. Covered /\ Len(dbChan) = 0
    BY DEF CoveredInv, Settled
  <2>2. ~Current
    BY Numbers DEF Settled, NotReading, Current, TypeOK
  <2>3. QED
    BY <2>1, <2>2 DEF Covered, Settled
<1>2. Init => Behind
  BY DEF Init, Behind
<1>3. QED
  BY <1>1, <1>2, BehindStep, UpInit, UpStep, TypeCorrect, ReportCorrect, PTL DEF Spec

-----------------------------------------------------------------------------
(***************************************************************************)
(* When StatusNtfnHandler keeps up by itself: each block sends one height, *)
(* and mainCore one more.                                                  *)
(***************************************************************************)

\* The channel holds at most a height for each block that ProcessBlocks has been
\* through, and the one of mainCore.
Room ==
    reorgs = 0 =>
      Len(dbChan) <= (reached - StartHeight) - (IF pc \in {"store", "send"} THEN 1 ELSE 0)
                     + (IF main = "done" THEN 1 ELSE 0)

\* Nothing has been sent when the program starts.
LEMMA RoomInit == Init => Room
BY Numbers DEF Init, Room, reached

\* A height is sent only for a block that has been taken from the queue.
LEMMA RoomStep == TypeOK /\ Room /\ [Next]_vars => Room'
<1> SUFFICES ASSUME TypeOK, Room, [Next]_vars, reorgs' = 0
             PROVE  Room'
  BY DEF Room
<1> USE Numbers
<1>n. /\ nodeHeight \in Nat /\ reorgs \in Nat /\ Len(queue) \in Nat /\ reached \in Int
      /\ StartHeight \in Nat /\ dbChan \in Seq(AllHeights) /\ Len(dbChan) \in Nat
      /\ cur.height \in AllHeights /\ initial \in AllHeights
  BY BoundsAssumption, QueueType, LenProperties DEF TypeOK, reached, Chan
<1>r. ~\E k, h \in AllHeights : NodeReorg(k, h)
  BY <1>n DEF NodeReorg
<1>u. reorgs = 0
  BY <1>r, <1>n DEF Next, ProcessBlocks, MainCore, StatusNtfnHandler,
     NodeExtend, Dequeue, Store, SendDBHeight, SwitchToSideChain, SendNodeHeight,
     NewContext, GetHeight, SendInitialHeight, TakeNodeHeight, TakeDBHeight, ReadHeight,
     Update, nodeVars, vars
<1>l. Len(dbChan) <= (reached - StartHeight)
                       - (IF pc \in {"store", "send"} THEN 1 ELSE 0)
                       + (IF main = "done" THEN 1 ELSE 0)
  BY <1>u DEF Room
\* An action that leaves the chain, the queue and ProcessBlocks' place alone.
<1>k. ASSUME UNCHANGED <<nodeHeight, queue, pc, main>>, Len(dbChan') <= Len(dbChan),
             Len(dbChan') \in Nat
      PROVE  Room'
  <2>1. reached' = reached
    BY <1>k DEF reached
  <2>2. QED
    BY <1>k, <1>l, <1>n, <2>1 DEF Room
<1>1. CASE NodeExtend
  <2>1. queue' = Append(queue, Block(nodeHeight + 1, "block")) /\ nodeHeight' = nodeHeight + 1
        /\ UNCHANGED <<pc, dbChan, main>>
    BY <1>1 DEF NodeExtend, mainVars
  <2>2. queue \in Seq(BlockType) /\ Block(nodeHeight + 1, "block") \in BlockType
    BY <1>1, <1>n, QueueType DEF NodeExtend, Block, BlockType, AllHeights
  <2>3. Len(queue') = Len(queue) + 1
    BY <2>1, <2>2
  <2>4. reached' = reached
    BY <2>1, <2>3, <1>n DEF reached
  <2>5. QED
    BY <2>1, <2>4, <1>l DEF Room
<1>2. CASE Dequeue
  <2>1. /\ pc = "idle" /\ queue # <<>> /\ queue' = Tail(queue)
        /\ UNCHANGED <<nodeHeight, dbChan, main>>
    BY <1>2 DEF Dequeue, WorkerAt, nodeVars, mainVars
  <2>2. Len(queue') = Len(queue) - 1
    BY <2>1, QueueType
  <2>3. reached' = reached + 1
    BY <2>1, <2>2, <1>n DEF reached
  <2>4. QED
    BY <2>1, <2>3, <1>l, <1>n DEF Room
<1>3. CASE Store \/ SwitchToSideChain \/ SendNodeHeight
  <2>1. /\ pc \in {"store", "switch", "report"}
        /\ pc' \in {"send", "switch", "report", "idle"} /\ (pc' = "send" => pc = "store")
        /\ UNCHANGED <<nodeHeight, queue, dbChan, main>>
    BY <1>3 DEF Store, SwitchToSideChain, SendNodeHeight, WorkerAt, nodeVars, mainVars
  <2>2. reached' = reached
    BY <2>1 DEF reached
  <2>3. QED
    BY <2>1, <2>2, <1>l, <1>n DEF Room
<1>4. CASE SendDBHeight
  <2>1. /\ pc = "send" /\ pc' = "report" /\ dbChan' = Offer(dbChan, cur.height)
        /\ UNCHANGED <<nodeHeight, queue, main>>
    BY <1>4 DEF SendDBHeight, WorkerAt, nodeVars, mainVars
  <2>2. Len(dbChan') \in Nat /\ Len(dbChan') <= Len(dbChan) + 1
    BY <2>1, <1>n DEF Offer
  <2>3. reached' = reached
    BY <2>1 DEF reached
  <2>4. QED
    BY <2>1, <2>2, <2>3, <1>l, <1>n DEF Room
<1>5. CASE SendInitialHeight
  <2>1. main = "sendHeight" /\ main' = "done" /\ dbChan' = Append(dbChan, initial)
        /\ UNCHANGED <<nodeHeight, queue, pc>>
    BY <1>5 DEF SendInitialHeight, nodeVars, workerVars
  <2>2. Len(dbChan') = Len(dbChan) + 1
    BY <2>1, <1>n
  <2>3. reached' = reached
    BY <2>1 DEF reached
  <2>4. QED
    BY <2>1, <2>2, <2>3, <1>l, <1>n DEF Room
<1>6. CASE NewContext \/ GetHeight
  <2>1. main # "done" /\ main' # "done" /\ UNCHANGED <<nodeHeight, queue, pc, dbChan>>
    BY <1>6 DEF NewContext, GetHeight, nodeVars, workerVars
  <2>2. reached' = reached
    BY <2>1 DEF reached
  <2>3. QED
    BY <2>1, <2>2, <1>l DEF Room
<1>7. CASE TakeDBHeight
  <2>1. /\ dbChan # <<>> /\ dbChan' = Tail(dbChan)
        /\ UNCHANGED <<nodeHeight, queue, pc, main>>
    BY <1>7 DEF TakeDBHeight, nodeVars, workerVars, mainVars
  <2>2. Len(dbChan') \in Nat /\ Len(dbChan') <= Len(dbChan)
    BY <2>1, <1>n
  <2>3. QED
    BY <2>1, <2>2, <1>k
<1>8. CASE TakeNodeHeight \/ ReadHeight \/ Update \/ UNCHANGED vars
  <2>1. UNCHANGED <<nodeHeight, queue, pc, main, dbChan>>
    BY <1>8 DEF TakeNodeHeight, ReadHeight, Update, vars, nodeVars, workerVars, mainVars
  <2>2. QED
    BY <2>1, <1>n, <1>k
<1>9. QED
  BY <1>r, <1>1, <1>2, <1>3, <1>4, <1>5, <1>6, <1>7, <1>8 DEF Next, ProcessBlocks,
     MainCore, StatusNtfnHandler

\* When the chain grows by fewer blocks than the channel holds heights, none is dropped,
\* however late StatusNtfnHandler comes: when nothing is under way the height shown is
\* that of the data.  The code: the buffers of blockConnChanBuffer.
THEOREM BurstUpToDate ==
    ASSUME MaxHeight - StartHeight < Cap
    PROVE  Spec => []UpToDate
<1>1. TypeOK /\ Room => KeepsUp
  <2> SUFFICES ASSUME TypeOK, Room, Undisturbed, pc = "send"
               PROVE  Len(dbChan) < Cap
    BY DEF KeepsUp
  <2>1. /\ Len(queue) \in Nat /\ nodeHeight \in Nat /\ nodeHeight <= MaxHeight
        /\ Len(dbChan) \in Nat /\ StartHeight \in Nat /\ Cap \in Nat /\ MaxHeight \in Nat
    BY Numbers, QueueType, LenProperties DEF TypeOK, AllHeights, Chan
  <2>2. Len(dbChan) <= (reached - StartHeight) - 1 + (IF main = "done" THEN 1 ELSE 0)
    BY DEF Room, Undisturbed
  <2>3. QED
    BY <2>1, <2>2 DEF reached
<1>2. QED
  BY <1>1, RoomInit, RoomStep, TypeCorrect, StatusUpToDate, PTL DEF Spec
=============================================================================
