------------------------- MODULE ChainFollowProofs -------------------------
(***************************************************************************)
(* Proofs about ChainFollow, for any block tree, any node that moves in it *)
(* whenever it likes, any capacity of the reorg channels, and with or      *)
(* without RPC errors.                                                     *)
(***************************************************************************)
EXTENDS ChainFollow, SequenceTheorems, WellFoundedInduction, TLAPS

-----------------------------------------------------------------------------
(***************************************************************************)
(* The operators of the model.                                             *)
(***************************************************************************)

\* A block's ancestors are blocks, the block itself and the genesis among them.
LEMMA AncestorIsBlock ==
    ASSUME NEW b \in Blocks, NEW h \in 0..Height(b)
    PROVE  Ancestor(b, h) \in Blocks
BY BlocksAssumption DEF Ancestor, Height

\* A block's height is a natural number, one of the heights that SQLite has rows for.
LEMMA HeightOfBlock ==
    ASSUME NEW b \in Blocks
    PROVE  Height(b) \in Nat /\ Height(b) \in Heights
BY BlocksAssumption DEF Height, Heights

\* The heights of the rows of SQLite are natural numbers.
LEMMA HeightsAreNat == Heights \subseteq Nat
BY HeightOfBlock DEF Heights

\* A nonempty set of positions in a sequence has a last one.
LEMMA LastPosition ==
    ASSUME NEW n \in Nat, NEW T \in SUBSET (1..n), T # {}
    PROVE  \E i \in T : \A j \in T : j <= i
<1> DEFINE U == {n - i : i \in T}
<1>1. U \subseteq Nat
  <2>1. ASSUME NEW i \in T PROVE n - i \in Nat
    BY i \in 1..n
  <2>2. QED
    BY <2>1
<1>2. U # {}
  <2>1. PICK i \in T : TRUE
    OBVIOUS
  <2>2. n - i \in U
    OBVIOUS
  <2>3. QED
    BY <2>2
<1>3. PICK x \in U : \A y \in U : <<y, x>> \notin OpToRel(<, Nat)
  <2> HIDE DEF U
  <2>1. QED
    BY <1>1, <1>2, NatLessThanWellFounded, WFMin
<1>4. PICK i \in T : x = n - i
  OBVIOUS
<1>5. ASSUME NEW j \in T PROVE j <= i
  <2>1. n - j \in U /\ n - j \in Nat /\ x \in Nat /\ j \in Nat /\ i \in Nat
    BY <1>1
  <2>2. ~(n - j < x)
    BY <1>3, <2>1 DEF OpToRel
  <2>3. QED
    BY <1>4, <2>1, <2>2
<1>6. QED
  BY <1>5

\* The pool info stored with a block is that of a block.
LEMMA PoolIsBlock ==
    ASSUME TypeOK, NEW b \in Blocks
    PROVE  PoolOf(b) \in Blocks
BY DEF TypeOK, PoolOf

\* The node's current best block is a block.
LEMMA TipIsBlock == TypeOK => nodeTip \in Blocks
BY DEF TypeOK, nodeTip

\* Rewriting rows of blocks leaves every row of its type.
LEMMA RewrittenType ==
    ASSUME TypeOK, NEW s \in Seq(Blocks), NEW good \in SUBSET (1..Len(s))
    PROVE  Rewritten(s, good) \in [Heights -> [hash : Blocks, pool : Blocks] \union {NoRow}]
<1>1. ASSUME NEW h \in Heights
      PROVE  Rewritten(s, good)[h] \in [hash : Blocks, pool : Blocks] \union {NoRow}
  <2>1. CASE ~\E i \in good : Height(s[i]) = h
    BY <2>1 DEF Rewritten, TypeOK
  <2>2. CASE \E i \in good : Height(s[i]) = h
    <3> DEFINE T == {i \in good : Height(s[i]) = h}
               Last(i) == /\ Height(s[i]) = h
                          /\ \A j \in good : Height(s[j]) = h => j <= i
               last == CHOOSE i \in good : Last(i)
    <3>1. T \in SUBSET (1..Len(s)) /\ Len(s) \in Nat
      <4>1. good \subseteq 1..Len(s)
        OBVIOUS
      <4>2. T \subseteq good
        OBVIOUS
      <4>3. QED
        BY <4>1, <4>2, LenProperties
    <3>0. T # {}
      BY <2>2
    <3>2. \E i \in T : \A j \in T : j <= i
      <4> HIDE DEF T
      <4> QED  BY <3>1, <3>0, LastPosition
    <3>3. \E i \in good : Last(i)
      BY <3>2
    <3>4. last \in good
      <4> HIDE DEF Last
      <4> QED  BY <3>3
    <3>5. s[last] \in Blocks
      <4> HIDE DEF last
      <4> QED  BY <3>4
    <3>6. Rewritten(s, good)[h] = Row(s[last], PoolOf(s[last]))
      BY <2>2 DEF Rewritten
    <3> HIDE DEF last
    <3>7. QED
      BY <3>5, <3>6, PoolIsBlock DEF Row
  <2>3. QED
    BY <2>1, <2>2
<1>2. QED
  BY <1>1 DEF Rewritten

-----------------------------------------------------------------------------
(***************************************************************************)
(* Type correctness.                                                       *)
(***************************************************************************)

\* The state in which main() starts the monitors has its types.
LEMMA InitTypeOK == Init => TypeOK
<1> SUFFICES ASSUME Init PROVE TypeOK
  OBVIOUS
<1>1. PICK b \in StartBlocks :
        /\ tips = <<b>> /\ cur = b /\ bestNode = b /\ collected = b /\ webBlock = b
        /\ reorgData = [m \in Monitor |-> b]
        /\ summary = RowsOf(b) /\ pgBlocks = AncestorsOf(b)
  BY DEF Init
<1>2. b \in Blocks
  BY StartAssumption
<1>3. tips \in Seq(Blocks) /\ Len(tips) \in 1..MaxTips
  BY <1>1, <1>2, BoundsAssumption
<1>4. summary \in [Heights -> [hash : Blocks, pool : Blocks] \union {NoRow}]
  <2>1. ASSUME NEW h \in Heights, h <= Height(b)
        PROVE  Row(Ancestor(b, h), Ancestor(b, h)) \in [hash : Blocks, pool : Blocks]
    <3>1. h \in 0..Height(b)
      BY <1>2, <2>1, HeightsAreNat, HeightOfBlock
    <3>2. QED
      BY <1>2, <3>1, AncestorIsBlock DEF Row
  <2>2. QED
    BY <1>1, <2>1 DEF RowsOf
<1>5. pgBlocks \subseteq Blocks
  BY <1>1, <1>2, AncestorIsBlock DEF AncestorsOf
<1>6. /\ reorgChan \in [Monitor -> Seq(Blocks)]
      /\ \A m \in Monitor : Len(reorgChan[m]) <= ReorgBuffer
      /\ sideChain \in [Monitor -> Seq(Blocks)]
  <2>1. <<>> \in Seq(Blocks) /\ Len(<<>>) = 0 /\ 0 <= ReorgBuffer
    BY BoundsAssumption, EmptySeq
  <2>2. reorgChan = [m \in Monitor |-> <<>>] /\ sideChain = [m \in Monitor |-> <<>>]
    BY DEF Init
  <2>3. QED
    BY <2>1, <2>2
<1>7. inFlight \in Seq(Notification) /\ queue \in Seq(Blocks)
  <2>1. inFlight = <<>> /\ queue = <<>>
    BY DEF Init
  <2>2. QED
    BY <2>1, EmptySeq
<1>8. /\ pc \in Places /\ reorganizing \in [Monitor -> BOOLEAN]
      /\ nodeMtxHeld \in BOOLEAN /\ poolInfo \subseteq Blocks
      /\ reorg \in BOOLEAN /\ panicked \in BOOLEAN
  <2>1. /\ pc = "idle" /\ reorganizing = [m \in Monitor |-> FALSE]
        /\ nodeMtxHeld = FALSE /\ poolInfo = {} /\ reorg = FALSE /\ panicked = FALSE
    BY DEF Init
  <2>2. QED
    BY <2>1 DEF Places
<1>9. QED
  BY <1>1, <1>2, <1>3, <1>4, <1>5, <1>6, <1>7, <1>8 DEF TypeOK

\* The notification that is delivered next is about a block.
LEMMA NextNotification ==
    ASSUME TypeOK, inFlight # <<>>
    PROVE  Head(inFlight).hash \in Blocks /\ Tail(inFlight) \in Seq(Notification)
<1>1. inFlight \in Seq(Notification)
  BY DEF TypeOK
<1>2. Head(inFlight) \in Notification /\ Tail(inFlight) \in Seq(Notification)
  BY <1>1, HeadTailProperties
<1>3. QED
  BY <1>2 DEF Notification

\* A monitor's side chain with the block being handled is a sequence of blocks.
LEMMA SideChainType ==
    ASSUME TypeOK, NEW m \in Monitor
    PROVE  FullSideChain(m) \in Seq(Blocks)
BY DEF TypeOK, FullSideChain

\* What the handlers do to the fields of a reorganization keeps their types.
LEMMA ReorgVarsType ==
    ASSUME TypeOK, NEW m \in Monitor,
           JoinSideChain(m) \/ EndReorg(m) \/ UNCHANGED reorgVars
    PROVE  /\ reorganizing' \in [Monitor -> BOOLEAN]
           /\ reorgData' \in [Monitor -> Blocks]
           /\ sideChain' \in [Monitor -> Seq(Blocks)]
<1>1. CASE JoinSideChain(m)
  BY <1>1 DEF JoinSideChain, TypeOK
<1>2. CASE EndReorg(m)
  BY <1>2 DEF EndReorg, TypeOK
<1>3. CASE UNCHANGED reorgVars
  BY <1>3 DEF reorgVars, TypeOK
<1>4. QED
  BY <1>1, <1>2, <1>3

\* The node's moves, the handlers of its notifications and ProcessBlocks keep every
\* type, and no reorg channel is filled beyond its capacity.
LEMMA NextTypeOK == TypeOK /\ [Next]_vars => TypeOK'
<1> SUFFICES ASSUME TypeOK, [Next]_vars PROVE TypeOK'
  OBVIOUS
<1> USE DEF nodeVars, workerVars, stakeVars, collectVars, storeVars
<1>1. ASSUME NEW b \in Blocks, NodeExtend(b) PROVE TypeOK'
  <2>1. tips' \in Seq(Blocks) /\ Len(tips') \in 1..MaxTips
    BY <1>1, BoundsAssumption DEF NodeExtend, NodeMayMove, TypeOK
  <2>2. inFlight' \in Seq(Notification)
    BY <1>1 DEF NodeExtend, TypeOK, Block, Notification
  <2>3. QED
    BY <1>1, <2>1, <2>2 DEF NodeExtend, TypeOK, reorgVars
<1>2. ASSUME NEW b \in Blocks, NEW k \in Heights, NodeReorg(b, k) PROVE TypeOK'
  <2>1. tips' \in Seq(Blocks) /\ Len(tips') \in 1..MaxTips
    BY <1>2, BoundsAssumption DEF NodeReorg, NodeMayMove, TypeOK
  <2>2. inFlight' \in Seq(Notification)
    <3> DEFINE n == Height(b) - k
               attached == [i \in 1..n |-> Block(Ancestor(b, k + i))]
    <3>1. n \in Nat /\ k \in Nat
      BY <1>2, HeightsAreNat, HeightOfBlock DEF NodeReorg, ForkAt
    <3>2. ASSUME NEW i \in 1..n PROVE Block(Ancestor(b, k + i)) \in Notification
      <4>1. k + i \in 0..Height(b)
        BY <3>1, HeightOfBlock
      <4>2. QED
        BY <4>1, AncestorIsBlock DEF Block, Notification
    <3>3. attached \in Seq(Notification)
      BY <3>1, <3>2
    <3>4. <<Reorg(b)>> \in Seq(Notification)
      BY DEF Reorg, Notification
    <3>5. inFlight' = inFlight \o <<Reorg(b)>> \o attached
      BY <1>2 DEF NodeReorg
    <3> HIDE DEF attached
    <3>6. QED
      BY <3>3, <3>4, <3>5, ConcatProperties DEF TypeOK
  <2>3. QED
    BY <1>2, <2>1, <2>2 DEF NodeReorg, TypeOK, reorgVars
<1>3. ASSUME OnBlockConnected PROVE TypeOK'
  <2>1. inFlight' \in Seq(Notification) /\ queue' \in Seq(Blocks)
    BY <1>3, NextNotification DEF OnBlockConnected, TypeOK
  <2>2. QED
    BY <1>3, <2>1 DEF OnBlockConnected, TypeOK, reorgVars
<1>4. ASSUME OnReorganization PROVE TypeOK'
  <2>1. inFlight' \in Seq(Notification) /\ Head(inFlight).hash \in Blocks
    BY <1>4, NextNotification DEF OnReorganization
  <2>2. ASSUME NEW m \in Monitor
        PROVE  /\ reorgChan'[m] \in Seq(Blocks)
               /\ Len(reorgChan'[m]) <= ReorgBuffer
    BY <1>4, <2>1, BoundsAssumption DEF OnReorganization, TypeOK
  <2>3. reorgChan' \in [Monitor -> Seq(Blocks)]
    BY <1>4, <2>2 DEF OnReorganization
  <2>4. QED
    BY <1>4, <2>1, <2>2, <2>3 DEF OnReorganization, TypeOK, reorgVars
<1>5. ASSUME NEW m \in Monitor, ReorgHandler(m) PROVE TypeOK'
  <2>1. Head(reorgChan[m]) \in Blocks /\ Tail(reorgChan[m]) \in Seq(Blocks)
        /\ Len(Tail(reorgChan[m])) <= ReorgBuffer
    <3>1. reorgChan[m] \in Seq(Blocks) /\ reorgChan[m] # <<>> /\ Len(reorgChan[m]) <= ReorgBuffer
      BY <1>5 DEF ReorgHandler, TypeOK
    <3>2. QED
      <4> DEFINE q == reorgChan[m]
      <4>1. /\ Head(q) \in Blocks /\ Tail(q) \in Seq(Blocks)
            /\ Len(Tail(q)) = Len(q) - 1 /\ Len(q) \in Nat /\ Len(q) <= ReorgBuffer
        <5> HIDE DEF q
        <5> QED  BY <3>1, HeadTailProperties, LenProperties DEF q
      <4>2. QED
        BY <4>1, BoundsAssumption
  <2>2. /\ reorgChan' \in [Monitor -> Seq(Blocks)]
        /\ \A n \in Monitor : Len(reorgChan'[n]) <= ReorgBuffer
    <3>1. reorgChan' = [reorgChan EXCEPT ![m] = Tail(reorgChan[m])]
      BY <1>5 DEF ReorgHandler
    <3>2. QED
      BY <2>1, <3>1 DEF TypeOK
  <2>3. /\ reorganizing' \in [Monitor -> BOOLEAN]
        /\ reorgData' \in [Monitor -> Blocks]
        /\ sideChain' \in [Monitor -> Seq(Blocks)]
    BY <1>5, <2>1 DEF ReorgHandler, TypeOK, reorgVars
  <2>4. QED
    BY <1>5, <2>2, <2>3 DEF ReorgHandler, TypeOK
<1>6. ASSUME Dequeue PROVE TypeOK'
  <2>1. cur' \in Blocks /\ queue' \in Seq(Blocks)
    BY <1>6, HeadTailProperties DEF Dequeue, TypeOK
  <2>2. QED
    BY <1>6, <2>1 DEF Dequeue, TypeOK, reorgVars, Places
<1>7. ASSUME StakeDBBlock PROVE TypeOK'
  <2> DEFINE s == FullSideChain("stakedb")
  <2>1. JoinSideChain("stakedb") \/ EndReorg("stakedb") \/ UNCHANGED reorgVars
    BY <1>7 DEF StakeDBBlock, SwitchStakeDB
  <2>2. /\ reorganizing' \in [Monitor -> BOOLEAN]
        /\ reorgData' \in [Monitor -> Blocks]
        /\ sideChain' \in [Monitor -> Seq(Blocks)]
    BY <2>1, ReorgVarsType DEF Monitor
  <2>3. /\ pc' \in Places /\ bestNode' \in Blocks /\ nodeMtxHeld' \in BOOLEAN
        /\ poolInfo' \subseteq Blocks /\ panicked' \in BOOLEAN
    <3>1. CASE JoinSideChain("stakedb") /\ pc' = "blockdata" /\ UNCHANGED <<stakeVars, panicked>>
      BY <3>1 DEF TypeOK, Places
    <3>2. CASE SwitchStakeDB(s)
      <4>1. s \in Seq(Blocks)
        BY SideChainType DEF Monitor
      <4>2. {s[i] : i \in 1..Len(s)} \subseteq Blocks
        <5> HIDE DEF s
        <5> QED  BY <4>1
      <4> HIDE DEF s
      <4>3. QED
        BY <3>2, <4>2 DEF SwitchStakeDB, TypeOK, Places
    <3>3. CASE ConnectBlock
      BY <3>3 DEF ConnectBlock, TypeOK, Places
    <3>4. QED
      BY <1>7, <3>1, <3>2, <3>3 DEF StakeDBBlock
  <2>4. QED
    BY <1>7, <2>2, <2>3 DEF StakeDBBlock, TypeOK
<1>8. ASSUME BlockDataBlock PROVE TypeOK'
  <2>1. JoinSideChain("blockdata") \/ EndReorg("blockdata") \/ UNCHANGED reorgVars
    BY <1>8 DEF BlockDataBlock
  <2>2. /\ reorganizing' \in [Monitor -> BOOLEAN]
        /\ reorgData' \in [Monitor -> Blocks]
        /\ sideChain' \in [Monitor -> Seq(Blocks)]
    BY <2>1, ReorgVarsType DEF Monitor
  <2>3. pc' \in Places /\ reorg' \in BOOLEAN /\ panicked' \in BOOLEAN
    BY <1>8 DEF BlockDataBlock, FetchNotified, TypeOK, Places, Monitor
  <2>4. QED
    BY <1>8, <2>2, <2>3 DEF BlockDataBlock, TypeOK
<1>9. ASSUME CollectHash PROVE TypeOK'
  BY <1>9 DEF CollectHash, CollectBlockInfo, GiveUp, TypeOK, Places, reorgVars
<1>10. ASSUME Collect PROVE TypeOK'
  BY <1>10, TipIsBlock DEF Collect, CollectBlockInfo, GiveUp, TypeOK, Places, reorgVars
<1>11. ASSUME Store PROVE TypeOK'
  <2>1. collected \in Blocks /\ Row(collected, PoolOf(collected)) \in [hash : Blocks, pool : Blocks]
    BY PoolIsBlock DEF TypeOK, Row
  <2>2. summary' \in [Heights -> [hash : Blocks, pool : Blocks] \union {NoRow}]
    BY <1>11, <2>1 DEF Store, TypeOK
  <2>3. QED
    BY <1>11, <2>1, <2>2 DEF Store, TypeOK, Places, reorgVars
<1>12. ASSUME WiredBlock PROVE TypeOK'
  <2>1. JoinSideChain("wired") \/ EndReorg("wired") \/ UNCHANGED reorgVars
    BY <1>12 DEF WiredBlock, SwitchWired
  <2>2. /\ reorganizing' \in [Monitor -> BOOLEAN]
        /\ reorgData' \in [Monitor -> Blocks]
        /\ sideChain' \in [Monitor -> Seq(Blocks)]
    BY <2>1, ReorgVarsType DEF Monitor
  <2>3. /\ pc' \in Places /\ panicked' \in BOOLEAN
        /\ summary' \in [Heights -> [hash : Blocks, pool : Blocks] \union {NoRow}]
    <3>1. CASE SwitchWired(FullSideChain("wired"))
      <4>1. PICK good \in SUBSET (1..Len(FullSideChain("wired"))) :
              summary' = Rewritten(FullSideChain("wired"), good)
        BY <3>1 DEF SwitchWired
      <4>2. FullSideChain("wired") \in Seq(Blocks)
        BY SideChainType DEF Monitor
      <4>3. pc' \in Places /\ panicked' \in BOOLEAN
        BY <3>1 DEF SwitchWired, TypeOK, Places
      <4>4. QED
        BY <4>1, <4>2, <4>3, RewrittenType
    <3>2. CASE pc' = "idle" /\ UNCHANGED <<summary, panicked>>
      BY <3>2 DEF TypeOK, Places
    <3>3. QED
      BY <1>12, <3>1, <3>2 DEF WiredBlock
  <2>4. QED
    BY <1>12, <2>2, <2>3 DEF WiredBlock, TypeOK
<1>13. CASE UNCHANGED vars
  BY <1>13 DEF vars, TypeOK
<1>14. QED
  BY <1>1, <1>2, <1>3, <1>4, <1>5, <1>6, <1>7, <1>8, <1>9, <1>10, <1>11, <1>12,
     <1>13 DEF Next, ProcessBlocks

\* Every variable keeps its type, and no reorg channel ever holds more than its
\* capacity, whatever the node does and whatever fails.
THEOREM TypeCorrect == Spec => []TypeOK
BY InitTypeOK, NextTypeOK, PTL DEF Spec

-----------------------------------------------------------------------------
(***************************************************************************)
(* Reorganizations.                                                        *)
(***************************************************************************)

\* A handler that appends to its side chain is reorganizing and has not reached
\* the new head; one that ends the reorganization leaves no side chain.
LEMMA SideChainStep ==
    ASSUME TypeOK, SideChainOnlyInReorg, NEW n \in Monitor,
           JoinSideChain(n) \/ EndReorg(n) \/ UNCHANGED reorgVars
    PROVE  SideChainOnlyInReorg'
<1>1. CASE JoinSideChain(n)
  <2>1. /\ reorganizing[n] /\ cur # reorgData[n] /\ cur \in Blocks
        /\ reorganizing' = reorganizing /\ reorgData' = reorgData
        /\ sideChain' = [sideChain EXCEPT ![n] = Append(sideChain[n], cur)]
    BY <1>1 DEF JoinSideChain, JoinsSideChain, TypeOK
  <2>2. ASSUME NEW m \in Monitor
        PROVE  /\ sideChain'[m] # <<>> => reorganizing'[m]
               /\ \A i \in 1..Len(sideChain'[m]) : sideChain'[m][i] # reorgData'[m]
    <3>1. CASE m = n
      <4>1. sideChain[n] \in Seq(Blocks) /\ sideChain'[n] = Append(sideChain[n], cur)
        BY <2>1 DEF TypeOK
      <4>2. ASSUME NEW i \in 1..Len(sideChain'[n]) PROVE sideChain'[n][i] # reorgData[n]
        BY <2>1, <4>1 DEF SideChainOnlyInReorg
      <4>3. QED
        BY <2>1, <3>1, <4>2
    <3>2. CASE m # n
      BY <2>1, <3>2 DEF SideChainOnlyInReorg, TypeOK
    <3>3. QED
      BY <3>1, <3>2
  <2>3. QED
    BY <2>2 DEF SideChainOnlyInReorg
<1>2. CASE EndReorg(n)
  <2>1. /\ reorgData' = reorgData
        /\ \A m \in Monitor : sideChain'[m] = IF m = n THEN <<>> ELSE sideChain[m]
        /\ \A m \in Monitor : m # n => reorganizing'[m] = reorganizing[m]
    BY <1>2 DEF EndReorg, TypeOK
  <2>2. Len(<<>>) = 0
    OBVIOUS
  <2>3. QED
    BY <2>1, <2>2 DEF SideChainOnlyInReorg
<1>3. CASE UNCHANGED reorgVars
  BY <1>3 DEF reorgVars, SideChainOnlyInReorg
<1>4. QED
  BY <1>1, <1>2, <1>3

\* A step leaves the reorganizations alone, is that of one block handler, or is a
\* ReorgHandler that receives a reorganization.
LEMMA ReorgStep ==
    ASSUME [Next]_vars
    PROVE  \/ UNCHANGED reorgVars
           \/ \E m \in Monitor : JoinSideChain(m) \/ EndReorg(m)
           \/ \E m \in Monitor : ReorgHandler(m)
<1>1. ASSUME NEW b \in Blocks, NodeExtend(b) PROVE UNCHANGED reorgVars
  BY <1>1 DEF NodeExtend
<1>2. ASSUME NEW b \in Blocks, NEW k \in Heights, NodeReorg(b, k) PROVE UNCHANGED reorgVars
  BY <1>2 DEF NodeReorg
<1>3. CASE OnBlockConnected
  BY <1>3 DEF OnBlockConnected
<1>4. CASE OnReorganization
  BY <1>4 DEF OnReorganization
<1>5. CASE Dequeue
  BY <1>5 DEF Dequeue
<1>6. CASE StakeDBBlock
  BY <1>6 DEF StakeDBBlock, SwitchStakeDB, Monitor
<1>7. CASE BlockDataBlock
  BY <1>7 DEF BlockDataBlock, Monitor
<1>8. CASE CollectHash
  BY <1>8 DEF CollectHash
<1>9. CASE Collect
  BY <1>9 DEF Collect
<1>10. CASE Store
  BY <1>10 DEF Store
<1>11. CASE WiredBlock
  BY <1>11 DEF WiredBlock, SwitchWired, Monitor
<1>12. CASE UNCHANGED vars
  BY <1>12 DEF vars, reorgVars
<1>13. QED
  BY <1>1, <1>2, <1>3, <1>4, <1>5, <1>6, <1>7, <1>8, <1>9, <1>10, <1>11, <1>12
     DEF Next, ProcessBlocks

\* A monitor holds blocks back only while it is reorganizing, and never the new
\* head: the ReorgHandler goroutine and the block handler share the fields, yet no
\* interleaving of them starts a reorganization over a side chain left behind.
THEOREM SideChainCorrect == Spec => []SideChainOnlyInReorg
<1>1. Init => SideChainOnlyInReorg
  BY Len(<<>>) = 0 DEF Init, SideChainOnlyInReorg
<1>2. TypeOK /\ SideChainOnlyInReorg /\ [Next]_vars => SideChainOnlyInReorg'
  <2> SUFFICES ASSUME TypeOK, SideChainOnlyInReorg, [Next]_vars
               PROVE  SideChainOnlyInReorg'
    OBVIOUS
  <2>1. CASE UNCHANGED reorgVars
    BY <2>1 DEF reorgVars, SideChainOnlyInReorg
  <2>2. CASE \E m \in Monitor : JoinSideChain(m) \/ EndReorg(m)
    BY <2>2, SideChainStep
  <2>3. ASSUME NEW n \in Monitor, ReorgHandler(n) PROVE SideChainOnlyInReorg'
    <3>1. CASE reorganizing[n]
      BY <2>3, <3>1 DEF ReorgHandler, reorgVars, SideChainOnlyInReorg
    <3>2. CASE ~reorganizing[n]
      <4>1. /\ sideChain' = sideChain /\ sideChain[n] = <<>>
            /\ \A m \in Monitor : m # n => /\ reorganizing'[m] = reorganizing[m]
                                           /\ reorgData'[m] = reorgData[m]
        BY <2>3, <3>2 DEF ReorgHandler, SideChainOnlyInReorg, TypeOK
      <4>2. QED
        BY <4>1, Len(<<>>) = 0 DEF SideChainOnlyInReorg
    <3>3. QED
      BY <3>1, <3>2
  <2>4. QED
    BY <2>1, <2>2, <2>3, ReorgStep
<1>3. QED
  BY <1>1, <1>2, TypeCorrect, PTL DEF Spec

\* The target of a reorganization does not change while it is in progress, although
\* the handlers read reorgData again after they have released reorgLock.
THEOREM ReorgTargetStable == Spec => ReorgDataStable
<1> DEFINE Stable == \A m \in Monitor : reorganizing[m] /\ reorganizing'[m]
                                            => reorgData'[m] = reorgData[m]
<1>1. TypeOK /\ [Next]_vars => [Stable]_reorgVars
  <2> SUFFICES ASSUME TypeOK, [Next]_vars PROVE Stable \/ UNCHANGED reorgVars
    OBVIOUS
  <2>1. CASE \E m \in Monitor : JoinSideChain(m) \/ EndReorg(m)
    BY <2>1 DEF JoinSideChain, EndReorg
  <2>2. ASSUME NEW n \in Monitor, ReorgHandler(n) PROVE Stable \/ UNCHANGED reorgVars
    BY <2>2 DEF ReorgHandler, TypeOK
  <2>3. QED
    BY <2>1, <2>2, ReorgStep
<1>2. QED
  BY <1>1, TypeCorrect, PTL DEF Spec, ReorgDataStable

-----------------------------------------------------------------------------
(***************************************************************************)
(* Nothing goes round in circles: how much is left to do, counted in       *)
(* steps, when the node is quiet.                                          *)
(***************************************************************************)

\* The steps from a place in ProcessBlocks to the next block.
PlacesLeft(place) ==
    IF place = "stakedb" THEN 6
    ELSE IF place = "blockdata" THEN 5
    ELSE IF place = "count" THEN 4
    ELSE IF place = "collect" THEN 3
    ELSE IF place = "store" THEN 2
    ELSE IF place = "wired" THEN 1
    ELSE 0

\* The reorganizations that the ReorgHandlers have not received.
ReorgsAt(m) == Len(reorgChan[m])
ReorgsLeft == ReorgsAt("stakedb") + ReorgsAt("blockdata") + ReorgsAt("wired")

\* A block takes six steps after the one that takes it from the queue, and one to get
\* there; a reorganization is delivered once and received by three goroutines.
WorkLeft ==
    8 * Len(inFlight) + 7 * Len(queue) + PlacesLeft(pc) + ReorgsLeft

\* Every step of the program brings it closer to being done with what the node has
\* announced, or ends it: no monitor hands a block back, and no reorganization is
\* announced again by the program.
WorkIsDone == [][tips' = tips => WorkLeft' < WorkLeft \/ panicked']_vars

\* The lengths that make up the work are numbers.
LEMMA WorkTypes ==
    ASSUME TypeOK
    PROVE  /\ Len(inFlight) \in Nat /\ Len(queue) \in Nat
           /\ PlacesLeft(pc) \in Nat /\ ReorgsLeft \in Nat
<1>1. \A m \in Monitor : ReorgsAt(m) \in Nat
  BY DEF TypeOK, ReorgsAt
<1>2. PlacesLeft(pc) \in Nat
  BY DEF PlacesLeft
<1>3. ReorgsLeft \in Nat
  BY <1>1 DEF ReorgsLeft, Monitor
<1>4. QED
  BY <1>2, <1>3 DEF TypeOK

\* Delivering a notification, and receiving a reorganization.
LEMMA WorkDelivered ==
    ASSUME TypeOK, TypeOK',
           OnBlockConnected \/ OnReorganization \/ \E m \in Monitor : ReorgHandler(m)
    PROVE  WorkLeft' < WorkLeft
<1>1. /\ inFlight \in Seq(Notification) /\ queue \in Seq(Blocks)
      /\ \A m \in Monitor : reorgChan[m] \in Seq(Blocks)
      /\ reorgChan \in [Monitor -> Seq(Blocks)]
      /\ Monitor = {"stakedb", "blockdata", "wired"}
  BY DEF TypeOK, Monitor
<1>2. CASE OnBlockConnected
  <2>1. /\ inFlight # <<>> /\ inFlight' = Tail(inFlight)
        /\ queue' = Append(queue, Head(inFlight).hash)
        /\ UNCHANGED <<pc, reorgChan>>
    BY <1>2 DEF OnBlockConnected, workerVars
  <2>2. Len(inFlight') = Len(inFlight) - 1 /\ Len(queue') = Len(queue) + 1
    <3>1. Head(inFlight).hash \in Blocks
      BY <1>1, <2>1, NextNotification
    <3>2. QED
      BY <1>1, <2>1, <3>1
  <2>3. PlacesLeft(pc') = PlacesLeft(pc) /\ ReorgsLeft' = ReorgsLeft
    BY <2>1 DEF PlacesLeft, ReorgsLeft, ReorgsAt
  <2>4. QED
    BY <2>2, <2>3, WorkTypes DEF WorkLeft
<1>3. CASE OnReorganization
  <2>1. /\ inFlight # <<>> /\ inFlight' = Tail(inFlight)
        /\ UNCHANGED <<pc, queue>>
    BY <1>3 DEF OnReorganization, workerVars
  <2>2. Len(inFlight') = Len(inFlight) - 1
    BY <1>1, <2>1
  <2>3. ASSUME NEW m \in Monitor
        PROVE  ReorgsAt(m) \in Nat /\ ReorgsAt(m)' \in Nat /\ ReorgsAt(m)' <= ReorgsAt(m) + 1
    <3>1. \/ reorgChan'[m] = reorgChan[m]
          \/ reorgChan'[m] = Append(reorgChan[m], Head(inFlight).hash)
      BY <1>3 DEF OnReorganization
    <3>2. Head(inFlight).hash \in Blocks
      BY <1>1, <2>1, NextNotification
    <3>3. QED
      BY <1>1, <3>1, <3>2 DEF ReorgsAt
  <2>4. ReorgsLeft' <= ReorgsLeft + 3 /\ ReorgsLeft' \in Nat
    <3>1. "stakedb" \in Monitor /\ "blockdata" \in Monitor /\ "wired" \in Monitor
      BY <1>1
    <3>2. /\ ReorgsAt("stakedb") \in Nat /\ ReorgsAt("stakedb")' \in Nat
          /\ ReorgsAt("stakedb")' <= ReorgsAt("stakedb") + 1
      BY <2>3, <3>1
    <3>3. /\ ReorgsAt("blockdata") \in Nat /\ ReorgsAt("blockdata")' \in Nat
          /\ ReorgsAt("blockdata")' <= ReorgsAt("blockdata") + 1
      BY <2>3, <3>1
    <3>4. /\ ReorgsAt("wired") \in Nat /\ ReorgsAt("wired")' \in Nat
          /\ ReorgsAt("wired")' <= ReorgsAt("wired") + 1
      BY <2>3, <3>1
    <3>5. /\ ReorgsLeft = ReorgsAt("stakedb") + ReorgsAt("blockdata") + ReorgsAt("wired")
          /\ ReorgsLeft' = ReorgsAt("stakedb")' + ReorgsAt("blockdata")' + ReorgsAt("wired")'
      BY DEF ReorgsLeft
    <3>6. QED
      BY <3>2, <3>3, <3>4, <3>5
  <2>5. PlacesLeft(pc') = PlacesLeft(pc) /\ Len(queue') = Len(queue)
    BY <2>1 DEF PlacesLeft
  <2>6. QED
    BY <2>2, <2>4, <2>5, WorkTypes DEF WorkLeft
<1>4. CASE \E m \in Monitor : ReorgHandler(m)
  <2>1. PICK m \in Monitor : ReorgHandler(m)
    BY <1>4
  <2>2. /\ reorgChan[m] # <<>> /\ reorgChan' = [reorgChan EXCEPT ![m] = Tail(@)]
        /\ UNCHANGED <<inFlight, queue, pc>>
    BY <2>1 DEF ReorgHandler, nodeVars, workerVars
  <2>3. /\ ReorgsAt(m)' = ReorgsAt(m) - 1
        /\ \A n \in Monitor : n # m => ReorgsAt(n)' = ReorgsAt(n)
        /\ \A n \in Monitor : ReorgsAt(n) \in Nat
    BY <1>1, <2>2 DEF ReorgsAt
  <2>4. ReorgsLeft' = ReorgsLeft - 1
    BY <1>1, <2>3 DEF ReorgsLeft
  <2>5. /\ PlacesLeft(pc') = PlacesLeft(pc)
        /\ Len(queue') = Len(queue) /\ Len(inFlight') = Len(inFlight)
    BY <2>2 DEF PlacesLeft
  <2>6. QED
    BY <2>4, <2>5, WorkTypes DEF WorkLeft
<1>5. QED
  BY <1>2, <1>3, <1>4

\* Handling a block goes from one place to a later one.
LEMMA WorkHandled ==
    ASSUME TypeOK, TypeOK', ProcessBlocks, ~panicked'
    PROVE  WorkLeft' < WorkLeft
<1>1. queue \in Seq(Blocks) /\ UNCHANGED <<inFlight, reorgChan>>
  BY DEF TypeOK, ProcessBlocks, Dequeue, StakeDBBlock, BlockDataBlock, CollectHash, Collect,
         Store, WiredBlock, nodeVars
<1>2. ReorgsLeft' = ReorgsLeft /\ Len(inFlight') = Len(inFlight)
  BY <1>1 DEF ReorgsLeft, ReorgsAt
<1>3. CASE Dequeue
  <2>1. queue # <<>> /\ queue' = Tail(queue) /\ pc = "idle" /\ pc' = "stakedb"
    BY <1>3 DEF Dequeue
  <2>2. Len(queue') = Len(queue) - 1
    BY <1>1, <2>1
  <2>3. PlacesLeft(pc) = 0 /\ PlacesLeft(pc') = 6
    BY <2>1 DEF PlacesLeft
  <2>4. QED
    BY <1>2, <2>2, <2>3, WorkTypes DEF WorkLeft
<1>4. CASE ~Dequeue
  <2>1. UNCHANGED queue
    BY <1>4 DEF ProcessBlocks, StakeDBBlock, BlockDataBlock, CollectHash, Collect, Store,
                WiredBlock
  <2>2. PlacesLeft(pc') < PlacesLeft(pc)
    <3>1. CASE StakeDBBlock
      <4>1. pc = "stakedb" /\ pc' \in {"blockdata", "hung"}
        BY <3>1 DEF StakeDBBlock, ConnectBlock, SwitchStakeDB, At
      <4>2. QED
        BY <4>1 DEF PlacesLeft
    <3>2. CASE BlockDataBlock
      <4>1. pc = "blockdata" /\ pc' \in {"count", "wired"}
        BY <3>2 DEF BlockDataBlock, FetchNotified, At
      <4>2. QED
        BY <4>1 DEF PlacesLeft
    <3>3. CASE CollectHash
      <4>1. pc = "count" /\ pc' \in {"collect", "store", "wired", "hung"}
        BY <3>3 DEF CollectHash, CollectBlockInfo, GiveUp, At
      <4>2. QED
        BY <4>1 DEF PlacesLeft
    <3>4. CASE Collect
      <4>1. pc = "collect" /\ pc' \in {"store", "wired", "hung"}
        BY <3>4 DEF Collect, CollectBlockInfo, GiveUp, At
      <4>2. QED
        BY <4>1 DEF PlacesLeft
    <3>5. CASE Store
      <4>1. pc = "store" /\ pc' = "wired"
        BY <3>5 DEF Store, At
      <4>2. QED
        BY <4>1 DEF PlacesLeft
    <3>6. CASE WiredBlock
      <4>1. pc = "wired" /\ pc' \in {"idle", "hung"}
        BY <3>6 DEF WiredBlock, SwitchWired, At
      <4>2. QED
        BY <4>1 DEF PlacesLeft
    <3>7. QED
      BY <1>4, <3>1, <3>2, <3>3, <3>4, <3>5, <3>6 DEF ProcessBlocks
  <2>3. PlacesLeft(pc') \in Nat
    BY DEF PlacesLeft
  <2>4. QED
    BY <1>2, <2>1, <2>2, <2>3, WorkTypes DEF WorkLeft
<1>5. QED
  BY <1>3, <1>4

\* At any timing, and whatever fails, the program is done with each announcement after a
\* bounded number of steps, or has panicked, or hangs.
THEOREM WorkEnds == Spec => WorkIsDone
<1>1. TypeOK /\ TypeOK' /\ [Next]_vars
        => [tips' = tips => WorkLeft' < WorkLeft \/ panicked']_vars
  <2> SUFFICES ASSUME TypeOK, TypeOK', Next, tips' = tips, ~panicked'
               PROVE  WorkLeft' < WorkLeft
    OBVIOUS
  <2>1. ~\E b \in Blocks : NodeExtend(b)
    <3> SUFFICES ASSUME NEW b \in Blocks, NodeExtend(b) PROVE FALSE
      OBVIOUS
    <3>1. tips \in Seq(Blocks) /\ tips' = Append(tips, b)
      BY DEF NodeExtend, TypeOK
    <3>2. Len(tips') = Len(tips) + 1 /\ Len(tips) \in Nat
      BY <3>1
    <3>3. QED
      BY <3>2
  <2>2. ~\E b \in Blocks, k \in Heights : NodeReorg(b, k)
    <3> SUFFICES ASSUME NEW b \in Blocks, NEW k \in Heights, NodeReorg(b, k) PROVE FALSE
      OBVIOUS
    <3>1. tips \in Seq(Blocks) /\ tips' = Append(tips, b)
      BY DEF NodeReorg, TypeOK
    <3>2. Len(tips') = Len(tips) + 1 /\ Len(tips) \in Nat
      BY <3>1
    <3>3. QED
      BY <3>2
  <2>3. QED
    BY <2>1, <2>2, WorkDelivered, WorkHandled DEF Next
<1>2. QED
  BY <1>1, TypeCorrect, PTL DEF Spec, WorkIsDone
=============================================================================
