---------------------------- MODULE FollowProofs ----------------------------
(***************************************************************************)
(* Proofs about ChainFollow, for any block tree: what holds of the stores  *)
(* when the node lets a reorganization wait until everything before it has *)
(* been handled, lets the monitors hear of it before its first block       *)
(* comes, and answers every RPC.                                           *)
(***************************************************************************)
EXTENDS ChainFollowProofs

\* The timing under which the code works: ChainFollow tells what goes wrong without.
Followable ==
    /\ ~RpcMayFail
    /\ "drained" \in Quiet /\ "picked" \in Quiet
    /\ ReorgBuffer > 0

-----------------------------------------------------------------------------
(***************************************************************************)
(* Blocks and their ancestors.                                             *)
(***************************************************************************)

\* The ancestor at a height has that height, and its own ancestors are the block's.
LEMMA Ancestors ==
    ASSUME NEW b \in Blocks, NEW h \in 0..Height(b)
    PROVE  /\ Ancestor(b, h) \in Blocks /\ Height(Ancestor(b, h)) = h
           /\ \A g \in 0..h : Ancestor(Ancestor(b, h), g) = Ancestor(b, g)
           /\ h > 0 => Parent(Ancestor(b, h)) = Ancestor(b, h - 1)
<1>1. b \in Seq(Nat) /\ Len(b) \in Nat /\ h \in 0..Len(b) /\ h \in Nat
  BY BlocksAssumption DEF Height
<1>2. ASSUME NEW g \in 0..Len(b)
      PROVE  /\ SubSeq(b, 1, g) \in Seq(Nat) /\ Len(SubSeq(b, 1, g)) = g
             /\ \A i \in 1..g : SubSeq(b, 1, g)[i] = b[i]
  BY <1>1
<1>3. ASSUME NEW g \in 0..h PROVE SubSeq(SubSeq(b, 1, h), 1, g) = SubSeq(b, 1, g)
  <2> DEFINE c == SubSeq(b, 1, h)
  <2>1. c \in Seq(Nat) /\ Len(c) = h /\ \A i \in 1..h : c[i] = b[i]
    BY <1>1, <1>2
  <2> HIDE DEF c
  <2>2. /\ SubSeq(c, 1, g) \in Seq(Nat) /\ Len(SubSeq(c, 1, g)) = g
        /\ \A i \in 1..g : SubSeq(c, 1, g)[i] = c[i]
    BY <1>1, <2>1
  <2>3. SubSeq(c, 1, g) = SubSeq(b, 1, g)
    BY <1>1, <1>2, <2>1, <2>2, SeqEqual
  <2>4. QED
    BY <2>3 DEF c
<1>4. Ancestor(b, h) \in Blocks /\ Height(Ancestor(b, h)) = h
  BY <1>1, <1>2, AncestorIsBlock DEF Ancestor, Height
<1>5. h > 0 => h - 1 \in 0..h
  BY <1>1
<1>6. QED
  BY <1>3, <1>4, <1>5 DEF Ancestor, Parent

\* A block is its own ancestor.
LEMMA OwnAncestor ==
    ASSUME NEW b \in Blocks
    PROVE  Ancestor(b, Height(b)) = b
<1>1. b \in Seq(Nat) /\ Len(b) \in Nat
  BY BlocksAssumption
<1>2. SubSeq(b, 1, Len(b)) \in Seq(Nat) /\ Len(SubSeq(b, 1, Len(b))) = Len(b)
      /\ \A i \in 1..Len(b) : SubSeq(b, 1, Len(b))[i] = b[i]
  BY <1>1
<1>3. QED
  BY <1>1, <1>2, SeqEqual DEF Ancestor, Height

\* A child is one block higher, and has the ancestors of its parent.
LEMMA Children ==
    ASSUME NEW b \in Blocks, NEW a \in Blocks, IsChild(b, a)
    PROVE  /\ Height(b) = Height(a) + 1
           /\ \A h \in 0..Height(a) : Ancestor(b, h) = Ancestor(a, h)
<1>1. Height(b) \in Nat /\ Height(a) \in Nat
  BY HeightOfBlock
<1>2. Height(b) # 0
  <2>1. b \in Seq(Nat) /\ b # <<>>
    BY BlocksAssumption DEF IsChild
  <2>2. QED
    BY <2>1 DEF Height
<1>3. Height(b) - 1 \in 0..Height(b) /\ a = Ancestor(b, Height(b) - 1)
  BY <1>1, <1>2 DEF IsChild, Parent
<1>4. QED
  BY <1>1, <1>3, Ancestors

-----------------------------------------------------------------------------
(***************************************************************************)
(* The inductive invariant.  Everything that is under way is a piece of    *)
(* the node's chain: what is still to be delivered ends at its best block, *)
(* the queue lies below that, and the block being handled below the queue. *)
(* So a place in the pipeline is a height.                                 *)
(*                                                                         *)
(* A reorganization is the same for all monitors: a is the old best block, *)
(* k the height of the fork, t that of the new head.                       *)
(***************************************************************************)
tipHeight == Height(nodeTip)
On(h) == Ancestor(nodeTip, h)

\* The next notification is that of a reorganization.
ReorgSent == inFlight # <<>> /\ inFlight[1].type = "reorg"

\* The height up to which ProcessBlocks has taken the blocks of the chain.
flying == IF ReorgSent THEN Len(inFlight) - 1 ELSE Len(inFlight)
taken == tipHeight - flying - Len(queue)

Pipeline ==
    /\ taken >= 0
    /\ \A i \in 1..Len(queue) : queue[i] = On(taken + i)
    /\ \A i \in 1..Len(inFlight) :
          IF inFlight[i].type = "reorg" THEN i = 1
            ELSE inFlight[i].hash = On(tipHeight - Len(inFlight) + i)
    /\ pc # "idle" => cur = On(taken) /\ taken > 0

\* The block being handled has not come to monitor m yet; the height up to which m
\* has handled, or put aside, the blocks of the chain.
Waiting(m) ==
    \/ m = "stakedb" /\ pc = "stakedb"
    \/ m = "blockdata" /\ pc \in {"stakedb", "blockdata"}
    \/ m = "wired" /\ pc # "idle"
Done(m) == IF Waiting(m) THEN taken - 1 ELSE taken

\* Monitor m has a reorganization before it or in progress, to the block Target(m).
Announced(m) == ReorgSent \/ reorgChan[m] # <<>>
Pending(m) == Announced(m) \/ reorganizing[m]
Target(m) == IF ReorgSent THEN inFlight[1].hash
             ELSE IF reorgChan[m] # <<>> THEN reorgChan[m][1] ELSE reorgData[m]

\* While it is before it nothing else is under way.
Announcement ==
    /\ ReorgSent => \A m \in Monitor : reorgChan[m] = <<>>
    /\ \A m \in Monitor :
         /\ Len(reorgChan[m]) <= 1
         /\ Announced(m) => queue = <<>> /\ pc = "idle" /\ ~reorganizing[m]

\* The side chain is the chain between the fork and what m has done.
InReorg(m, k, t) ==
    /\ Target(m) = On(t) /\ t <= tipHeight
    /\ k <= Done(m) /\ Done(m) < t
    /\ Len(sideChain[m]) = Done(m) - k
    /\ \A i \in 1..Len(sideChain[m]) : sideChain[m][i] = On(k + i)
Phase(m, k, t) == IF Pending(m) THEN InReorg(m, k, t) ELSE sideChain[m] = <<>>

Forked(a, k, t) ==
    Pending("wired") => k < Height(a) /\ Height(a) <= t /\ Ancestor(a, k) = On(k)

\* A block of a side chain is not collected.
Collecting == pc \in {"count", "collect", "store"}

\* The monitors come to the new head one after the other, while it is handled.
Turns(t) ==
    /\ Pending("stakedb") => Pending("blockdata")
    /\ Pending("blockdata") => Pending("wired")
    /\ Pending("wired") /\ ~Pending("stakedb")
         => taken = t /\ pc \in {"blockdata", "count", "collect", "store", "wired"}
    /\ Pending("wired") /\ ~Pending("blockdata")
         => taken = t /\ pc \in {"count", "collect", "store", "wired"}
    /\ Collecting => ~Pending("blockdata")

\* The stake database is where its monitor is, or at the old best block.
StakeAt(a, k) ==
    /\ ~nodeMtxHeld
    /\ bestNode = IF Pending("stakedb") THEN a ELSE On(Done("stakedb"))
    /\ ~Pending("stakedb") /\ pc \notin {"idle", "stakedb"} => cur \in poolInfo
    /\ ~Pending("stakedb") /\ Pending("wired")
         => \A h \in (k + 1)..taken : On(h) \in poolInfo

\* SQLite has no row above the best block that it may know.
NoRowAbove(a) ==
    /\ \A h \in Heights :
          summary[h] # NoRow => h <= IF Pending("wired") THEN Height(a) ELSE tipHeight
    /\ Collecting => (reorg <=> Pending("wired"))
    /\ pc = "store" => Height(collected) <= tipHeight

\* The node's best blocks since the stores were last at one of them.
PlaceOf(h) == Len(tips) - (tipHeight - h)
History(a, t) ==
    /\ \A h \in (IF Pending("wired") THEN t ELSE Done("wired"))..tipHeight :
          PlaceOf(h) >= 1 /\ tips[PlaceOf(h)] = On(h)
    /\ Pending("wired") => PlaceOf(t) >= 2 /\ tips[PlaceOf(t) - 1] = a

Following(a, k, t) ==
    /\ ~panicked /\ pc # "hung"
    /\ Pipeline /\ Announcement
    /\ \A m \in Monitor : Phase(m, k, t)
    /\ Forked(a, k, t) /\ Turns(t)
    /\ StakeAt(a, k) /\ NoRowAbove(a) /\ History(a, t)

\* If the best block does not change while a block is collected, what is collected is
\* the block being handled.
webDone == IF pc \in {"stakedb", "blockdata"} \/ Collecting THEN taken - 1 ELSE taken
WebPending == Pending("blockdata") \/ (Collecting /\ Pending("wired"))
StoresAt(a, k) ==
    /\ pc = "collect" => Height(cur) = tipHeight
    /\ pc = "store" => collected = cur
    /\ webBlock = IF WebPending THEN a ELSE On(webDone)
    /\ \A h \in 0..(IF Pending("wired") THEN k ELSE webDone) : summary[h] = Row(On(h), On(h))

\* If it may change, what is collected may be a later block: one that the node has told
\* of and that waits to be handled.
LooseAt(a, k) ==
    /\ pc = "store" => /\ taken <= Height(collected) /\ Height(collected) <= tipHeight
                       /\ collected = On(Height(collected))
    /\ IF WebPending THEN webBlock = a
         ELSE /\ webDone <= Height(webBlock) /\ Height(webBlock) <= tipHeight
              /\ webBlock = On(Height(webBlock))
    /\ \A h \in Heights : summary[h] # NoRow =>
          summary[h].hash = IF Pending("wired") THEN Ancestor(a, h) ELSE On(h)
    /\ ~Pending("wired") /\ Height(webBlock) = webDone
         => summary[webDone] = Row(On(webDone), On(webDone))

FollowInv ==
    \E a \in Blocks, k, t \in Heights :
        /\ Following(a, k, t) /\ LooseAt(a, k)
        /\ "steady" \in Quiet => StoresAt(a, k)

-----------------------------------------------------------------------------
(***************************************************************************)
(* Heights and places.                                                     *)
(***************************************************************************)

\* The places are numbers.
LEMMA PlaceTypes ==
    ASSUME TypeOK
    PROVE  /\ nodeTip \in Blocks /\ tipHeight \in Nat /\ tipHeight \in Heights
           /\ Len(tips) \in Nat \ {0} /\ nodeTip = tips[Len(tips)]
           /\ Len(queue) \in Nat /\ Len(inFlight) \in Nat /\ flying \in Nat
           /\ taken \in Int /\ \A m \in Monitor : Done(m) \in Int
<1>1. nodeTip \in Blocks /\ Len(tips) \in Nat \ {0}
  BY TipIsBlock DEF TypeOK
<1>2. tipHeight \in Nat /\ tipHeight \in Heights
  BY <1>1, HeightOfBlock DEF tipHeight
<1>3. queue \in Seq(Blocks) /\ inFlight \in Seq(Notification)
  BY DEF TypeOK
<1>4. Len(queue) \in Nat /\ Len(inFlight) \in Nat /\ (inFlight # <<>> => Len(inFlight) > 0)
  BY <1>3
<1>5. flying \in Nat
  BY <1>4 DEF flying, ReorgSent
<1>6. QED
  BY <1>1, <1>2, <1>4, <1>5 DEF taken, Done, nodeTip

\* The blocks of the node's chain.
LEMMA MainChain ==
    ASSUME TypeOK
    PROVE  /\ On(tipHeight) = nodeTip
           /\ \A h \in 0..tipHeight :
                /\ On(h) \in Blocks /\ Height(On(h)) = h
                /\ \A g \in 0..h : Ancestor(On(h), g) = On(g)
                /\ h > 0 => Parent(On(h)) = On(h - 1)
BY PlaceTypes, Ancestors, OwnAncestor DEF On, tipHeight

\* A step that leaves the node alone leaves its chain.
LEMMA TipsKept ==
    ASSUME tips' = tips
    PROVE  nodeTip' = nodeTip /\ tipHeight' = tipHeight /\ \A h : On(h)' = On(h)
BY DEF nodeTip, tipHeight, On

\* The monitors' places lie on the chain.
LEMMA DoneBounds ==
    ASSUME TypeOK, Pipeline
    PROVE  /\ taken \in 0..tipHeight
           /\ pc # "idle" => taken - 1 \in 0..tipHeight
           /\ \A m \in Monitor : Done(m) \in 0..tipHeight
BY PlaceTypes DEF Pipeline, taken, Done, Waiting

\* What the monitors and the stores have is not touched by a step of the node and of
\* the notification handlers: it leaves the monitors where they are, with the
\* reorganizations that they have before them.
LEMMA Unmoved ==
    ASSUME TypeOK, NEW a \in Blocks, NEW k \in Heights, NEW t \in Heights,
           Following(a, k, t),
           tipHeight' \in Nat, tipHeight <= tipHeight',
           \A h \in 0..tipHeight : On(h)' = On(h),
           taken' = taken,
           UNCHANGED <<pc, cur, sideChain, stakeVars, collectVars, storeVars, panicked>>,
           \A m \in Monitor : /\ Pending(m)' <=> Pending(m)
                              /\ Pending(m) => Target(m)' = Target(m)
    PROVE  /\ ~panicked' /\ pc' # "hung"
           /\ \A m \in Monitor : Phase(m, k, t)'
           /\ Forked(a, k, t)' /\ Turns(t)' /\ StakeAt(a, k)' /\ NoRowAbove(a)'
<1> USE DEF Following
<1>1. /\ k \in Nat /\ t \in Nat /\ tipHeight \in Nat /\ Height(a) \in Nat /\ taken \in 0..tipHeight
      /\ \A m \in Monitor : Done(m) \in 0..tipHeight /\ Done(m)' = Done(m)
      /\ Heights \subseteq Nat
  BY PlaceTypes, DoneBounds, HeightsAreNat, HeightOfBlock DEF Done, Waiting
<1>2. ASSUME NEW m \in Monitor PROVE Phase(m, k, t)'
  <2>1. CASE ~Pending(m)
    BY <2>1 DEF Phase
  <2>2. CASE Pending(m)
    <3>1. InReorg(m, k, t) /\ sideChain' = sideChain /\ Target(m)' = Target(m)
      BY <2>2 DEF Phase
    <3>2. Len(sideChain[m]) = Done(m) - k /\ Done(m) < t /\ k <= Done(m) /\ t <= tipHeight
      BY <3>1 DEF InReorg
    <3>3. On(t)' = On(t) /\ \A i \in 1..Len(sideChain[m]) : On(k + i)' = On(k + i)
      BY <1>1, <3>2
    <3>4. InReorg(m, k, t)'
      BY <1>1, <3>1, <3>2, <3>3 DEF InReorg
    <3>5. QED
      BY <2>2, <3>4 DEF Phase
  <2>3. QED
    BY <2>1, <2>2
<1>3. Pending("wired") => k <= Done("wired") /\ Done("wired") < t /\ t <= tipHeight
  BY DEF Phase, InReorg, Monitor
<1>4. Forked(a, k, t)'
  BY <1>1, <1>3 DEF Forked, Monitor
<1>5. Turns(t)'
  BY DEF Turns, Collecting, Monitor
<1>6. StakeAt(a, k)'
  <2>1. bestNode' = IF Pending("stakedb")' THEN a ELSE On(Done("stakedb"))'
    BY <1>1 DEF StakeAt, stakeVars, Monitor
  <2>2. ~Pending("stakedb")' /\ Pending("wired")'
          => \A h \in (k + 1)..taken' : On(h)' \in poolInfo'
    BY <1>1 DEF StakeAt, stakeVars, Monitor
  <2>3. QED
    BY <2>1, <2>2 DEF StakeAt, stakeVars, Monitor
<1>7. NoRowAbove(a)'
  <2>1. Pending("wired")' <=> Pending("wired")
    BY DEF Monitor
  <2>2. \A h \in Heights :
          summary'[h] # NoRow => h <= IF Pending("wired")' THEN Height(a) ELSE tipHeight'
    BY <1>1, <2>1 DEF NoRowAbove, storeVars
  <2>3. pc = "store" => Height(collected) \in Nat
    BY HeightOfBlock DEF TypeOK
  <2>4. QED
    BY <1>1, <2>1, <2>2, <2>3 DEF NoRowAbove, collectVars, Collecting
<1>8. QED
  BY <1>2, <1>4, <1>5, <1>6, <1>7

-----------------------------------------------------------------------------
(***************************************************************************)
(* The node moves.                                                         *)
(***************************************************************************)

\* A block on top of the chain is a block at the end of what is under way.
LEMMA ExtendStep ==
    ASSUME TypeOK, NEW a \in Blocks, NEW k \in Heights, NEW t \in Heights,
           Following(a, k, t), NEW b \in Blocks, NodeExtend(b)
    PROVE  /\ Following(a, k, t)' /\ taken' = taken
           /\ \A h \in 0..tipHeight : On(h)' = On(h)
           /\ \A m \in Monitor : Pending(m)' <=> Pending(m)
<1>f. /\ ~panicked /\ pc # "hung"
      /\ Pipeline /\ Announcement /\ (\A m \in Monitor : Phase(m, k, t))
      /\ Forked(a, k, t) /\ Turns(t) /\ StakeAt(a, k) /\ NoRowAbove(a) /\ History(a, t)
  BY DEF Following
<1>1. /\ tips' = Append(tips, b) /\ inFlight' = Append(inFlight, Block(b)) /\ IsChild(b, nodeTip)
      /\ tips \in Seq(Blocks) /\ inFlight \in Seq(Notification)
      /\ UNCHANGED <<queue, pc, cur, reorgChan, reorganizing, reorgData, sideChain,
                     stakeVars, collectVars, storeVars, panicked>>
  BY DEF NodeExtend, TypeOK, workerVars, reorgVars
<1>2. /\ Len(tips') = Len(tips) + 1 /\ tips'[Len(tips) + 1] = b
      /\ \A i \in 1..Len(tips) : tips'[i] = tips[i]
  BY <1>1
<1>3. /\ Len(inFlight') = Len(inFlight) + 1 /\ inFlight'[Len(inFlight) + 1] = Block(b)
      /\ \A i \in 1..Len(inFlight) : inFlight'[i] = inFlight[i]
      /\ inFlight' # <<>> /\ (inFlight # <<>> => 1 \in 1..Len(inFlight))
      /\ (inFlight = <<>> => Len(inFlight) = 0)
  BY <1>1
<1>4. Block(b).type # "reorg" /\ Block(b).hash = b
  BY DEF Block
<1>5. (ReorgSent' <=> ReorgSent) /\ (ReorgSent => inFlight'[1] = inFlight[1])
  BY <1>3, <1>4 DEF ReorgSent
<1>6. /\ nodeTip' = b /\ tipHeight' = tipHeight + 1
      /\ \A h \in 0..tipHeight : On(h)' = On(h)
      /\ Ancestor(nodeTip', tipHeight + 1) = b
  BY <1>1, <1>2, PlaceTypes, Children, OwnAncestor DEF nodeTip, tipHeight, On
<1>7. taken' = taken /\ flying' = flying + 1
  <2>1. flying' = flying + 1
    BY <1>3, <1>5, PlaceTypes DEF flying
  <2>2. QED
    BY <1>1, <1>6, <2>1, PlaceTypes DEF taken
<1>8. \A m \in Monitor : /\ Pending(m)' <=> Pending(m)
                         /\ Announced(m)' <=> Announced(m)
                         /\ Target(m)' = Target(m)
  BY <1>1, <1>5 DEF Pending, Announced, Target
<1>u. /\ tipHeight' \in Nat /\ tipHeight <= tipHeight'
      /\ UNCHANGED <<pc, cur, sideChain, stakeVars, collectVars, storeVars, panicked>>
      /\ \A m \in Monitor : /\ Pending(m)' <=> Pending(m)
                            /\ Pending(m) => Target(m)' = Target(m)
  BY <1>1, <1>6, <1>8, PlaceTypes
<1>9. /\ ~panicked' /\ pc' # "hung"
      /\ \A m \in Monitor : Phase(m, k, t)'
      /\ Forked(a, k, t)' /\ Turns(t)' /\ StakeAt(a, k)' /\ NoRowAbove(a)'
  BY <1>6, <1>7, <1>u, Unmoved
<1> USE <1>f
<1>10. Pipeline'
  <2>1. \A i \in 1..Len(queue') : queue'[i] = On(taken + i)'
    <3>1. \A i \in 1..Len(queue) : taken + i \in 0..tipHeight
      BY DoneBounds, PlaceTypes DEF taken
    <3>2. QED
      BY <1>1, <1>6, <1>7, <3>1 DEF Pipeline
  <2>2. ASSUME NEW i \in 1..Len(inFlight')
        PROVE  IF inFlight'[i].type = "reorg" THEN i = 1
                 ELSE inFlight'[i].hash = On(tipHeight - Len(inFlight) + i)'
    <3>1. CASE i = Len(inFlight) + 1
      <4>1. tipHeight' - Len(inFlight') + i = tipHeight + 1
        BY <1>3, <1>6, <3>1, PlaceTypes
      <4>2. QED
        BY <1>3, <1>4, <1>6, <3>1, <4>1 DEF On
    <3>2. CASE i \in 1..Len(inFlight)
      <4>1. tipHeight' - Len(inFlight') + i = tipHeight - Len(inFlight) + i
        BY <1>3, <1>6, <3>2, PlaceTypes
      <4>2. inFlight[i].type # "reorg" => tipHeight - Len(inFlight) + i \in 0..tipHeight
        BY <3>2, PlaceTypes DEF Pipeline, taken, flying, ReorgSent
      <4>3. QED
        BY <1>3, <1>6, <3>2, <4>1, <4>2 DEF Pipeline
    <3>3. QED
      BY <1>3, <3>1, <3>2, PlaceTypes
  <2>3. pc' # "idle" => cur' = On(taken)' /\ taken' > 0
    BY <1>1, <1>6, <1>7, DoneBounds DEF Pipeline
  <2>4. QED
    BY <1>7, <2>1, <2>2, <2>3 DEF Pipeline
<1>11. Announcement'
  BY <1>1, <1>5, <1>8 DEF Announcement
<1>12. History(a, t)'
  <2> DEFINE lo == IF Pending("wired") THEN t ELSE Done("wired")
  <2>1. lo' = lo /\ lo \in Nat
    BY <1>1, <1>7, <1>8, DoneBounds, HeightsAreNat DEF Done, Waiting, Monitor
  <2>2. \A h \in Nat : PlaceOf(h)' = PlaceOf(h)
    <3>1. /\ Len(tips) \in Nat /\ tipHeight \in Nat
          /\ Len(tips') = Len(tips) + 1 /\ tipHeight' = tipHeight + 1
      BY <1>2, <1>6, PlaceTypes
    <3>2. ASSUME NEW h \in Nat PROVE PlaceOf(h)' = PlaceOf(h)
      <4>1. PlaceOf(h)' = Len(tips') - (tipHeight' - h) /\ PlaceOf(h) = Len(tips) - (tipHeight - h)
        BY DEF PlaceOf
      <4>2. QED
        BY <3>1, <4>1
    <3>3. QED
      BY <3>2
  <2>3. ASSUME NEW h \in lo..tipHeight' PROVE PlaceOf(h)' >= 1 /\ tips'[PlaceOf(h)'] = On(h)'
    <3>1. CASE h = tipHeight + 1
      <4>1. PlaceOf(h)' = Len(tips) + 1
        BY <1>2, <1>6, <3>1, PlaceTypes DEF PlaceOf
      <4>2. QED
        BY <1>2, <1>6, <3>1, <4>1, PlaceTypes DEF On
    <3>2. CASE h <= tipHeight
      <4>1. h \in lo..tipHeight /\ h \in 0..tipHeight
        BY <2>1, <3>2
      <4>2. PlaceOf(h) >= 1 /\ PlaceOf(h) \in 1..Len(tips) /\ tips[PlaceOf(h)] = On(h)
        <5>1. PlaceOf(h) >= 1 /\ tips[PlaceOf(h)] = On(h)
          BY <4>1 DEF History
        <5>2. Len(tips) \in Nat /\ tipHeight \in Nat
          BY PlaceTypes
        <5>3. PlaceOf(h) \in Int /\ PlaceOf(h) <= Len(tips)
          BY <4>1, <5>2 DEF PlaceOf
        <5>4. QED
          BY <5>1, <5>2, <5>3
      <4>3. QED
        BY <1>2, <1>6, <2>2, <4>1, <4>2
    <3>3. QED
      BY <1>6, <2>1, <3>1, <3>2, PlaceTypes
  <2>4. Pending("wired") => PlaceOf(t)' >= 2 /\ tips'[PlaceOf(t)' - 1] = a
    <3>1. Pending("wired") => t <= tipHeight
      BY DEF Phase, InReorg, Monitor
    <3>2. t \in Nat
      BY HeightsAreNat
    <3>3. ASSUME Pending("wired") PROVE PlaceOf(t) - 1 \in 1..Len(tips)
      <4>1. Len(tips) \in Nat /\ tipHeight \in Nat
        BY PlaceTypes
      <4>2. PlaceOf(t) \in Int /\ PlaceOf(t) <= Len(tips)
        BY <3>1, <3>2, <3>3, <4>1 DEF PlaceOf
      <4>3. PlaceOf(t) >= 2
        BY <3>3 DEF History
      <4>4. QED
        BY <4>1, <4>2, <4>3
    <3>4. QED
      BY <1>2, <2>2, <3>2, <3>3 DEF History
  <2>5. QED
    BY <1>8, <2>1, <2>3, <2>4 DEF History, Monitor
<1>13. QED
  BY <1>6, <1>7, <1>8, <1>9, <1>10, <1>11, <1>12 DEF Following

\* Between the reorganizations nothing is before a monitor.
LEMMA NothingPending ==
    ASSUME TypeOK, NEW a \in Blocks, NEW k \in Heights, NEW t \in Heights,
           Following(a, k, t), Drained
    PROVE  /\ taken = tipHeight
           /\ \A m \in Monitor : ~Pending(m) /\ Done(m) = tipHeight
<1>1. inFlight = <<>> /\ queue = <<>> /\ pc = "idle" /\ Len(inFlight) = 0 /\ Len(queue) = 0
  BY DEF Drained
<1>2. ~ReorgSent /\ flying = 0
  BY <1>1 DEF ReorgSent, flying
<1>3. taken = tipHeight /\ \A m \in Monitor : Done(m) = tipHeight
  BY <1>1, <1>2, PlaceTypes DEF taken, Done, Waiting
<1>4. ASSUME NEW m \in Monitor, Pending(m) PROVE FALSE
  <2>1. Phase(m, k, t)
    BY DEF Following
  <2>2. Done(m) < t /\ t <= tipHeight /\ t \in Nat
    BY <1>4, <2>1, HeightsAreNat DEF Phase, InReorg
  <2>3. QED
    BY <1>3, <2>2, PlaceTypes
<1>5. QED
  BY <1>3, <1>4

\* A sequence with one more element before it.
LEMMA Prepended ==
    ASSUME NEW S, NEW x \in S, NEW s \in Seq(S)
    PROVE  /\ Len(<<x>> \o s) = Len(s) + 1 /\ (<<x>> \o s)[1] = x
           /\ \A i \in 2..(Len(s) + 1) : (<<x>> \o s)[i] = s[i - 1]
<1>1. <<x>> \in Seq(S) /\ Len(<<x>>) = 1 /\ <<x>>[1] = x /\ Len(s) \in Nat
  OBVIOUS
<1>2. QED
  BY <1>1

\* A reorganization finds nothing under way.  From now on it is before every monitor,
\* and all that is under way is its blocks.
LEMMA ReorgStart ==
    ASSUME Followable, TypeOK, NEW a \in Blocks, NEW k \in Heights, NEW t \in Heights,
           Following(a, k, t), NEW b \in Blocks, NEW f \in Heights, NodeReorg(b, f),
           NEW c \in Blocks, c = nodeTip, NEW u \in Heights, u = Height(b)
    PROVE  Following(c, f, u)' /\ nodeTip' = b /\ \A m \in Monitor : Pending(m)'
<1>f. /\ ~panicked /\ pc # "hung"
      /\ Pipeline /\ Announcement /\ (\A m \in Monitor : Phase(m, k, t))
      /\ Forked(a, k, t) /\ Turns(t) /\ StakeAt(a, k) /\ NoRowAbove(a) /\ History(a, t)
  BY DEF Following
<1>1. /\ Drained /\ ForkAt(nodeTip, b, f) /\ Height(b) >= Height(nodeTip)
      /\ tips' = Append(tips, b)
      /\ tips \in Seq(Blocks) /\ inFlight = <<>> /\ queue = <<>> /\ pc = "idle"
      /\ UNCHANGED <<queue, pc, cur, reorgChan, reorganizing, reorgData, sideChain,
                     stakeVars, collectVars, storeVars, panicked>>
  BY DEF NodeReorg, TypeOK, workerVars, reorgVars, Followable, Drained
<1>2. /\ taken = tipHeight
      /\ \A m \in Monitor : ~Pending(m) /\ Done(m) = tipHeight
  BY <1>1, NothingPending
<1>3. /\ f \in Nat /\ tipHeight \in Nat /\ Height(b) \in Nat
      /\ f < tipHeight /\ tipHeight <= Height(b)
      /\ \A h \in 0..f : Ancestor(b, h) = Ancestor(nodeTip, h)
  <2>1. /\ f \in Nat /\ tipHeight \in Nat /\ Height(b) \in Nat /\ nodeTip \in Blocks
        /\ f < tipHeight /\ tipHeight <= Height(b) /\ f < Height(b)
        /\ Ancestor(b, f) = Ancestor(nodeTip, f)
    BY <1>1, PlaceTypes, HeightsAreNat, HeightOfBlock DEF ForkAt, tipHeight
  <2>2. ASSUME NEW h \in 0..f PROVE Ancestor(b, h) = Ancestor(nodeTip, h)
    <3>1. Ancestor(Ancestor(b, f), h) = Ancestor(b, h)
      BY <2>1, Ancestors
    <3>2. Ancestor(Ancestor(nodeTip, f), h) = Ancestor(nodeTip, h)
      BY <2>1, Ancestors DEF tipHeight
    <3>3. QED
      BY <2>1, <3>1, <3>2
  <2>3. QED
    BY <2>1, <2>2
<1>4. /\ Len(tips') = Len(tips) + 1 /\ tips'[Len(tips) + 1] = b
      /\ tips'[Len(tips)] = nodeTip /\ Len(tips) \in Nat \ {0}
  BY <1>1, PlaceTypes
<1>5. /\ nodeTip' = b /\ tipHeight' = Height(b) /\ \A h : On(h)' = Ancestor(b, h)
  BY <1>4 DEF nodeTip, tipHeight, On
<1>n. PICK n \in Nat \ {0} : n = Height(b) - f
  BY <1>3
<1>6. /\ Len(inFlight') = n + 1 /\ inFlight'[1] = Reorg(b) /\ inFlight' # <<>>
      /\ \A i \in 2..(n + 1) : inFlight'[i] = Block(Ancestor(b, f + i - 1))
  <2> DEFINE attached == [i \in 1..n |-> Block(Ancestor(b, f + i))]
  <2>1. inFlight' = <<Reorg(b)>> \o attached
    <3>1. inFlight' = inFlight \o <<Reorg(b)>> \o attached
      BY <1>n DEF NodeReorg
    <3>2. QED
      BY <1>1, <3>1
  <2>2. Len(attached) = n /\ \A i \in 1..n : attached[i] = Block(Ancestor(b, f + i))
    BY <1>3
  <2>3. attached \in Seq({Block(Ancestor(b, f + i)) : i \in 1..n} \union {Reorg(b)})
    BY SeqDef
  <2> HIDE DEF attached
  <2>4. /\ Len(inFlight') = n + 1 /\ inFlight'[1] = Reorg(b)
        /\ \A i \in 2..(n + 1) : inFlight'[i] = attached[i - 1]
    BY <2>1, <2>2, <2>3, Prepended
  <2>5. ASSUME NEW i \in 2..(n + 1) PROVE inFlight'[i] = Block(Ancestor(b, f + i - 1))
    <3>1. i - 1 \in 1..n /\ f + (i - 1) = f + i - 1
      BY <1>3
    <3>2. QED
      BY <2>2, <2>4, <3>1
  <2>6. QED
    BY <1>3, <2>4, <2>5
<1>7. /\ Reorg(b).type = "reorg" /\ Reorg(b).hash = b
      /\ \A d : Block(d).type = "block" /\ Block(d).hash = d
  BY DEF Reorg, Block
<1>8. ReorgSent' /\ flying' = n
  <2>1. ReorgSent'
    BY <1>6, <1>7 DEF ReorgSent
  <2>2. QED
    BY <1>n, <1>6, <2>1 DEF flying
<1>9. taken' = f
  BY <1>n, <1>1, <1>3, <1>5, <1>8, Len(<<>>) = 0 DEF taken
<1>10. \A m \in Monitor : /\ Done(m)' = f /\ Pending(m)' /\ Announced(m)' /\ Target(m)' = b
                          /\ sideChain'[m] = <<>> /\ reorgChan'[m] = <<>> /\ ~reorganizing'[m]
  <2>1. ASSUME NEW m \in Monitor
        PROVE  /\ Pending(m)' /\ Announced(m)' /\ Target(m)' = b
               /\ sideChain'[m] = <<>> /\ reorgChan'[m] = <<>> /\ ~reorganizing'[m]
    BY <1>f, <1>1, <1>2, <1>6, <1>7, <1>8 DEF Pending, Announced, Target, Phase
  <2>2. ASSUME NEW m \in Monitor PROVE Done(m)' = f
    BY <1>1, <1>9 DEF Done, Waiting
  <2>3. QED
    BY <2>1, <2>2
<1>11. Pipeline'
  <2>1. ASSUME NEW i \in 1..Len(inFlight')
        PROVE  IF inFlight'[i].type = "reorg" THEN i = 1
                 ELSE inFlight'[i].hash = On(tipHeight - Len(inFlight) + i)'
    <3>1. CASE i = 1
      BY <1>6, <1>7, <3>1
    <3>2. CASE i \in 2..(n + 1)
      <4>1. tipHeight' - Len(inFlight') + i = f + i - 1
        <5>1. tipHeight' = f + n /\ Len(inFlight') = n + 1
          BY <1>n, <1>3, <1>5, <1>6
        <5>2. f \in Int /\ n \in Int /\ i \in Int
          BY <1>3, <3>2
        <5>3. QED
          BY <5>1, <5>2
      <4>2. QED
        BY <1>5, <1>6, <1>7, <3>2, <4>1 DEF On
    <3>3. QED
      BY <1>6, <3>1, <3>2
  <2>2. QED
    BY <1>1, <1>3, <1>9, <2>1, Len(<<>>) = 0 DEF Pipeline
<1>12. Announcement'
  BY <1>1, <1>10, Len(<<>>) = 0 DEF Announcement
<1>13. ASSUME NEW m \in Monitor PROVE Phase(m, f, u)'
  <2>1. Target(m)' = On(u)' /\ u <= tipHeight' /\ f <= Done(m)' /\ Done(m)' < u
    <3>1. Ancestor(b, u) = b
      BY OwnAncestor
    <3>2. QED
      BY <1>3, <1>5, <1>10, <3>1
  <2>2. Len(sideChain'[m]) = Done(m)' - f /\ Len(sideChain'[m]) = 0
    BY <1>3, <1>10, Len(<<>>) = 0
  <2>3. InReorg(m, f, u)'
    BY <2>1, <2>2 DEF InReorg
  <2>4. QED
    BY <1>10, <2>3 DEF Phase
<1>14. Forked(c, f, u)'
  <2>1. f < Height(c) /\ Height(c) <= u
    BY <1>3 DEF tipHeight
  <2>2. Ancestor(c, f) = Ancestor(b, f) /\ On(f)' = Ancestor(b, f)
    BY <1>3, <1>5
  <2>3. QED
    BY <2>1, <2>2 DEF Forked
<1>15. Turns(u)'
  BY <1>1, <1>10 DEF Turns, Collecting, Monitor
<1>16. StakeAt(c, f)'
  <2>1. bestNode = c /\ ~nodeMtxHeld
    BY <1>f, <1>2, MainChain DEF StakeAt, Monitor
  <2>2. QED
    BY <1>1, <1>10, <2>1 DEF StakeAt, stakeVars, Monitor
<1>17. NoRowAbove(c)'
  BY <1>f, <1>1, <1>2, <1>10 DEF NoRowAbove, Collecting, storeVars, Monitor, tipHeight
<1>18. History(c, u)'
  <2>1. PlaceOf(u)' = Len(tips) + 1
    BY <1>3, <1>4, <1>5 DEF PlaceOf
  <2>2. \A h \in u..tipHeight' : h = u
    BY <1>3, <1>5
  <2>3. tips'[PlaceOf(u)'] = On(u)' /\ tips'[PlaceOf(u)' - 1] = c /\ PlaceOf(u)' >= 2
    BY <1>4, <1>5, <2>1, OwnAncestor
  <2>4. Pending("wired")' /\ Len(tips) + 1 >= 1
    BY <1>4, <1>10 DEF Monitor
  <2>5. QED
    BY <2>1, <2>2, <2>3, <2>4 DEF History
<1>19. QED
  BY <1>f, <1>1, <1>5, <1>10, <1>11, <1>12, <1>13, <1>14, <1>15, <1>16, <1>17, <1>18
  DEF Following

-----------------------------------------------------------------------------
(***************************************************************************)
(* The notification handlers move what the node has sent.                  *)
(***************************************************************************)

\* While the node's chain stays and the SQLite monitor does not fall back, the best
\* blocks since it was last at one of them are still there.
LEMMA HistoryKept ==
    ASSUME TypeOK, NEW a \in Blocks, NEW k \in Heights, NEW t \in Heights,
           History(a, t), tips' = tips,
           Pending("wired")' => Pending("wired"),
           NEW lo \in Nat, lo = IF Pending("wired") THEN t ELSE Done("wired"),
           NEW l \in Nat, l = IF Pending("wired")' THEN t ELSE Done("wired")',
           lo <= l
    PROVE  History(a, t)'
<1>1. /\ tipHeight' = tipHeight /\ \A h : On(h)' = On(h)
      /\ tipHeight \in Nat /\ Len(tips) \in Nat
  BY TipsKept, PlaceTypes
<1>2. \A h : PlaceOf(h)' = PlaceOf(h)
  BY <1>1 DEF PlaceOf
<1>3. ASSUME NEW h \in l..tipHeight PROVE PlaceOf(h)' >= 1 /\ tips'[PlaceOf(h)'] = On(h)'
  <2>1. h \in lo..tipHeight
    BY <1>1
  <2>2. PlaceOf(h) >= 1 /\ tips[PlaceOf(h)] = On(h)
    BY <2>1 DEF History
  <2>3. QED
    BY <1>1, <1>2, <2>2
<1>4. QED
  BY <1>1, <1>2, <1>3 DEF History

\* A block goes from the notifications to the queue.
LEMMA BlockStep ==
    ASSUME Followable, TypeOK, NEW a \in Blocks, NEW k \in Heights, NEW t \in Heights,
           Following(a, k, t), OnBlockConnected
    PROVE  Following(a, k, t)' /\ taken' = taken /\ \A m \in Monitor : Pending(m)' <=> Pending(m)
<1>f. /\ Pipeline /\ Announcement /\ History(a, t)
  BY DEF Following
<1>1. /\ inFlight # <<>> /\ Head(inFlight).type = "block"
      /\ \A m \in Monitor : reorgChan[m] = <<>>
      /\ queue' = Append(queue, Head(inFlight).hash) /\ inFlight' = Tail(inFlight)
      /\ inFlight \in Seq(Notification) /\ queue \in Seq(Blocks)
      /\ UNCHANGED <<tips, pc, cur, reorgChan, reorganizing, reorgData, sideChain,
                     stakeVars, collectVars, storeVars, panicked>>
  BY DEF OnBlockConnected, TypeOK, workerVars, reorgVars, Followable
<1>2. /\ nodeTip' = nodeTip /\ tipHeight' = tipHeight /\ \A h : On(h)' = On(h)
      /\ tipHeight \in Nat /\ Len(queue) \in Nat /\ Len(inFlight) \in Nat /\ taken \in Nat
  BY <1>1, TipsKept, PlaceTypes, DoneBounds, <1>f
<1>3. /\ Len(inFlight) > 0 /\ Head(inFlight) = inFlight[1]
      /\ Len(inFlight') = Len(inFlight) - 1
      /\ \A i \in 1..(Len(inFlight) - 1) : inFlight'[i] = inFlight[i + 1]
  BY <1>1
<1>4. \A i \in 1..Len(inFlight) : inFlight[i].type # "reorg"
  BY <1>f, <1>1, <1>3 DEF Pipeline
<1>5. ~ReorgSent /\ ~ReorgSent'
  <2>1. inFlight' # <<>> => 1 \in 1..(Len(inFlight) - 1)
    BY <1>1, <1>3
  <2>2. inFlight' # <<>> => inFlight'[1] = inFlight[2] /\ 2 \in 1..Len(inFlight)
    BY <1>2, <1>3, <2>1
  <2>3. QED
    BY <1>2, <1>3, <1>4, <2>2 DEF ReorgSent
<1>6. taken' = taken /\ taken = tipHeight - Len(inFlight) - Len(queue)
  <2>1. Len(queue') = Len(queue) + 1
    BY <1>1
  <2>2. QED
    BY <1>2, <1>3, <1>5, <2>1 DEF taken, flying
<1>7. \A m \in Monitor : /\ ~Announced(m) /\ ~Announced(m)'
                         /\ Pending(m)' <=> Pending(m)
                         /\ Pending(m) => Target(m)' = Target(m)
  BY <1>1, <1>5 DEF Announced, Pending, Target
<1>8. /\ ~panicked' /\ pc' # "hung"
      /\ \A m \in Monitor : Phase(m, k, t)'
      /\ Forked(a, k, t)' /\ Turns(t)' /\ StakeAt(a, k)' /\ NoRowAbove(a)'
  <2>1. /\ tipHeight' \in Nat /\ tipHeight <= tipHeight'
        /\ UNCHANGED <<pc, cur, sideChain, stakeVars, collectVars, storeVars, panicked>>
        /\ \A h \in 0..tipHeight : On(h)' = On(h)
        /\ \A m \in Monitor : /\ Pending(m)' <=> Pending(m)
                              /\ Pending(m) => Target(m)' = Target(m)
    BY <1>1, <1>2, <1>7
  <2>2. QED
    BY <1>6, <2>1, Unmoved
<1>9. Pipeline'
  <2>1. ASSUME NEW i \in 1..Len(queue') PROVE queue'[i] = On(taken + i)'
    <3>1. CASE i = Len(queue) + 1
      <4>1. queue'[i] = inFlight[1].hash
        BY <1>1, <1>3, <3>1
      <4>2. inFlight[1].hash = On(tipHeight - Len(inFlight) + 1)
        BY <1>f, <1>2, <1>3, <1>4 DEF Pipeline
      <4>3. tipHeight - Len(inFlight) + 1 = taken + i
        BY <1>2, <1>6, <3>1
      <4>4. QED
        BY <1>2, <1>6, <4>1, <4>2, <4>3
    <3>2. CASE i \in 1..Len(queue)
      <4>1. queue'[i] = queue[i] /\ queue[i] = On(taken + i)
        BY <1>f, <1>1, <3>2 DEF Pipeline
      <4>2. QED
        BY <1>2, <1>6, <4>1
    <3>3. QED
      BY <1>1, <3>1, <3>2
  <2>2. ASSUME NEW i \in 1..Len(inFlight')
        PROVE  /\ inFlight'[i].type # "reorg"
               /\ inFlight'[i].hash = On(tipHeight - Len(inFlight) + i)'
    <3>1. i + 1 \in 1..Len(inFlight) /\ inFlight'[i] = inFlight[i + 1]
      BY <1>2, <1>3
    <3>2. inFlight[i + 1].hash = On(tipHeight - Len(inFlight) + (i + 1))
      BY <1>f, <1>4, <3>1 DEF Pipeline
    <3>3. tipHeight' - Len(inFlight') + i = tipHeight - Len(inFlight) + (i + 1)
      BY <1>2, <1>3
    <3>4. QED
      BY <1>2, <1>4, <3>1, <3>2, <3>3
  <2>3. QED
    BY <1>f, <1>1, <1>2, <1>6, <2>1, <2>2 DEF Pipeline
<1>10. Announcement'
  BY <1>f, <1>1, <1>5, <1>7 DEF Announcement
<1>11. History(a, t)'
  <2>1. PICK lo \in Nat : lo = IF Pending("wired") THEN t ELSE Done("wired")
    BY <1>f, DoneBounds, HeightsAreNat DEF Monitor
  <2>2. lo = IF Pending("wired")' THEN t ELSE Done("wired")'
    BY <1>1, <1>6, <1>7, <2>1 DEF Done, Waiting, Monitor
  <2>3. Pending("wired")' => Pending("wired")
    BY <1>7 DEF Monitor
  <2>4. QED
    BY <1>f, <1>1, <2>1, <2>2, <2>3, HistoryKept
<1>12. QED
  BY <1>6, <1>7, <1>8, <1>9, <1>10, <1>11 DEF Following

\* The announcement of a reorganization goes to every monitor's channel, which is empty.
LEMMA ReorganizationStep ==
    ASSUME Followable, TypeOK, NEW a \in Blocks, NEW k \in Heights, NEW t \in Heights,
           Following(a, k, t), OnReorganization
    PROVE  Following(a, k, t)' /\ taken' = taken /\ \A m \in Monitor : Pending(m)' <=> Pending(m)
<1>f. /\ Pipeline /\ Announcement /\ History(a, t)
  BY DEF Following
<1>1. /\ inFlight # <<>> /\ Head(inFlight).type = "reorg" /\ inFlight' = Tail(inFlight)
      /\ reorgChan' = [m \in Monitor |->
                         IF Len(reorgChan[m]) < ReorgBuffer
                           THEN Append(reorgChan[m], Head(inFlight).hash)
                           ELSE reorgChan[m]]
      /\ inFlight \in Seq(Notification)
      /\ UNCHANGED <<tips, queue, pc, cur, reorganizing, reorgData, sideChain,
                     stakeVars, collectVars, storeVars, panicked>>
  BY DEF OnReorganization, TypeOK, workerVars, reorgVars
<1>2. /\ nodeTip' = nodeTip /\ tipHeight' = tipHeight /\ \A h : On(h)' = On(h)
      /\ tipHeight \in Nat /\ Len(queue) \in Nat /\ Len(inFlight) \in Nat /\ taken \in Nat
  BY <1>1, TipsKept, PlaceTypes, DoneBounds, <1>f
<1>3. /\ Len(inFlight) > 0 /\ Head(inFlight) = inFlight[1]
      /\ Len(inFlight') = Len(inFlight) - 1
      /\ \A i \in 1..(Len(inFlight) - 1) : inFlight'[i] = inFlight[i + 1]
  BY <1>1
<1>4. \A i \in 1..Len(inFlight') : inFlight'[i].type # "reorg"
  <2>1. ASSUME NEW i \in 1..Len(inFlight') PROVE inFlight'[i].type # "reorg"
    <3>1. i + 1 \in 1..Len(inFlight) /\ i + 1 # 1 /\ inFlight'[i] = inFlight[i + 1]
      BY <1>2, <1>3
    <3>2. QED
      BY <1>f, <3>1 DEF Pipeline
  <2>2. QED
    BY <2>1
<1>5. ReorgSent /\ ~ReorgSent'
  <2>1. inFlight' # <<>> => 1 \in 1..Len(inFlight')
    BY <1>1, <1>3
  <2>2. QED
    BY <1>1, <1>3, <1>4, <2>1 DEF ReorgSent
<1>6. taken' = taken /\ flying' = flying /\ flying = Len(inFlight) - 1
  BY <1>1, <1>2, <1>3, <1>5 DEF taken, flying
<1>7. \A m \in Monitor : reorgChan[m] = <<>> /\ reorgChan'[m] = <<inFlight[1].hash>>
  <2>1. ReorgBuffer > 0 /\ \A m \in Monitor : reorgChan[m] = <<>>
    BY <1>f, <1>5 DEF Announcement, Followable
  <2>2. \A x : Append(<<>>, x) = <<x>>
    OBVIOUS
  <2>3. QED
    BY <1>1, <1>3, <2>1, <2>2, Len(<<>>) = 0
<1>8. \A m \in Monitor : /\ Announced(m) /\ Announced(m)'
                         /\ Len(reorgChan'[m]) = 1 /\ reorgChan'[m][1] = inFlight[1].hash
                         /\ Pending(m)' <=> Pending(m)
                         /\ Target(m)' = Target(m)
  <2>1. \A x : Len(<<x>>) = 1 /\ <<x>>[1] = x /\ <<x>> # <<>>
    OBVIOUS
  <2>2. \A m \in Monitor : /\ reorgChan'[m] # <<>> /\ Len(reorgChan'[m]) = 1
                           /\ reorgChan'[m][1] = inFlight[1].hash
    BY <1>7, <2>1
  <2>3. QED
    BY <1>5, <2>2 DEF Announced, Pending, Target
<1>9. /\ ~panicked' /\ pc' # "hung"
      /\ \A m \in Monitor : Phase(m, k, t)'
      /\ Forked(a, k, t)' /\ Turns(t)' /\ StakeAt(a, k)' /\ NoRowAbove(a)'
  <2>1. /\ tipHeight' \in Nat /\ tipHeight <= tipHeight'
        /\ UNCHANGED <<pc, cur, sideChain, stakeVars, collectVars, storeVars, panicked>>
        /\ \A h \in 0..tipHeight : On(h)' = On(h)
        /\ \A m \in Monitor : /\ Pending(m)' <=> Pending(m)
                              /\ Pending(m) => Target(m)' = Target(m)
    BY <1>1, <1>2, <1>8
  <2>2. QED
    BY <1>6, <2>1, Unmoved
<1>10. Pipeline'
  <2>1. ASSUME NEW i \in 1..Len(inFlight')
        PROVE  inFlight'[i].hash = On(tipHeight - Len(inFlight) + i)'
    <3>1. i + 1 \in 1..Len(inFlight) /\ i + 1 # 1 /\ inFlight'[i] = inFlight[i + 1]
      BY <1>2, <1>3
    <3>2. inFlight[i + 1].hash = On(tipHeight - Len(inFlight) + (i + 1))
      BY <1>f, <3>1 DEF Pipeline
    <3>3. tipHeight' - Len(inFlight') + i = tipHeight - Len(inFlight) + (i + 1)
      BY <1>2, <1>3
    <3>4. QED
      BY <1>2, <3>1, <3>2, <3>3
  <2>2. QED
    BY <1>f, <1>1, <1>2, <1>4, <1>6, <2>1 DEF Pipeline
<1>11. Announcement'
  BY <1>f, <1>1, <1>5, <1>8 DEF Announcement
<1>12. History(a, t)'
  <2>1. PICK lo \in Nat : lo = IF Pending("wired") THEN t ELSE Done("wired")
    BY <1>f, DoneBounds, HeightsAreNat DEF Monitor
  <2>2. lo = IF Pending("wired")' THEN t ELSE Done("wired")'
    BY <1>1, <1>6, <1>8, <2>1 DEF Done, Waiting, Monitor
  <2>3. Pending("wired")' => Pending("wired")
    BY <1>8 DEF Monitor
  <2>4. QED
    BY <1>f, <1>1, <2>1, <2>2, <2>3, HistoryKept
<1>13. QED
  BY <1>6, <1>8, <1>9, <1>10, <1>11, <1>12 DEF Following

\* A monitor hears of the reorganization while it has none in progress.
LEMMA HandlerStep ==
    ASSUME Followable, TypeOK, NEW a \in Blocks, NEW k \in Heights, NEW t \in Heights,
           Following(a, k, t), NEW o \in Monitor, ReorgHandler(o)
    PROVE  Following(a, k, t)' /\ taken' = taken /\ \A m \in Monitor : Pending(m)' <=> Pending(m)
<1>f. /\ Pipeline /\ Announcement /\ History(a, t)
  BY DEF Following
<1>1. /\ reorgChan[o] # <<>> /\ reorgChan' = [reorgChan EXCEPT ![o] = Tail(@)]
      /\ reorgChan \in [Monitor -> Seq(Blocks)]
      /\ reorganizing \in [Monitor -> BOOLEAN] /\ reorgData \in [Monitor -> Blocks]
      /\ UNCHANGED <<tips, inFlight, queue, pc, cur, sideChain,
                     stakeVars, collectVars, storeVars, panicked>>
  BY DEF ReorgHandler, TypeOK, workerVars, reorgVars, nodeVars
<1>2. /\ tipHeight' = tipHeight /\ \A h : On(h)' = On(h) /\ tipHeight \in Nat
      /\ flying' = flying /\ taken' = taken /\ (ReorgSent' <=> ReorgSent)
  BY <1>1, TipsKept, PlaceTypes DEF taken, flying, ReorgSent
<1>3. ~ReorgSent /\ ~reorganizing[o] /\ Len(reorgChan[o]) = 1 /\ Announced(o)
  <2>1. reorgChan[o] \in Seq(Blocks) /\ reorgChan[o] # <<>> /\ Len(reorgChan[o]) <= 1
    BY <1>f, <1>1 DEF Announcement
  <2>2. Len(reorgChan[o]) \in Nat /\ Len(reorgChan[o]) # 0
    BY <2>1, EmptySeq
  <2>3. Len(reorgChan[o]) = 1
    <3>1. \A l \in Nat : l # 0 /\ l <= 1 => l = 1
      OBVIOUS
    <3>2. QED
      BY <2>1, <2>2, <3>1
  <2>4. Announced(o)
    BY <2>1 DEF Announced
  <2>5. QED
    BY <1>f, <2>1, <2>3, <2>4 DEF Announcement
<1>4. /\ reorganizing' = [reorganizing EXCEPT ![o] = TRUE]
      /\ reorgData' = [reorgData EXCEPT ![o] = reorgChan[o][1]]
      /\ reorgChan'[o] = <<>>
  BY <1>1, <1>3 DEF ReorgHandler
<1>5. \A m \in Monitor : /\ Pending(m)' <=> Pending(m)
                         /\ Pending(m) => Target(m)' = Target(m)
                         /\ m # o => (Announced(m)' <=> Announced(m))
                         /\ m = o => ~Announced(m)'
  BY <1>1, <1>2, <1>3, <1>4 DEF Announced, Pending, Target
<1>6. /\ ~panicked' /\ pc' # "hung"
      /\ \A m \in Monitor : Phase(m, k, t)'
      /\ Forked(a, k, t)' /\ Turns(t)' /\ StakeAt(a, k)' /\ NoRowAbove(a)'
  <2>1. /\ tipHeight' \in Nat /\ tipHeight <= tipHeight'
        /\ UNCHANGED <<pc, cur, sideChain, stakeVars, collectVars, storeVars, panicked>>
        /\ \A h \in 0..tipHeight : On(h)' = On(h)
        /\ \A m \in Monitor : /\ Pending(m)' <=> Pending(m)
                              /\ Pending(m) => Target(m)' = Target(m)
    BY <1>1, <1>2, <1>5
  <2>2. QED
    BY <1>2, <2>1, Unmoved
<1>7. Pipeline'
  BY <1>f, <1>1, <1>2 DEF Pipeline
<1>8. Announcement'
  BY <1>f, <1>1, <1>2, <1>3, <1>4, <1>5, Len(<<>>) = 0 DEF Announcement
<1>9. History(a, t)'
  <2>1. PICK lo \in Nat : lo = IF Pending("wired") THEN t ELSE Done("wired")
    BY <1>f, DoneBounds, HeightsAreNat DEF Monitor
  <2>2. lo = IF Pending("wired")' THEN t ELSE Done("wired")'
    BY <1>1, <1>2, <1>5, <2>1 DEF Done, Waiting, Monitor
  <2>3. Pending("wired")' => Pending("wired")
    BY <1>5 DEF Monitor
  <2>4. QED
    BY <1>f, <1>1, <2>1, <2>2, <2>3, HistoryKept
<1>10. QED
  BY <1>2, <1>5, <1>6, <1>7, <1>8, <1>9 DEF Following

-----------------------------------------------------------------------------
(***************************************************************************)
(* ProcessBlocks.                                                          *)
(***************************************************************************)

\* It takes the next block of the chain.
LEMMA DequeueStep ==
    ASSUME TypeOK, NEW a \in Blocks, NEW k \in Heights, NEW t \in Heights,
           Following(a, k, t), Dequeue
    PROVE  /\ Following(a, k, t)' /\ taken' = taken + 1
           /\ \A m \in Monitor : Pending(m)' <=> Pending(m)
<1>f. /\ ~panicked /\ Pipeline /\ Announcement /\ (\A m \in Monitor : Phase(m, k, t))
      /\ Forked(a, k, t) /\ Turns(t) /\ StakeAt(a, k) /\ NoRowAbove(a) /\ History(a, t)
  BY DEF Following
<1>1. /\ pc = "idle" /\ queue # <<>> /\ queue \in Seq(Blocks)
      /\ cur' = Head(queue) /\ queue' = Tail(queue) /\ pc' = "stakedb"
      /\ UNCHANGED <<tips, inFlight, reorgChan, reorganizing, reorgData, sideChain,
                     bestNode, nodeMtxHeld, poolInfo, reorg, collected, summary, panicked>>
  BY DEF Dequeue, TypeOK, nodeVars, reorgVars, stakeVars, collectVars, storeVars
<1>2. /\ tipHeight' = tipHeight /\ \A h : On(h)' = On(h) /\ tipHeight \in Nat
      /\ flying' = flying /\ flying \in Nat /\ (ReorgSent' <=> ReorgSent)
      /\ taken \in Nat /\ Len(queue) \in Nat /\ Len(inFlight) \in Nat
  BY <1>f, <1>1, TipsKept, PlaceTypes, DoneBounds DEF flying, ReorgSent
<1>3. /\ Len(queue) > 0 /\ Head(queue) = queue[1] /\ Len(queue') = Len(queue) - 1
      /\ \A i \in 1..(Len(queue) - 1) : queue'[i] = queue[i + 1]
  BY <1>1
<1>4. taken' = taken + 1
  BY <1>2, <1>3, PlaceTypes DEF taken
<1>5. \A m \in Monitor : /\ ~Announced(m) /\ ~Announced(m)'
                         /\ Pending(m)' <=> Pending(m)
                         /\ Target(m)' = Target(m)
                         /\ Done(m) = taken /\ Done(m)' = taken
  <2>1. \A m \in Monitor : /\ ~Announced(m) /\ ~Announced(m)'
                           /\ Pending(m)' <=> Pending(m)
                           /\ Target(m)' = Target(m)
    BY <1>f, <1>1, <1>2 DEF Announcement, Announced, Pending, Target
  <2>2. \A m \in Monitor : ~Waiting(m) /\ Waiting(m)'
    BY <1>1 DEF Waiting, Monitor
  <2>3. QED
    BY <1>2, <1>4, <2>1, <2>2 DEF Done
<1>6. Pipeline'
  <2>1. \A i \in 1..Len(queue') : queue'[i] = On(taken + i)'
    <3>1. ASSUME NEW i \in 1..Len(queue') PROVE queue'[i] = On(taken + i)'
      <4>1. i + 1 \in 1..Len(queue) /\ queue'[i] = queue[i + 1]
        BY <1>2, <1>3
      <4>2. queue[i + 1] = On(taken + (i + 1)) /\ taken' + i = taken + (i + 1)
        BY <1>f, <1>2, <1>4, <4>1 DEF Pipeline
      <4>3. QED
        BY <1>2, <4>1, <4>2
    <3>2. QED
      BY <3>1
  <2>2. cur' = On(taken)' /\ taken' > 0
    <3>1. queue[1] = On(taken + 1)
      BY <1>f, <1>2, <1>3 DEF Pipeline
    <3>2. QED
      BY <1>1, <1>2, <1>3, <1>4, <3>1
  <2>3. QED
    BY <1>f, <1>1, <1>2, <1>4, <2>1, <2>2 DEF Pipeline
<1>7. Announcement'
  BY <1>f, <1>1, <1>2, <1>5 DEF Announcement
<1>8. \A m \in Monitor : Phase(m, k, t)'
  BY <1>f, <1>1, <1>2, <1>5 DEF Phase, InReorg
<1>9. Forked(a, k, t)'
  BY <1>f, <1>2, <1>5 DEF Forked, Monitor
<1>10. ~(Pending("wired") /\ ~Pending("stakedb"))
  BY <1>f, <1>1 DEF Turns
<1>11. Turns(t)'
  BY <1>f, <1>1, <1>5, <1>10 DEF Turns, Collecting, Monitor
<1>12. StakeAt(a, k)'
  BY <1>f, <1>1, <1>2, <1>5, <1>10 DEF StakeAt, Monitor
<1>13. NoRowAbove(a)'
  BY <1>f, <1>1, <1>2, <1>5 DEF NoRowAbove, Collecting, Monitor
<1>14. History(a, t)'
  <2>1. PICK lo \in Nat : lo = IF Pending("wired") THEN t ELSE Done("wired")
    BY <1>f, DoneBounds, HeightsAreNat DEF Monitor
  <2>2. lo = IF Pending("wired")' THEN t ELSE Done("wired")'
    BY <1>5, <2>1 DEF Monitor
  <2>3. Pending("wired")' => Pending("wired")
    BY <1>5 DEF Monitor
  <2>4. QED
    BY <1>f, <1>1, <2>1, <2>2, <2>3, HistoryKept
<1>15. QED
  BY <1>f, <1>1, <1>4, <1>5, <1>6, <1>7, <1>8, <1>9, <1>11, <1>12, <1>13, <1>14
  DEF Following

\* While a block is handled nothing is announced, and it is the last taken of the chain.
LEMMA Handling ==
    ASSUME TypeOK, NEW a \in Blocks, NEW k \in Heights, NEW t \in Heights,
           Following(a, k, t), pc # "idle"
    PROVE  /\ k \in Nat /\ t \in Nat /\ Height(a) \in Nat
           /\ tipHeight \in Nat /\ taken \in Nat /\ 0 < taken /\ taken <= tipHeight
           /\ cur = On(taken) /\ Height(cur) = taken /\ cur \in Blocks
           /\ ~ReorgSent
           /\ \A m \in Monitor :
                /\ ~Announced(m)
                /\ Pending(m) <=> reorganizing[m]
                /\ Target(m) = reorgData[m]
                /\ Done(m) = (IF Waiting(m) THEN taken - 1 ELSE taken)
<1>f. Pipeline /\ Announcement
  BY DEF Following
<1>1. tipHeight \in Nat
  BY PlaceTypes
<1>2. taken \in Nat /\ 0 < taken /\ taken <= tipHeight /\ cur = On(taken)
  BY <1>f, DoneBounds DEF Pipeline
<1>3. cur \in Blocks /\ Height(cur) = taken
  BY <1>1, <1>2, MainChain
<1>4. ASSUME NEW m \in Monitor
      PROVE  /\ ~Announced(m) /\ ~ReorgSent
             /\ Pending(m) <=> reorganizing[m]
             /\ Target(m) = reorgData[m]
  <2>1. ~Announced(m) /\ ~ReorgSent /\ reorgChan[m] = <<>>
    BY <1>f DEF Announcement, Announced
  <2>2. QED
    BY <2>1 DEF Pending, Target
<1>5. ~ReorgSent
  BY <1>4 DEF Monitor
<1>6. k \in Nat /\ t \in Nat /\ Height(a) \in Nat
  BY HeightsAreNat, HeightOfBlock
<1>7. QED
  BY <1>1, <1>2, <1>3, <1>4, <1>5, <1>6 DEF Done

\* And what a step of its handling leaves.
LEMMA HandlingKept ==
    ASSUME TypeOK, NEW a \in Blocks, NEW k \in Heights, NEW t \in Heights,
           Following(a, k, t), pc # "idle",
           UNCHANGED <<tips, inFlight, queue, cur, reorgChan>>
    PROVE  /\ tipHeight' = tipHeight /\ taken' = taken /\ \A h : On(h)' = On(h)
           /\ \A m \in Monitor :
                /\ Pending(m)' <=> reorganizing'[m]
                /\ Target(m)' = reorgData'[m]
                /\ Done(m)' = (IF Waiting(m)' THEN taken - 1 ELSE taken)
           /\ Pipeline' /\ Announcement'
<1>f. Pipeline /\ Announcement
  BY DEF Following
<1>1. /\ tipHeight' = tipHeight /\ \A h : On(h)' = On(h)
      /\ flying' = flying /\ taken' = taken /\ (ReorgSent' <=> ReorgSent)
  BY TipsKept DEF taken, flying, ReorgSent
<1>2. ~ReorgSent /\ taken > 0 /\ cur = On(taken) /\ \A m \in Monitor : ~Announced(m)
  BY Handling
<1>3. \A m \in Monitor : ~Announced(m)' /\ reorgChan[m] = <<>>
  BY <1>1, <1>2 DEF Announced
<1>4. \A m \in Monitor : (Pending(m)' <=> reorganizing'[m]) /\ Target(m)' = reorgData'[m]
  BY <1>1, <1>2, <1>3 DEF Pending, Target
<1>5. Pipeline'
  BY <1>f, <1>1, <1>2 DEF Pipeline
<1>6. Announcement'
  BY <1>f, <1>1, <1>2, <1>3 DEF Announcement
<1>7. QED
  BY <1>1, <1>4, <1>5, <1>6 DEF Done

\* What the handler of monitor o does with a block, as far as the reorganizations go:
\* each monitor has then handled, or put aside, what it should.
LEMMA Handled ==
    ASSUME TypeOK, NEW a \in Blocks, NEW k \in Heights, NEW t \in Heights,
           Following(a, k, t), pc # "idle",
           UNCHANGED <<tips, inFlight, queue, cur, reorgChan>>,
           NEW o \in Monitor, Waiting(o), ~Waiting(o)',
           \A m \in Monitor \ {o} : Waiting(m)' <=> Waiting(m),
           \/ JoinSideChain(o)
           \/ ReachesNewHead(o) /\ EndReorg(o)
           \/ ~reorganizing[o] /\ UNCHANGED reorgVars
    PROVE  /\ \A m \in Monitor : Phase(m, k, t)'
           /\ \A m \in Monitor \ {o} : (Pending(m)' <=> Pending(m)) /\ Done(m)' = Done(m)
           /\ Done(o) = taken - 1 /\ Done(o)' = taken
           /\ Pending(o)' => Pending(o) /\ taken < t /\ JoinsSideChain(o)
           /\ Pending(o) /\ ~Pending(o)' => taken = t
<1>f. /\ Pipeline /\ Announcement /\ (\A m \in Monitor : Phase(m, k, t))
  BY DEF Following
<1>1. /\ tipHeight' = tipHeight /\ taken' = taken /\ \A h : On(h)' = On(h)
      /\ k \in Nat /\ t \in Nat
      /\ tipHeight \in Nat /\ taken \in Nat /\ 0 < taken /\ taken <= tipHeight
      /\ cur = On(taken) /\ Height(cur) = taken /\ cur \in Blocks
  BY Handling, HandlingKept
<1>2. \A m \in Monitor :
         /\ (Pending(m) <=> reorganizing[m]) /\ (Pending(m)' <=> reorganizing'[m])
         /\ Target(m) = reorgData[m] /\ Target(m)' = reorgData'[m]
         /\ Done(m) = (IF Waiting(m) THEN taken - 1 ELSE taken)
         /\ Done(m)' = (IF Waiting(m)' THEN taken - 1 ELSE taken)
  BY Handling, HandlingKept
<1>3. /\ sideChain \in [Monitor -> Seq(Blocks)] /\ reorganizing \in [Monitor -> BOOLEAN]
      /\ reorgData \in [Monitor -> Blocks]
  BY DEF TypeOK
<1>4. Done(o) = taken - 1 /\ Done(o)' = taken
  BY <1>1, <1>2
<1>5. ASSUME NEW m \in Monitor \ {o}
      PROVE  /\ (Pending(m)' <=> Pending(m)) /\ Done(m)' = Done(m) /\ Target(m)' = Target(m)
             /\ sideChain'[m] = sideChain[m]
  <2>1. /\ reorganizing'[m] = reorganizing[m] /\ reorgData'[m] = reorgData[m]
        /\ sideChain'[m] = sideChain[m]
    BY <1>3 DEF JoinSideChain, EndReorg, reorgVars
  <2>2. QED
    BY <1>2, <2>1
<1>6. ASSUME NEW m \in Monitor \ {o} PROVE Phase(m, k, t)'
  BY <1>f, <1>1, <1>5 DEF Phase, InReorg
<1>7. Pending(o) => /\ reorgData[o] = On(t) /\ taken <= t /\ t <= tipHeight
                    /\ Len(sideChain[o]) = taken - 1 - k
                    /\ \A i \in 1..Len(sideChain[o]) : sideChain[o][i] = On(k + i)
  <2>1. Pending(o) => InReorg(o, k, t)
    BY <1>f DEF Phase
  <2>2. Target(o) = reorgData[o]
    BY <1>2
  <2>3. Pending(o) => /\ reorgData[o] = On(t) /\ taken - 1 < t /\ t <= tipHeight
                      /\ Len(sideChain[o]) = taken - 1 - k
                      /\ \A i \in 1..Len(sideChain[o]) : sideChain[o][i] = On(k + i)
    BY <1>4, <2>1, <2>2 DEF InReorg
  <2>4. QED
    BY <1>1, <2>3
<1>8. Pending(o) => (cur = reorgData[o] <=> taken = t)
  <2>1. Pending(o) => Height(On(t)) = t
    BY <1>1, <1>7, MainChain
  <2>2. QED
    BY <1>1, <1>7, <2>1
<1>9. /\ Phase(o, k, t)'
      /\ Pending(o)' => Pending(o) /\ taken < t /\ JoinsSideChain(o)
      /\ Pending(o) /\ ~Pending(o)' => taken = t
  <2>1. CASE JoinSideChain(o)
    <3>1. /\ Pending(o) /\ taken < t /\ sideChain'[o] = Append(sideChain[o], cur)
          /\ Pending(o)' /\ Target(o)' = Target(o)
      BY <1>1, <1>2, <1>3, <1>7, <1>8, <2>1 DEF JoinSideChain, JoinsSideChain
    <3>2. /\ Len(sideChain'[o]) = Len(sideChain[o]) + 1
          /\ sideChain'[o][Len(sideChain[o]) + 1] = cur
          /\ \A i \in 1..Len(sideChain[o]) : sideChain'[o][i] = sideChain[o][i]
          /\ Len(sideChain[o]) \in Nat
      BY <1>3, <3>1
    <3>3. ASSUME NEW i \in 1..Len(sideChain'[o]) PROVE sideChain'[o][i] = On(k + i)
      <4>1. CASE i = Len(sideChain[o]) + 1
        <5>1. k + i = taken
          BY <1>1, <1>7, <3>1, <4>1
        <5>2. QED
          BY <1>1, <3>2, <4>1, <5>1
      <4>2. CASE i \in 1..Len(sideChain[o])
        BY <1>7, <3>1, <3>2, <4>2
      <4>3. QED
        BY <3>2, <4>1, <4>2
    <3>4. Len(sideChain'[o]) = Done(o)' - k /\ k <= Done(o)' /\ Done(o)' < t
      BY <1>1, <1>4, <1>7, <3>1, <3>2
    <3>5. Target(o)' = On(t)' /\ t <= tipHeight' /\ \A h : On(h)' = On(h)
      BY <1>1, <1>2, <1>7, <3>1
    <3>6. InReorg(o, k, t)'
      BY <3>3, <3>4, <3>5 DEF InReorg
    <3>7. QED
      BY <2>1, <3>1, <3>6 DEF Phase, JoinSideChain
  <2>2. CASE ReachesNewHead(o) /\ EndReorg(o)
    <3>1. Pending(o) /\ ~Pending(o)' /\ taken = t /\ sideChain'[o] = <<>>
      BY <1>2, <1>3, <1>8, <2>2 DEF ReachesNewHead, EndReorg
    <3>2. QED
      BY <3>1 DEF Phase
  <2>3. CASE ~reorganizing[o] /\ UNCHANGED reorgVars
    BY <1>f, <1>2, <2>3 DEF Phase, reorgVars
  <2>4. QED
    BY <2>1, <2>2, <2>3
<1>10. QED
  BY <1>4, <1>5, <1>6, <1>9

\* When a monitor comes to the new head it has all of the new chain above the fork.
LEMMA WholeSideChain ==
    ASSUME TypeOK, NEW a \in Blocks, NEW k \in Heights, NEW t \in Heights,
           Following(a, k, t), pc # "idle",
           NEW o \in Monitor, Waiting(o), ReachesNewHead(o)
    PROVE  /\ Pending(o) /\ taken = t /\ k < t /\ reorgData[o] = On(t)
           /\ FullSideChain(o) \in Seq(Blocks) /\ Len(FullSideChain(o)) = t - k
           /\ \A i \in 1..(t - k) : /\ FullSideChain(o)[i] = On(k + i)
                                    /\ k + i \in 1..tipHeight
<1>1. /\ k \in Nat /\ t \in Nat
      /\ tipHeight \in Nat /\ taken \in Nat /\ 0 < taken /\ taken <= tipHeight
      /\ cur = On(taken) /\ Height(cur) = taken /\ cur \in Blocks
  BY Handling
<1>2. /\ Pending(o) /\ Target(o) = reorgData[o] /\ Done(o) = taken - 1
      /\ cur = reorgData[o]
  BY Handling DEF ReachesNewHead
<1>3. InReorg(o, k, t)
  BY <1>2 DEF Following, Phase
<1>4. reorgData[o] = On(t) /\ k <= taken - 1 /\ t <= tipHeight
      /\ Len(sideChain[o]) = taken - 1 - k
      /\ \A i \in 1..Len(sideChain[o]) : sideChain[o][i] = On(k + i)
  BY <1>2, <1>3 DEF InReorg
<1>5. taken = t
  <2>1. Height(On(t)) = t
    BY <1>1, <1>4, MainChain
  <2>2. QED
    BY <1>1, <1>2, <1>4, <2>1
<1>6. /\ FullSideChain(o) \in Seq(Blocks)
      /\ Len(FullSideChain(o)) = Len(sideChain[o]) + 1
      /\ FullSideChain(o)[Len(sideChain[o]) + 1] = cur
      /\ \A i \in 1..Len(sideChain[o]) : FullSideChain(o)[i] = sideChain[o][i]
  <2>1. sideChain[o] \in Seq(Blocks)
    BY DEF TypeOK
  <2>2. QED
    BY <1>1, <2>1 DEF FullSideChain
<1>7. ASSUME NEW i \in 1..(t - k)
      PROVE  FullSideChain(o)[i] = On(k + i) /\ k + i \in 1..tipHeight
  <2>1. k + i \in 1..tipHeight
    BY <1>1, <1>5
  <2>2. CASE i = Len(sideChain[o]) + 1
    <3>1. k + i = taken
      BY <1>1, <1>4, <2>2
    <3>2. QED
      BY <1>1, <1>6, <2>1, <2>2, <3>1
  <2>3. CASE i # Len(sideChain[o]) + 1
    <3>1. i \in 1..Len(sideChain[o])
      BY <1>1, <1>4, <1>5, <2>3
    <3>2. QED
      BY <1>4, <1>6, <2>1, <3>1
  <2>4. QED
    BY <2>2, <2>3
<1>8. QED
  BY <1>1, <1>2, <1>4, <1>5, <1>6, <1>7

\* The stake node, at the old best block, takes the side chain from the fork on.
LEMMA SideChainFits ==
    ASSUME TypeOK, NEW a \in Blocks, NEW k \in Heights, NEW t \in Heights,
           Following(a, k, t), pc = "stakedb",
           ReachesNewHead("stakedb")
    PROVE  /\ ~ForksAbove(FullSideChain("stakedb"))
           /\ \A i \in 1..Len(FullSideChain("stakedb")) : Fits(FullSideChain("stakedb"), i)
<1>s. PICK s : s = FullSideChain("stakedb")
  OBVIOUS
<1>1. "stakedb" \in Monitor /\ Waiting("stakedb") /\ pc # "idle"
  BY DEF Monitor, Waiting
<1>2. /\ Pending("stakedb") /\ taken = t /\ k < t
      /\ Len(s) = t - k
      /\ \A i \in 1..(t - k) : s[i] = On(k + i) /\ k + i \in 1..tipHeight
  BY <1>s, <1>1, WholeSideChain
<1>3. k \in Nat /\ t \in Nat /\ tipHeight \in Nat /\ Height(a) \in Nat
  BY <1>1, Handling
<1>4. bestNode = a /\ k < Height(a) /\ Ancestor(a, k) = On(k)
  BY <1>2 DEF Following, StakeAt, Turns, Forked
<1>5. \A i \in 1..(t - k) : Height(s[i]) = k + i /\ Parent(s[i]) = On(k + i - 1)
  <2>1. ASSUME NEW i \in 1..(t - k)
        PROVE  Height(s[i]) = k + i /\ Parent(s[i]) = On(k + i - 1)
    <3>1. PICK h \in 1..tipHeight : h = k + i
      BY <1>2
    <3>2. Height(On(h)) = h /\ Parent(On(h)) = On(h - 1)
      <4>1. h \in 0..tipHeight /\ h > 0
        BY <1>3
      <4>2. \A g \in 0..tipHeight : Height(On(g)) = g /\ (g > 0 => Parent(On(g)) = On(g - 1))
        BY MainChain
      <4>3. QED
        BY <4>1, <4>2
    <3>3. s[i] = On(h) /\ h - 1 = k + i - 1
      BY <1>2, <1>3, <3>1
    <3>4. QED
      BY <3>1, <3>2, <3>3
  <2>2. QED
    BY <2>1
<1>6. 1 \in 1..(t - k) /\ Height(s[1]) - 1 = k
  <2>1. 1 \in 1..(t - k)
    BY <1>2, <1>3
  <2>2. QED
    BY <1>3, <1>5, <2>1
<1>7. ~ForksAbove(s)
  BY <1>3, <1>4, <1>6 DEF ForksAbove
<1>8. ASSUME NEW i \in 1..Len(s) PROVE Fits(s, i)
  <2>0. i \in 1..(t - k)
    BY <1>2
  <2>1. CASE i = 1
    BY <1>3, <1>4, <1>5, <1>6, <2>1 DEF Fits, Below
  <2>2. CASE i # 1
    <3>1. i - 1 \in 1..(t - k) /\ k + (i - 1) = k + i - 1
      BY <1>3, <2>0, <2>2
    <3>2. s[i - 1] = On(k + i - 1)
      BY <1>2, <3>1
    <3>3. QED
      BY <1>5, <2>0, <2>2, <3>2 DEF Fits, Below
  <2>3. QED
    BY <2>1, <2>2
<1>9. QED
  BY <1>s, <1>7, <1>8

\* The stake database's monitor finds the stake node where the block belongs: no step of
\* its handler fails.
LEMMA StakeMoves ==
    ASSUME Followable, TypeOK, NEW a \in Blocks, NEW k \in Heights, NEW t \in Heights,
           Following(a, k, t), StakeDBBlock
    PROVE  /\ ~panicked' /\ pc = "stakedb" /\ pc' = "blockdata" /\ ~nodeMtxHeld'
           /\ \/ JoinSideChain("stakedb") /\ UNCHANGED <<bestNode, poolInfo>>
              \/ /\ ReachesNewHead("stakedb") /\ EndReorg("stakedb")
                 /\ bestNode' = cur
                 /\ \A h \in (k + 1)..taken : On(h) \in poolInfo'
              \/ /\ ~reorganizing["stakedb"] /\ UNCHANGED reorgVars
                 /\ bestNode' = cur
           /\ ~JoinSideChain("stakedb") => cur \in poolInfo'
<1>f. /\ Turns(t) /\ StakeAt(a, k)
  BY DEF Following
<1>1. /\ pc = "stakedb" /\ ~panicked /\ ~RpcMayFail /\ ~nodeMtxHeld
      /\ "stakedb" \in Monitor /\ Waiting("stakedb") /\ pc # "idle"
      /\ UNCHANGED <<tips, inFlight, queue, cur, reorgChan>>
  BY <1>f DEF StakeDBBlock, At, Followable, StakeAt, Monitor, Waiting, nodeVars
<1>2. /\ taken \in Nat /\ 0 < taken /\ taken <= tipHeight /\ tipHeight \in Nat
      /\ cur = On(taken) /\ Height(cur) = taken /\ k \in Nat /\ t \in Nat
      /\ Pending("stakedb") <=> reorganizing["stakedb"]
      /\ Done("stakedb") = taken - 1
  BY <1>1, Handling, HandlingKept
<1>3. CASE JoinSideChain("stakedb")
  <2>1. reorganizing["stakedb"] /\ cur # reorgData["stakedb"]
    BY <1>3 DEF JoinSideChain, JoinsSideChain
  <2>2. pc' = "blockdata" /\ UNCHANGED <<stakeVars, panicked>>
    BY <2>1 DEF StakeDBBlock, ReachesNewHead
  <2>3. QED
    BY <1>1, <1>3, <2>2 DEF stakeVars
<1>4. CASE ReachesNewHead("stakedb")
  <2>1. PICK s : s = FullSideChain("stakedb")
    OBVIOUS
  <2>2. ~ForksAbove(s) /\ \A i \in 1..Len(s) : Fits(s, i)
    BY <1>1, <1>4, <2>1, SideChainFits
  <2>3. reorganizing["stakedb"] /\ cur = reorgData["stakedb"]
    BY <1>4 DEF ReachesNewHead
  <2>4. SwitchStakeDB(s)
    BY <2>1, <2>3 DEF StakeDBBlock, JoinSideChain, JoinsSideChain
  <2>5. \A i \in 1..Len(s) : ~BreaksAt(s, i)
    BY <2>2 DEF BreaksAt
  <2>6. /\ bestNode' = cur /\ poolInfo' = poolInfo \union {s[i] : i \in 1..Len(s)}
        /\ EndReorg("stakedb") /\ pc' = "blockdata" /\ UNCHANGED <<nodeMtxHeld, panicked>>
    BY <1>1, <2>2, <2>4, <2>5 DEF SwitchStakeDB
  <2>7. /\ taken = t /\ k < t /\ Len(s) = t - k
        /\ \A i \in 1..(t - k) : s[i] = On(k + i)
    BY <1>1, <1>4, <2>1, WholeSideChain
  <2>8. ASSUME NEW h \in (k + 1)..taken PROVE On(h) \in poolInfo'
    <3>1. PICK i \in 1..(t - k) : i = h - k
      BY <1>2, <2>7
    <3>2. k + i = h
      BY <1>2, <3>1
    <3>3. QED
      BY <2>6, <2>7, <3>2
  <2>9. cur \in poolInfo'
    <3>1. taken \in (k + 1)..taken
      BY <1>2, <2>7
    <3>2. QED
      BY <1>2, <2>8, <3>1
  <2>10. QED
    BY <1>1, <1>4, <2>3, <2>6, <2>8, <2>9
<1>5. CASE ~reorganizing["stakedb"]
  <2>1. bestNode = On(taken - 1)
    BY <1>f, <1>2, <1>5 DEF StakeAt
  <2>2. taken - 1 \in 0..tipHeight /\ taken \in 0..tipHeight
    BY <1>2
  <2>3. Height(On(taken - 1)) = taken - 1 /\ Parent(On(taken)) = On(taken - 1)
    BY <1>2, <2>2, MainChain
  <2>4. ~Refused(cur) /\ Parent(cur) = bestNode
    BY <1>2, <2>1, <2>3 DEF Refused
  <2>5. ConnectBlock /\ UNCHANGED reorgVars
    BY <1>5 DEF StakeDBBlock, JoinSideChain, JoinsSideChain, ReachesNewHead
  <2>6. /\ bestNode' = cur /\ poolInfo' = poolInfo \union {cur}
        /\ pc' = "blockdata" /\ UNCHANGED <<nodeMtxHeld, panicked>>
    BY <1>1, <2>4, <2>5 DEF ConnectBlock
  <2>7. QED
    BY <1>1, <1>5, <2>5, <2>6
<1>6. QED
  BY <1>3, <1>4, <1>5 DEF StakeDBBlock, ReachesNewHead

\* The stake database's monitor handles a block.
LEMMA StakeStep ==
    ASSUME Followable, TypeOK, NEW a \in Blocks, NEW k \in Heights, NEW t \in Heights,
           Following(a, k, t), StakeDBBlock
    PROVE  Following(a, k, t)' /\ taken' = taken
           /\ pc = "stakedb" /\ pc' = "blockdata"
           /\ \A m \in {"blockdata", "wired"} : Pending(m)' <=> Pending(m)
<1>f. /\ Forked(a, k, t) /\ Turns(t) /\ StakeAt(a, k) /\ NoRowAbove(a) /\ History(a, t)
  BY DEF Following
<1>1. /\ pc = "stakedb" /\ pc # "idle" /\ pc' = "blockdata" /\ ~panicked' /\ ~nodeMtxHeld'
      /\ "stakedb" \in Monitor /\ Waiting("stakedb") /\ ~Waiting("stakedb")'
      /\ \A m \in Monitor \ {"stakedb"} : Waiting(m)' <=> Waiting(m)
      /\ UNCHANGED <<tips, inFlight, queue, cur, reorgChan, reorg, collected, summary>>
  BY StakeMoves DEF StakeDBBlock, Monitor, Waiting, nodeVars, collectVars, storeVars
<1>2. \/ JoinSideChain("stakedb")
      \/ ReachesNewHead("stakedb") /\ EndReorg("stakedb")
      \/ ~reorganizing["stakedb"] /\ UNCHANGED reorgVars
  BY StakeMoves
<1>3. /\ tipHeight' = tipHeight /\ taken' = taken /\ \A h : On(h)' = On(h)
      /\ k \in Nat /\ t \in Nat /\ taken \in Nat
      /\ cur = On(taken) /\ Height(cur) = taken /\ Pipeline' /\ Announcement'
  BY <1>1, Handling, HandlingKept
<1>4. \A m \in Monitor : Pending(m) <=> reorganizing[m]
  BY <1>1, Handling, HandlingKept
<1>5. /\ \A m \in Monitor : Phase(m, k, t)'
      /\ \A m \in Monitor \ {"stakedb"} : (Pending(m)' <=> Pending(m)) /\ Done(m)' = Done(m)
      /\ Done("stakedb")' = taken
      /\ Pending("stakedb")' => Pending("stakedb") /\ JoinsSideChain("stakedb")
      /\ Pending("stakedb") /\ ~Pending("stakedb")' => taken = t
  BY <1>1, <1>2, Handled
<1>6. /\ (Pending("wired")' <=> Pending("wired")) /\ (Pending("blockdata")' <=> Pending("blockdata"))
      /\ Done("wired")' = Done("wired")
  BY <1>5 DEF Monitor
<1>7. Pending("wired") => Pending("stakedb") /\ Pending("blockdata")
  BY <1>f, <1>1 DEF Turns
<1>8. Forked(a, k, t)'
  BY <1>f, <1>3, <1>6 DEF Forked
<1>9. Turns(t)'
  BY <1>f, <1>1, <1>3, <1>5, <1>6, <1>7 DEF Turns, Collecting
<1>10. StakeAt(a, k)'
  <2>1. CASE JoinSideChain("stakedb")
    <3>1. Pending("stakedb") /\ Pending("stakedb")' /\ UNCHANGED <<bestNode, poolInfo>>
      <4>1. reorganizing["stakedb"] /\ reorganizing' = reorganizing /\ ~ReachesNewHead("stakedb")
        BY <2>1 DEF JoinSideChain, JoinsSideChain, ReachesNewHead
      <4>2. Pending("stakedb")' <=> reorganizing'["stakedb"]
        BY <1>1, Handling, HandlingKept
      <4>3. QED
        BY <1>1, <1>4, <4>1, <4>2, StakeMoves
    <3>2. QED
      BY <1>f, <1>1, <3>1 DEF StakeAt
  <2>2. CASE ~JoinSideChain("stakedb")
    <3>1. ~Pending("stakedb")'
      <4>1. ~reorganizing'["stakedb"]
        BY <1>2, <2>2 DEF EndReorg, reorgVars, TypeOK, Monitor
      <4>2. Pending("stakedb")' <=> reorganizing'["stakedb"]
        BY <1>1, Handling, HandlingKept
      <4>3. QED
        BY <4>1, <4>2
    <3>2. bestNode' = cur /\ cur' \in poolInfo'
      BY <1>1, <2>2, StakeMoves
    <3>3. Pending("wired")' => \A h \in (k + 1)..taken' : On(h)' \in poolInfo'
      <4>1. Pending("wired") => ReachesNewHead("stakedb")
        BY <1>1, <1>2, <1>4, <1>7, <2>2
      <4>2. ReachesNewHead("stakedb") => \A h \in (k + 1)..taken : On(h) \in poolInfo'
        BY <1>4, <2>2, StakeMoves DEF ReachesNewHead
      <4>3. QED
        BY <1>3, <1>6, <4>1, <4>2
    <3>4. QED
      BY <1>1, <1>3, <1>5, <3>1, <3>2, <3>3 DEF StakeAt
  <2>3. QED
    BY <2>1, <2>2
<1>11. NoRowAbove(a)'
  BY <1>f, <1>1, <1>3, <1>6 DEF NoRowAbove, Collecting
<1>12. History(a, t)'
  <2>1. PICK lo \in Nat : lo = IF Pending("wired") THEN t ELSE Done("wired")
    BY DoneBounds, HeightsAreNat DEF Monitor, Following
  <2>2. lo = IF Pending("wired")' THEN t ELSE Done("wired")'
    BY <1>6, <2>1
  <2>3. Pending("wired")' => Pending("wired")
    BY <1>6
  <2>4. QED
    BY <1>f, <1>1, <2>1, <2>2, <2>3, HistoryKept
<1>13. QED
  BY <1>1, <1>3, <1>5, <1>6, <1>8, <1>9, <1>10, <1>11, <1>12 DEF Following

\* The block data monitor takes a block, or puts it aside.
LEMMA BlockDataStep ==
    ASSUME Followable, TypeOK, NEW a \in Blocks, NEW k \in Heights, NEW t \in Heights,
           Following(a, k, t), BlockDataBlock
    PROVE  /\ Following(a, k, t)' /\ taken' = taken
           /\ pc = "blockdata" /\ (Pending("wired")' <=> Pending("wired"))
           /\ (Pending("wired") <=> Pending("blockdata"))
           /\ IF Pending("blockdata")'
                THEN pc' = "wired" /\ Pending("blockdata")
                ELSE pc' = "count" /\ (Pending("blockdata") => taken = t)
<1>f. /\ Forked(a, k, t) /\ Turns(t) /\ StakeAt(a, k) /\ NoRowAbove(a) /\ History(a, t)
      /\ ~panicked
  BY DEF Following
<1>1. /\ pc = "blockdata" /\ pc # "idle" /\ pc' \in {"wired", "count"} /\ ~panicked'
      /\ "blockdata" \in Monitor /\ Waiting("blockdata") /\ ~Waiting("blockdata")'
      /\ \A m \in Monitor \ {"blockdata"} : Waiting(m)' <=> Waiting(m)
      /\ reorg' = reorganizing["blockdata"]
      /\ UNCHANGED <<tips, inFlight, queue, cur, reorgChan, bestNode, nodeMtxHeld, poolInfo,
                     collected, summary>>
  BY <1>f DEF BlockDataBlock, At, FetchNotified, Followable, Monitor, Waiting, nodeVars,
              stakeVars, storeVars
<1>2. \/ JoinSideChain("blockdata") /\ pc' = "wired"
      \/ ReachesNewHead("blockdata") /\ EndReorg("blockdata") /\ pc' = "count"
      \/ ~reorganizing["blockdata"] /\ UNCHANGED reorgVars /\ pc' = "count"
  BY <1>1 DEF BlockDataBlock, FetchNotified, Followable
<1>3. /\ tipHeight' = tipHeight /\ taken' = taken /\ \A h : On(h)' = On(h)
      /\ k \in Nat /\ t \in Nat /\ taken \in Nat /\ Pipeline' /\ Announcement'
  BY <1>1, Handling, HandlingKept
<1>4. /\ (Pending("blockdata") <=> reorganizing["blockdata"])
      /\ (Pending("blockdata")' <=> reorganizing'["blockdata"])
      /\ Done("stakedb") = taken
  <2>1. ~Waiting("stakedb")
    BY <1>1 DEF Waiting
  <2>2. QED
    BY <1>1, <2>1, Handling, HandlingKept DEF Monitor
<1>5. /\ \A m \in Monitor : Phase(m, k, t)'
      /\ \A m \in Monitor \ {"blockdata"} : (Pending(m)' <=> Pending(m)) /\ Done(m)' = Done(m)
      /\ Pending("blockdata")' => Pending("blockdata") /\ taken < t
      /\ Pending("blockdata") /\ ~Pending("blockdata")' => taken = t
  BY <1>1, <1>2, Handled
<1>6. /\ (Pending("wired")' <=> Pending("wired")) /\ (Pending("stakedb")' <=> Pending("stakedb"))
      /\ Done("wired")' = Done("wired") /\ Done("stakedb")' = Done("stakedb")
  BY <1>5 DEF Monitor
<1>7. /\ Pending("wired") <=> Pending("blockdata")
      /\ Pending("stakedb") => taken < t /\ Pending("blockdata")
      /\ Pending("wired") /\ ~Pending("stakedb") => taken = t
  <2>1. Pending("stakedb") => InReorg("stakedb", k, t)
    BY DEF Following, Phase, Monitor
  <2>2. QED
    BY <1>f, <1>1, <1>4, <2>1 DEF Turns, InReorg
<1>8. Forked(a, k, t)'
  BY <1>f, <1>3, <1>6 DEF Forked
<1>9. IF Pending("blockdata")'
        THEN pc' = "wired" /\ Pending("blockdata")
        ELSE pc' = "count" /\ (Pending("blockdata") => taken = t)
  <2>1. Pending("blockdata")' <=> JoinSideChain("blockdata")
    BY <1>2, <1>4 DEF JoinSideChain, JoinsSideChain, ReachesNewHead, EndReorg, reorgVars,
                      TypeOK, Monitor
  <2>2. JoinSideChain("blockdata") => pc' = "wired"
    BY <1>2 DEF JoinSideChain, JoinsSideChain, ReachesNewHead
  <2>3. QED
    BY <1>2, <1>5, <2>1, <2>2
<1>10. Turns(t)'
  <2>1. Pending("stakedb")' => Pending("blockdata")'
    BY <1>3, <1>5, <1>6, <1>7
  <2>2. Pending("wired")' /\ ~Pending("stakedb")' => taken = t
    BY <1>6, <1>7
  <2>3. Pending("wired")' /\ ~Pending("blockdata")' => taken = t /\ pc' = "count"
    BY <1>6, <1>7, <1>9
  <2>4. QED
    BY <1>1, <1>3, <1>5, <1>6, <1>7, <1>9, <2>1, <2>2, <2>3 DEF Turns, Collecting
<1>11. StakeAt(a, k)'
  BY <1>f, <1>1, <1>3, <1>6 DEF StakeAt
<1>12. NoRowAbove(a)'
  BY <1>f, <1>1, <1>3, <1>4, <1>6, <1>7 DEF NoRowAbove, Collecting
<1>13. History(a, t)'
  <2>1. PICK lo \in Nat : lo = IF Pending("wired") THEN t ELSE Done("wired")
    BY DoneBounds, HeightsAreNat DEF Monitor, Following
  <2>2. lo = IF Pending("wired")' THEN t ELSE Done("wired")'
    BY <1>6, <2>1
  <2>3. Pending("wired")' => Pending("wired")
    BY <1>6
  <2>4. QED
    BY <1>f, <1>1, <2>1, <2>2, <2>3, HistoryKept
<1>14. QED
  BY <1>1, <1>3, <1>5, <1>6, <1>7, <1>8, <1>9, <1>10, <1>11, <1>12, <1>13 DEF Following

\* The collection of a block's data touches no monitor and no reorganization.
LEMMA CollectionFrame ==
    ASSUME Followable, TypeOK, NEW a \in Blocks, NEW k \in Heights, NEW t \in Heights,
           Following(a, k, t), CollectHash \/ Collect \/ Store
    PROVE  /\ NoRowAbove(a)' => Following(a, k, t)'
           /\ Collecting /\ pc' \in {"collect", "store", "wired"}
           /\ tipHeight' = tipHeight /\ taken' = taken /\ \A h : On(h)' = On(h)
           /\ cur = On(taken) /\ Height(cur) = taken /\ taken <= tipHeight
           /\ taken \in Nat /\ tipHeight \in Nat /\ t \in Nat
           /\ \A m \in Monitor : (Pending(m)' <=> Pending(m)) /\ Done(m)' = Done(m)
           /\ UNCHANGED reorg
           /\ pc # "store" => /\ UNCHANGED summary /\ pc' # "wired"
                              /\ pc' = "store" => collected' \in {cur, nodeTip}
                              /\ pc' = "store" /\ pc = "count" => collected' = cur
                              /\ pc' = "store" /\ pc = "collect" => collected' = nodeTip
                              /\ pc' = "collect" => taken = tipHeight
           /\ pc = "store" => pc' = "wired"
<1>f. /\ Forked(a, k, t) /\ Turns(t) /\ StakeAt(a, k) /\ NoRowAbove(a) /\ History(a, t)
      /\ ~panicked /\ \A m \in Monitor : Phase(m, k, t)
  BY DEF Following
<1>1. /\ pc \in {"count", "collect", "store"} /\ pc # "idle"
      /\ UNCHANGED <<tips, inFlight, queue, cur, reorgChan, reorganizing, reorgData, sideChain,
                     bestNode, nodeMtxHeld, poolInfo, reorg, panicked>>
  BY DEF CollectHash, Collect, Store, At, nodeVars, reorgVars, stakeVars, collectVars
<1>2. /\ tipHeight' = tipHeight /\ taken' = taken /\ \A h : On(h)' = On(h)
      /\ cur = On(taken) /\ Height(cur) = taken /\ taken <= tipHeight /\ 0 < taken
      /\ taken \in Nat /\ tipHeight \in Nat /\ t \in Nat /\ k \in Nat
      /\ Pipeline' /\ Announcement'
  BY <1>1, Handling, HandlingKept
<1>3. ~nodeMtxHeld /\ ~RpcMayFail /\ \A b : CanCollect(b)
  BY <1>f DEF StakeAt, Followable, CanCollect
<1>4. /\ pc = "count" => /\ CollectHash /\ UNCHANGED summary
                         /\ \/ pc' = "collect" /\ Height(cur) = Height(nodeTip)
                            \/ pc' = "store" /\ collected' = cur
      /\ pc = "collect" => /\ Collect /\ UNCHANGED summary
                           /\ pc' = "store" /\ collected' = nodeTip
      /\ pc = "store" => Store /\ pc' = "wired"
  BY <1>3 DEF CollectHash, Collect, Store, At, CollectBlockInfo, GiveUp, storeVars
<1>5. pc' \in {"collect", "store", "wired"} /\ \A m \in Monitor : Waiting(m)' <=> Waiting(m)
  BY <1>1, <1>4 DEF Waiting, Monitor
<1>6. \A m \in Monitor : /\ (Pending(m)' <=> Pending(m)) /\ Done(m)' = Done(m)
                         /\ Target(m)' = Target(m)
  BY <1>1, <1>5, Handling, HandlingKept
<1>7. \A m \in Monitor : Phase(m, k, t)'
  BY <1>f, <1>1, <1>2, <1>6 DEF Phase, InReorg
<1>8. Forked(a, k, t)'
  BY <1>f, <1>2, <1>6 DEF Forked, Monitor
<1>9. Turns(t)'
  BY <1>f, <1>1, <1>2, <1>5, <1>6 DEF Turns, Collecting, Monitor
<1>10. StakeAt(a, k)'
  BY <1>f, <1>1, <1>2, <1>5, <1>6 DEF StakeAt, Monitor
<1>11. History(a, t)'
  <2>1. PICK lo \in Nat : lo = IF Pending("wired") THEN t ELSE Done("wired")
    BY DoneBounds, HeightsAreNat DEF Monitor, Following
  <2>2. lo = IF Pending("wired")' THEN t ELSE Done("wired")'
    BY <1>6, <2>1 DEF Monitor
  <2>3. Pending("wired")' => Pending("wired")
    BY <1>6 DEF Monitor
  <2>4. QED
    BY <1>f, <1>1, <2>1, <2>2, <2>3, HistoryKept
<1>12. NoRowAbove(a)' => Following(a, k, t)'
  BY <1>f, <1>1, <1>2, <1>5, <1>7, <1>8, <1>9, <1>10, <1>11 DEF Following
<1>13. QED
  BY <1>1, <1>2, <1>4, <1>5, <1>6, <1>12 DEF Collecting, tipHeight

\* The data of a block are collected, those of the node's best block or of the block itself.
LEMMA CollectStep ==
    ASSUME Followable, TypeOK, NEW a \in Blocks, NEW k \in Heights, NEW t \in Heights,
           Following(a, k, t), CollectHash \/ Collect
    PROVE  Following(a, k, t)'
<1>f. NoRowAbove(a)
  BY DEF Following
<1>1. /\ pc \in {"count", "collect"} /\ pc # "store" /\ Collecting
      /\ pc' \in {"collect", "store"} /\ UNCHANGED <<summary, reorg>>
      /\ Pending("wired")' <=> Pending("wired")
      /\ pc' = "store" => collected' \in {cur, nodeTip}
  BY CollectionFrame DEF CollectHash, Collect, At, Monitor
<1>2. /\ tipHeight' = tipHeight /\ Height(cur) = taken /\ taken <= tipHeight
      /\ tipHeight \in Nat
  BY CollectionFrame
<1>3. pc' = "store" => Height(collected') <= tipHeight
  <2>1. Height(cur) <= tipHeight /\ Height(nodeTip) <= tipHeight
    BY <1>2 DEF tipHeight
  <2>2. QED
    BY <1>1, <2>1
<1>4. NoRowAbove(a)'
  BY <1>f, <1>1, <1>2, <1>3 DEF NoRowAbove, Collecting
<1>5. QED
  BY <1>4, CollectionFrame

\* The savers get the data: SQLite a row, unless they are those of a new head.
LEMMA StoreStep ==
    ASSUME Followable, TypeOK, NEW a \in Blocks, NEW k \in Heights, NEW t \in Heights,
           Following(a, k, t), Store
    PROVE  Following(a, k, t)'
<1>f. NoRowAbove(a)
  BY DEF Following
<1>1. /\ pc = "store" /\ Collecting /\ pc' = "wired" /\ UNCHANGED reorg
      /\ (Pending("wired")' <=> Pending("wired"))
      /\ tipHeight' = tipHeight /\ tipHeight \in Nat
  BY CollectionFrame DEF Store, At, Monitor
<1>2. CASE reorg
  <2>1. summary' = summary
    BY <1>2 DEF Store
  <2>2. NoRowAbove(a)'
    BY <1>f, <1>1, <2>1 DEF NoRowAbove, Collecting
  <2>3. QED
    BY <2>2, CollectionFrame
<1>3. CASE ~reorg
  <2>1. ~Pending("wired") /\ Height(collected) <= tipHeight
    BY <1>f, <1>1, <1>3 DEF NoRowAbove
  <2>2. /\ summary \in [Heights -> [hash : Blocks, pool : Blocks] \union {NoRow}]
        /\ summary' = [summary EXCEPT ![Height(collected)] = Row(collected, PoolOf(collected))]
    BY <1>3 DEF Store, TypeOK
  <2>3. ASSUME NEW h \in Heights, summary'[h] # NoRow PROVE h <= tipHeight
    <3>1. CASE h = Height(collected)
      BY <2>1, <3>1
    <3>2. CASE h # Height(collected)
      BY <1>f, <2>1, <2>2, <2>3, <3>2 DEF NoRowAbove
    <3>3. QED
      BY <3>1, <3>2
  <2>4. NoRowAbove(a)'
    BY <1>1, <2>1, <2>3 DEF NoRowAbove, Collecting
  <2>5. QED
    BY <2>4, CollectionFrame
<1>4. QED
  BY <1>2, <1>3

\* A row is a row.
LEMMA RowThere ==
    ASSUME NEW b, NEW p
    PROVE  Row(b, p) # NoRow /\ Row(b, p).hash = b /\ Row(b, p).pool = p
<1>1. DOMAIN Row(b, p) = {"hash", "pool"} /\ DOMAIN NoRow = {"hash"}
  BY DEF Row, NoRow
<1>2. "pool" \in {"hash", "pool"} /\ "pool" \notin {"hash"}
  OBVIOUS
<1>3. QED
  BY <1>1, <1>2 DEF Row

\* The piece of the chain from after height k to height t, and the rows after its blocks
\* have been stored.
IsPiece(s, k, t) == Len(s) = t - k /\ \A i \in 1..(t - k) : s[i] = On(k + i)
HasPiece(rows, k, t) ==
    \A h \in Heights :
        rows[h] = IF h \in (k + 1)..t THEN Row(On(h), PoolOf(On(h))) ELSE summary[h]

\* The rows after the blocks of a piece of the chain have been stored in order.
LEMMA RewrittenRows ==
    ASSUME TypeOK, NEW k \in Nat, NEW t \in Nat, k < t, t <= tipHeight,
           NEW s, IsPiece(s, k, t)
    PROVE  HasPiece(Rewritten(s, 1..Len(s)), k, t)
<1>0. Len(s) = t - k /\ \A i \in 1..(t - k) : s[i] = On(k + i)
  BY DEF IsPiece
<1>1. tipHeight \in Nat /\ Heights \subseteq Nat
  BY PlaceTypes, HeightsAreNat
<1>2. \A i \in 1..(t - k) : Height(s[i]) = k + i
  <2>1. ASSUME NEW i \in 1..(t - k) PROVE Height(s[i]) = k + i
    <3>1. PICK h \in 0..tipHeight : h = k + i
      BY <1>1
    <3>2. Height(On(h)) = h
      BY MainChain
    <3>3. QED
      BY <1>0, <3>1, <3>2
  <2>2. QED
    BY <2>1
<1>3. ASSUME NEW h \in Heights
      PROVE  Rewritten(s, 1..Len(s))[h] = IF h \in (k + 1)..t THEN Row(On(h), PoolOf(On(h)))
                                                              ELSE summary[h]
  <2>1. CASE h \in (k + 1)..t
    <3>1. PICK j \in 1..(t - k) : k + j = h
      <4>1. h - k \in 1..(t - k) /\ k + (h - k) = h
        BY <1>1, <2>1
      <4>2. QED
        BY <4>1
    <3>2. \A i \in 1..(t - k) : Height(s[i]) = h <=> i = j
      BY <1>1, <1>2, <3>1
    <3>3. Height(s[j]) = h /\ s[j] = On(h)
      BY <1>0, <3>1, <3>2
    <3>4. (CHOOSE i \in 1..Len(s) : /\ Height(s[i]) = h
                                     /\ \A g \in 1..Len(s) : Height(s[g]) = h => g <= i) = j
      BY <1>0, <3>2
    <3>5. Rewritten(s, 1..Len(s))[h] = Row(s[j], PoolOf(s[j]))
      BY <1>0, <3>2, <3>3, <3>4 DEF Rewritten
    <3>6. QED
      BY <2>1, <3>3, <3>5
  <2>2. CASE h \notin (k + 1)..t
    <3>1. \A i \in 1..(t - k) : Height(s[i]) # h
      BY <1>1, <1>2, <2>2
    <3>2. Rewritten(s, 1..Len(s))[h] = summary[h]
      BY <1>0, <3>1 DEF Rewritten
    <3>3. QED
      BY <2>2, <3>2
  <2>3. QED
    BY <2>1, <2>2
<1>4. QED
  BY <1>3 DEF HasPiece

\* At the new head the SQLite monitor replaces the rows above the fork, and finds the new
\* head in the best row.
LEMMA WiredMoves ==
    ASSUME Followable, TypeOK, NEW a \in Blocks, NEW k \in Heights, NEW t \in Heights,
           Following(a, k, t), WiredBlock
    PROVE  /\ ~panicked' /\ pc = "wired" /\ pc' = "idle"
           /\ \/ JoinSideChain("wired") /\ UNCHANGED summary
              \/ /\ ReachesNewHead("wired") /\ EndReorg("wired")
                 /\ \A h \in Heights :
                       summary'[h] = IF h \in (k + 1)..t THEN Row(On(h), PoolOf(On(h)))
                                                         ELSE summary[h]
              \/ ~reorganizing["wired"] /\ UNCHANGED reorgVars /\ UNCHANGED summary
<1>f. /\ Forked(a, k, t) /\ StakeAt(a, k) /\ NoRowAbove(a) /\ ~panicked
  BY DEF Following
<1>1. /\ pc = "wired" /\ pc # "idle" /\ "wired" \in Monitor /\ Waiting("wired")
      /\ UNCHANGED <<tips, inFlight, queue, cur, reorgChan>>
  BY DEF WiredBlock, At, Monitor, Waiting, nodeVars
<1>2. CASE ~ReachesNewHead("wired")
  BY <1>f, <1>1, <1>2 DEF WiredBlock
<1>3. CASE ReachesNewHead("wired")
  <2>1. PICK s : s = FullSideChain("wired")
    OBVIOUS
  <2>2. SwitchWired(s)
    BY <1>3, <2>1 DEF WiredBlock, JoinSideChain, JoinsSideChain, ReachesNewHead
  <2>3. /\ Pending("wired") /\ taken = t /\ k < t /\ reorgData["wired"] = On(t)
        /\ Len(s) = t - k /\ \A i \in 1..(t - k) : s[i] = On(k + i)
    BY <1>1, <1>3, <2>1, WholeSideChain
  <2>4. /\ k \in Nat /\ t \in Nat /\ taken \in Nat /\ taken <= tipHeight /\ tipHeight \in Nat
        /\ Heights \subseteq Nat /\ Height(a) \in Nat
    BY <1>1, Handling, HandlingKept, HeightsAreNat
  <2>5. \A b : CanCollect(b)
    BY <1>f DEF StakeAt, CanCollect
  <2>6. PICK failed \in {{}} :
           LET reached == {i \in 1..Len(s) : \A j \in 1..i : j \in failed \/ CanCollect(s[j])}
           IN  /\ summary' = Rewritten(s, reached \ failed)
               /\ \/ /\ reached = 1..Len(s) /\ BestRow'.hash = reorgData["wired"]
                     /\ EndReorg("wired")
                     /\ pc' = "idle" /\ UNCHANGED panicked
                  \/ /\ reached = 1..Len(s) /\ BestRow'.hash # reorgData["wired"]
                     /\ panicked' = TRUE
                     /\ UNCHANGED <<pc, reorgVars>>
                  \/ /\ reached # 1..Len(s)
                     /\ pc' = "hung" /\ UNCHANGED <<reorgVars, panicked>>
    BY <2>2 DEF SwitchWired, Followable
  <2>7. {i \in 1..Len(s) : \A j \in 1..i : j \in failed \/ CanCollect(s[j])} = 1..Len(s)
    BY <2>5
  <2>8. /\ summary' = Rewritten(s, 1..Len(s))
        /\ BestRow'.hash = reorgData["wired"] => EndReorg("wired") /\ pc' = "idle" /\ UNCHANGED panicked
    <3>1. (1..Len(s)) \ failed = 1..Len(s)
      BY <2>6
    <3>2. QED
      BY <2>6, <2>7, <3>1
  <2>9. \A h \in Heights :
           summary'[h] = IF h \in (k + 1)..t THEN Row(On(h), PoolOf(On(h))) ELSE summary[h]
    <3>1. /\ k \in Nat /\ t \in Nat /\ k < t /\ t <= tipHeight
          /\ IsPiece(s, k, t)
      BY <2>3, <2>4 DEF IsPiece
    <3>2. HasPiece(Rewritten(s, 1..Len(s)), k, t)
      BY <3>1, RewrittenRows
    <3>3. QED
      BY <2>8, <3>2 DEF HasPiece
  <2>10. BestRow'.hash = reorgData["wired"]
    <3>1. summary'[t] # NoRow /\ summary'[t].hash = On(t)
      BY <2>3, <2>4, <2>9, RowThere
    <3>2. \A h \in Heights : summary'[h] # NoRow => h <= t
      BY <1>f, <2>3, <2>4, <2>9 DEF NoRowAbove, Forked
    <3>3. (CHOOSE h \in Heights : /\ summary'[h] # NoRow
                                  /\ \A g \in Heights : summary'[g] # NoRow => g <= h) = t
      <4> DEFINE Best(h) == /\ summary'[h] # NoRow
                            /\ \A g \in Heights : summary'[g] # NoRow => g <= h
      <4>1. Best(t)
        BY <3>1, <3>2
      <4>2. \A h \in Heights : Best(h) => h = t
        BY <2>4, <3>1, <3>2
      <4> HIDE DEF Best
      <4>3. (CHOOSE h \in Heights : Best(h)) = t
        BY <4>1, <4>2
      <4>4. QED
        BY <4>3 DEF Best
    <3>4. QED
      BY <2>3, <3>1, <3>3 DEF BestRow
  <2>11. QED
    BY <1>f, <1>1, <1>3, <2>8, <2>9, <2>10
<1>4. QED
  BY <1>2, <1>3

\* The SQLite monitor is the last to handle a block.
LEMMA WiredStep ==
    ASSUME Followable, TypeOK, NEW a \in Blocks, NEW k \in Heights, NEW t \in Heights,
           Following(a, k, t), WiredBlock
    PROVE  /\ Following(a, k, t)' /\ taken' = taken
           /\ Pending("wired") /\ ~Pending("wired")' => ReachesNewHead("wired") /\ taken = t
           /\ Pending("wired")' => Pending("wired") /\ UNCHANGED summary
           /\ ~Pending("wired") => UNCHANGED summary
           /\ ~Pending("blockdata")' \/ Pending("wired")'
           /\ Pending("blockdata")' <=> Pending("blockdata")
<1>f. /\ Forked(a, k, t) /\ Turns(t) /\ StakeAt(a, k) /\ NoRowAbove(a) /\ History(a, t)
  BY DEF Following
<1>1. /\ pc = "wired" /\ pc # "idle" /\ pc' = "idle" /\ ~panicked'
      /\ "wired" \in Monitor /\ Waiting("wired") /\ ~Waiting("wired")'
      /\ \A m \in Monitor \ {"wired"} : ~Waiting(m) /\ ~Waiting(m)'
      /\ UNCHANGED <<tips, inFlight, queue, cur, reorgChan, bestNode, nodeMtxHeld, poolInfo,
                     reorg, collected>>
  BY WiredMoves DEF WiredBlock, Monitor, Waiting, nodeVars, collectVars, stakeVars
<1>2. \/ JoinSideChain("wired") /\ UNCHANGED summary
      \/ /\ ReachesNewHead("wired") /\ EndReorg("wired")
         /\ \A h \in Heights :
               summary'[h] = IF h \in (k + 1)..t THEN Row(On(h), PoolOf(On(h))) ELSE summary[h]
      \/ ~reorganizing["wired"] /\ UNCHANGED reorgVars /\ UNCHANGED summary
  BY WiredMoves
<1>3. /\ tipHeight' = tipHeight /\ taken' = taken /\ \A h : On(h)' = On(h)
      /\ k \in Nat /\ t \in Nat /\ taken \in Nat /\ Pipeline' /\ Announcement'
      /\ taken <= tipHeight /\ tipHeight \in Nat /\ Height(a) \in Nat
  BY <1>1, Handling, HandlingKept
<1>4. /\ (Pending("wired") <=> reorganizing["wired"])
      /\ (Pending("wired")' <=> reorganizing'["wired"])
      /\ Done("stakedb") = taken /\ Done("blockdata") = taken
  <2>1. "stakedb" \in Monitor \ {"wired"} /\ "blockdata" \in Monitor \ {"wired"}
    BY DEF Monitor
  <2>2. QED
    BY <1>1, <2>1, Handling, HandlingKept
<1>5. /\ \A m \in Monitor : Phase(m, k, t)'
      /\ \A m \in Monitor \ {"wired"} : (Pending(m)' <=> Pending(m)) /\ Done(m)' = Done(m)
      /\ Done("wired") = taken - 1 /\ Done("wired")' = taken
      /\ Pending("wired")' => Pending("wired") /\ taken < t /\ JoinsSideChain("wired")
      /\ Pending("wired") /\ ~Pending("wired")' => taken = t
  <2>1. /\ \A m \in Monitor \ {"wired"} : Waiting(m)' <=> Waiting(m)
        /\ \/ JoinSideChain("wired")
           \/ ReachesNewHead("wired") /\ EndReorg("wired")
           \/ ~reorganizing["wired"] /\ UNCHANGED reorgVars
    BY <1>1, <1>2
  <2>2. QED
    BY <1>1, <2>1, Handled
<1>6. /\ (Pending("blockdata")' <=> Pending("blockdata"))
      /\ (Pending("stakedb")' <=> Pending("stakedb"))
      /\ Done("stakedb")' = Done("stakedb")
  BY <1>5 DEF Monitor
<1>7. /\ Pending("stakedb") => taken < t /\ Pending("blockdata")
      /\ Pending("blockdata") => taken < t /\ Pending("wired")
      /\ Pending("wired") /\ ~Pending("stakedb") => taken = t
      /\ Pending("wired") /\ ~Pending("blockdata") => taken = t
  <2>1. /\ Pending("stakedb") => InReorg("stakedb", k, t)
        /\ Pending("blockdata") => InReorg("blockdata", k, t)
    BY DEF Following, Phase, Monitor
  <2>2. QED
    BY <1>f, <1>4, <2>1 DEF Turns, InReorg
<1>8. Forked(a, k, t)'
  BY <1>f, <1>3, <1>5 DEF Forked
<1>9. Turns(t)'
  BY <1>1, <1>3, <1>5, <1>6, <1>7 DEF Turns, Collecting
<1>10. StakeAt(a, k)'
  BY <1>f, <1>1, <1>3, <1>5, <1>6 DEF StakeAt
<1>11. /\ Pending("wired")' => UNCHANGED summary
       /\ ~Pending("wired") => UNCHANGED summary
       /\ Pending("wired") /\ ~Pending("wired")' => ReachesNewHead("wired") /\ taken = t
  BY <1>2, <1>4, <1>5 DEF JoinSideChain, JoinsSideChain, ReachesNewHead
<1>12. NoRowAbove(a)'
  <2>1. ASSUME NEW h \in Heights, summary'[h] # NoRow
        PROVE  h <= IF Pending("wired")' THEN Height(a) ELSE tipHeight
    <3>1. CASE Pending("wired")'
      BY <1>f, <1>5, <1>11, <2>1, <3>1 DEF NoRowAbove
    <3>2. CASE ~Pending("wired")
      BY <1>f, <1>5, <1>11, <2>1, <3>2 DEF NoRowAbove
    <3>3. CASE Pending("wired") /\ ~Pending("wired")'
      <4>1. summary'[h] = IF h \in (k + 1)..t THEN Row(On(h), PoolOf(On(h))) ELSE summary[h]
        BY <1>2, <1>4, <3>3 DEF JoinSideChain, JoinsSideChain
      <4>2. h \in (k + 1)..t => h <= tipHeight
        BY <1>3, <1>5, <3>3
      <4>3. h \notin (k + 1)..t => h <= tipHeight
        <5>1. Height(a) <= t /\ t <= tipHeight /\ h \in Nat
          BY <1>f, <1>3, <1>5, <3>3, HeightsAreNat DEF Forked
        <5>2. h \notin (k + 1)..t => h <= Height(a)
          BY <1>f, <2>1, <3>3, <4>1 DEF NoRowAbove
        <5>3. QED
          BY <1>3, <5>1, <5>2
      <4>4. QED
        BY <3>3, <4>2, <4>3
    <3>4. QED
      BY <3>1, <3>2, <3>3
  <2>2. QED
    BY <1>1, <1>3, <2>1 DEF NoRowAbove, Collecting
<1>13. History(a, t)'
  <2>1. PICK lo \in Nat : lo = IF Pending("wired") THEN t ELSE Done("wired")
    BY DoneBounds, HeightsAreNat DEF Monitor, Following
  <2>2. PICK l \in Nat : l = IF Pending("wired")' THEN t ELSE Done("wired")'
    BY <1>3, <1>5
  <2>3. Pending("wired")' => Pending("wired")
    BY <1>5
  <2>4. lo <= l
    BY <1>3, <1>5, <2>1, <2>2
  <2>5. QED
    BY <1>f, <1>1, <2>1, <2>2, <2>3, <2>4, HistoryKept
<1>14. Following(a, k, t)'
  BY <1>1, <1>3, <1>5, <1>8, <1>9, <1>10, <1>12, <1>13 DEF Following
<1>15. ~Pending("blockdata")' \/ Pending("wired")'
  BY <1>3, <1>5, <1>6, <1>7
<1>16. QED
  BY <1>3, <1>5, <1>6, <1>11, <1>14, <1>15

-----------------------------------------------------------------------------
(***************************************************************************)
(* What the stores have, while the best block does not change during a     *)
(* collection.                                                             *)
(***************************************************************************)

\* The heights below the node's best block are heights.
LEMMA HeightsBelow ==
    ASSUME TypeOK
    PROVE  0..tipHeight \subseteq Heights
<1>1. ASSUME NEW h \in 0..tipHeight PROVE h \in Heights
  <2>1. On(h) \in Blocks /\ Height(On(h)) = h
    BY MainChain
  <2>2. QED
    BY <2>1, HeightOfBlock
<1>2. QED
  BY <1>1

\* Where the stores should be lies on the chain.
LEMMA StorePlaces ==
    ASSUME TypeOK, NEW a \in Blocks, NEW k \in Heights, NEW t \in Heights,
           Following(a, k, t)
    PROVE  webDone \in 0..tipHeight /\ (Pending("wired") => k \in 0..tipHeight)
<1>1. Pipeline /\ Phase("wired", k, t) /\ k \in Nat
  BY HeightsAreNat DEF Following, Monitor
<1>2. taken \in 0..tipHeight /\ (pc # "idle" => taken - 1 \in 0..tipHeight)
      /\ Done("wired") \in 0..tipHeight /\ tipHeight \in Nat
  BY <1>1, DoneBounds, PlaceTypes DEF Monitor
<1>3. Pending("wired") => k <= Done("wired")
  BY <1>1 DEF Phase, InReorg
<1>4. webDone \in 0..tipHeight
  BY <1>2 DEF webDone, Collecting
<1>5. QED
  BY <1>1, <1>2, <1>3, <1>4

\* A step that leaves the stores and what they should have.
LEMMA StoresKept ==
    ASSUME TypeOK, NEW a \in Blocks, NEW k \in Heights, NEW t \in Heights,
           Following(a, k, t), StoresAt(a, k),
           \A h \in 0..tipHeight : On(h)' = On(h),
           UNCHANGED <<summary, webBlock>>,
           webDone' = webDone,
           WebPending' <=> WebPending, Pending("wired")' <=> Pending("wired"),
           pc' = "collect" => Height(cur') = tipHeight',
           pc' = "store" => collected' = cur'
    PROVE  StoresAt(a, k)'
<1>1. webDone \in 0..tipHeight /\ (Pending("wired") => k \in 0..tipHeight) /\ tipHeight \in Nat
  BY StorePlaces, PlaceTypes
<1>2. webBlock' = IF WebPending' THEN a ELSE On(webDone)'
  BY <1>1 DEF StoresAt
<1>3. ASSUME NEW h \in 0..(IF Pending("wired") THEN k ELSE webDone)
      PROVE  summary'[h] = Row(On(h)', On(h)')
  <2>1. h \in 0..tipHeight /\ summary[h] = Row(On(h), On(h))
    BY <1>1 DEF StoresAt
  <2>2. QED
    BY <2>1
<1>4. QED
  BY <1>2, <1>3 DEF StoresAt

\* The node and the notification handlers leave the stores alone.
LEMMA StoresOfOthers ==
    ASSUME Followable, "steady" \in Quiet, TypeOK,
           NEW a \in Blocks, NEW k \in Heights, NEW t \in Heights,
           Following(a, k, t), StoresAt(a, k),
           \/ \E b \in Blocks : NodeExtend(b)
           \/ OnBlockConnected \/ OnReorganization
           \/ \E m \in Monitor : ReorgHandler(m)
    PROVE  StoresAt(a, k)'
<1>1. UNCHANGED <<pc, cur, collected, summary, webBlock>>
  BY DEF NodeExtend, OnBlockConnected, OnReorganization, ReorgHandler, workerVars, storeVars,
         collectVars
<1>2. ASSUME taken' = taken, \A m \in Monitor : Pending(m)' <=> Pending(m)
      PROVE  /\ webDone' = webDone /\ (WebPending' <=> WebPending)
             /\ (Pending("wired")' <=> Pending("wired"))
  BY <1>1, <1>2 DEF webDone, WebPending, Collecting, Monitor
<1>3. CASE \E b \in Blocks : NodeExtend(b)
  <2>1. PICK b \in Blocks : NodeExtend(b)
    BY <1>3
  <2>2. pc # "collect"
    BY <2>1 DEF NodeExtend, NodeMayMove
  <2>3. /\ taken' = taken /\ (\A h \in 0..tipHeight : On(h)' = On(h))
        /\ \A m \in Monitor : Pending(m)' <=> Pending(m)
    BY <2>1, ExtendStep
  <2>4. QED
    BY <1>1, <1>2, <2>2, <2>3, StoresKept DEF StoresAt
<1>4. CASE OnBlockConnected \/ OnReorganization \/ \E m \in Monitor : ReorgHandler(m)
  <2>1. tips' = tips
    BY <1>4 DEF OnBlockConnected, OnReorganization, ReorgHandler, nodeVars
  <2>2. taken' = taken /\ \A m \in Monitor : Pending(m)' <=> Pending(m)
    BY <1>4, BlockStep, ReorganizationStep, HandlerStep
  <2>3. tipHeight' = tipHeight /\ \A h : On(h)' = On(h)
    BY <2>1, TipsKept
  <2>4. /\ pc' = "collect" => Height(cur') = tipHeight'
        /\ pc' = "store" => collected' = cur'
    BY <1>1, <2>3 DEF StoresAt
  <2>5. QED
    BY <1>1, <1>2, <2>2, <2>3, <2>4, StoresKept
<1>5. QED
  BY <1>3, <1>4

\* When a reorganization starts the stores are at the old best block.
LEMMA StoresReorg ==
    ASSUME Followable, TypeOK, NEW a \in Blocks, NEW k \in Heights, NEW t \in Heights,
           Following(a, k, t), StoresAt(a, k),
           NEW b \in Blocks, NEW f \in Heights, NodeReorg(b, f),
           NEW c \in Blocks, c = nodeTip, NEW u \in Heights, u = Height(b)
    PROVE  StoresAt(c, f)'
<1>1. /\ pc = "idle" /\ Drained /\ ForkAt(nodeTip, b, f)
      /\ UNCHANGED <<pc, summary, webBlock>>
  BY DEF NodeReorg, Followable, Drained, workerVars, storeVars
<1>2. /\ taken = tipHeight /\ \A m \in Monitor : ~Pending(m)
  BY <1>1, NothingPending
<1>3. webDone = tipHeight /\ ~WebPending
  BY <1>1, <1>2 DEF webDone, WebPending, Collecting, Monitor
<1>4. webBlock = c /\ \A h \in 0..tipHeight : summary[h] = Row(On(h), On(h))
  BY <1>2, <1>3, MainChain DEF StoresAt, Monitor
<1>5. nodeTip' = b /\ \A m \in Monitor : Pending(m)'
  BY ReorgStart
<1>6. Pending("wired")' /\ WebPending'
  BY <1>5 DEF WebPending, Monitor
<1>7. ASSUME NEW h \in 0..f PROVE summary'[h] = Row(On(h)', On(h)')
  <2>1. f \in Nat /\ f < tipHeight /\ f < Height(b) /\ tipHeight \in Nat /\ Height(b) \in Nat
        /\ Ancestor(b, f) = Ancestor(nodeTip, f) /\ nodeTip \in Blocks
    BY <1>1, PlaceTypes, HeightsAreNat, HeightOfBlock DEF ForkAt, tipHeight
  <2>2. Ancestor(b, h) = Ancestor(nodeTip, h)
    <3>1. Ancestor(Ancestor(b, f), h) = Ancestor(b, h)
      BY <2>1, Ancestors
    <3>2. Ancestor(Ancestor(nodeTip, f), h) = Ancestor(nodeTip, h)
      BY <2>1, Ancestors DEF tipHeight
    <3>3. QED
      BY <2>1, <3>1, <3>2
  <2>3. On(h)' = On(h)
    BY <1>5, <2>2 DEF On
  <2>4. h \in 0..tipHeight
    BY <2>1
  <2>5. QED
    BY <1>1, <1>4, <2>3, <2>4
<1>8. QED
  BY <1>1, <1>4, <1>6, <1>7 DEF StoresAt

\* Taking a block, and the stake database's handling of it, leave the stores alone.
LEMMA StoresBefore ==
    ASSUME Followable, TypeOK, NEW a \in Blocks, NEW k \in Heights, NEW t \in Heights,
           Following(a, k, t), StoresAt(a, k), Dequeue \/ StakeDBBlock
    PROVE  StoresAt(a, k)'
<1>1. UNCHANGED <<tips, summary, webBlock>>
  BY DEF Dequeue, StakeDBBlock, nodeVars, storeVars
<1>2. \A h \in 0..tipHeight : On(h)' = On(h)
  BY <1>1, TipsKept
<1>3. CASE Dequeue
  <2>1. /\ taken' = taken + 1 /\ pc = "idle" /\ pc' = "stakedb"
        /\ \A m \in Monitor : Pending(m)' <=> Pending(m)
    BY <1>3, DequeueStep DEF Dequeue
  <2>2. webDone' = webDone
    BY <2>1, PlaceTypes DEF webDone, Collecting
  <2>3. (WebPending' <=> WebPending) /\ (Pending("wired")' <=> Pending("wired"))
    BY <2>1 DEF WebPending, Collecting, Monitor
  <2>4. QED
    BY <1>1, <1>2, <2>1, <2>2, <2>3, StoresKept
<1>4. CASE StakeDBBlock
  <2>1. /\ taken' = taken /\ pc = "stakedb" /\ pc' = "blockdata"
        /\ \A m \in {"blockdata", "wired"} : Pending(m)' <=> Pending(m)
    BY <1>4, StakeStep
  <2>2. webDone' = webDone
    BY <2>1 DEF webDone
  <2>3. (WebPending' <=> WebPending) /\ (Pending("wired")' <=> Pending("wired"))
    BY <2>1 DEF WebPending, Collecting
  <2>4. QED
    BY <1>1, <1>2, <2>1, <2>2, <2>3, StoresKept
<1>5. QED
  BY <1>3, <1>4

\* While a block's data are collected no store changes.
LEMMA StoresCollect ==
    ASSUME Followable, TypeOK, NEW a \in Blocks, NEW k \in Heights, NEW t \in Heights,
           Following(a, k, t), StoresAt(a, k), BlockDataBlock \/ CollectHash \/ Collect
    PROVE  StoresAt(a, k)'
<1>1. UNCHANGED <<tips, cur, summary, webBlock>>
  BY DEF BlockDataBlock, CollectHash, Collect, nodeVars, storeVars
<1>2. tipHeight' = tipHeight /\ \A h \in 0..tipHeight : On(h)' = On(h)
  BY <1>1, TipsKept
<1>3. CASE BlockDataBlock
  <2>1. /\ taken' = taken /\ pc = "blockdata" /\ (Pending("wired")' <=> Pending("wired"))
        /\ (Pending("wired") <=> Pending("blockdata"))
        /\ IF Pending("blockdata")'
             THEN pc' = "wired" /\ Pending("blockdata")
             ELSE pc' = "count" /\ (Pending("blockdata") => taken = t)
    BY <1>3, BlockDataStep
  <2>2. CASE Pending("blockdata")'
    <3>1. webBlock' = a /\ WebPending' /\ Pending("wired")' /\ Pending("wired")
      BY <1>1, <2>1, <2>2 DEF StoresAt, WebPending
    <3>2. \A h \in 0..k : summary'[h] = Row(On(h)', On(h)')
      <4>1. k \in 0..tipHeight /\ tipHeight \in Nat
        BY <3>1, StorePlaces, PlaceTypes
      <4>2. \A h \in 0..k : h \in 0..tipHeight
        BY <4>1
      <4>3. QED
        BY <1>1, <1>2, <3>1, <4>2 DEF StoresAt
    <3>3. QED
      BY <2>1, <2>2, <3>1, <3>2 DEF StoresAt
  <2>3. CASE ~Pending("blockdata")'
    <3>1. pc' = "count" /\ webDone' = webDone
      BY <2>1, <2>3 DEF webDone, Collecting
    <3>2. WebPending' <=> WebPending
      BY <2>1, <2>3, <3>1 DEF WebPending, Collecting
    <3>3. QED
      BY <1>1, <1>2, <2>1, <3>1, <3>2, StoresKept
  <2>4. QED
    BY <2>2, <2>3
<1>4. CASE CollectHash \/ Collect
  <2>1. /\ pc \in {"count", "collect"} /\ pc' \in {"collect", "store"}
        /\ taken' = taken /\ cur = On(taken) /\ Height(cur) = taken
        /\ (Pending("wired")' <=> Pending("wired"))
        /\ (Pending("blockdata")' <=> Pending("blockdata"))
        /\ pc' = "store" /\ pc = "count" => collected' = cur
        /\ pc' = "store" /\ pc = "collect" => collected' = nodeTip
        /\ pc' = "collect" => taken = tipHeight
    BY <1>4, CollectionFrame DEF Monitor, CollectHash, Collect, At
  <2>2. pc = "collect" => nodeTip = cur
    BY <2>1, MainChain DEF StoresAt
  <2>3. /\ pc' = "collect" => Height(cur') = tipHeight'
        /\ pc' = "store" => collected' = cur'
    BY <1>1, <1>2, <2>1, <2>2
  <2>4. webDone' = webDone /\ (WebPending' <=> WebPending)
    BY <2>1 DEF webDone, WebPending, Collecting
  <2>5. QED
    BY <1>1, <1>2, <2>1, <2>3, <2>4, StoresKept
<1>5. QED
  BY <1>3, <1>4

\* The savers have the block that is being handled, with its own pool info.
LEMMA StoresStore ==
    ASSUME Followable, TypeOK, NEW a \in Blocks, NEW k \in Heights, NEW t \in Heights,
           Following(a, k, t), StoresAt(a, k), Store
    PROVE  StoresAt(a, k)'
<1>1. /\ pc = "store" /\ pc' = "wired" /\ Collecting
      /\ \A h : On(h)' = On(h)
      /\ taken' = taken /\ cur = On(taken) /\ Height(cur) = taken /\ taken <= tipHeight
      /\ taken \in Nat /\ tipHeight \in Nat
      /\ (Pending("wired")' <=> Pending("wired"))
      /\ (Pending("blockdata")' <=> Pending("blockdata"))
  BY CollectionFrame DEF Monitor, Store, At
<1>2. /\ ~Pending("blockdata") /\ ~Pending("stakedb") /\ (reorg <=> Pending("wired"))
      /\ cur \in poolInfo
  BY <1>1 DEF Following, Turns, NoRowAbove, StakeAt
<1>3. collected = cur /\ webBlock' = cur /\ webDone = taken - 1 /\ webDone' = taken
  BY <1>1 DEF StoresAt, Store, webDone, Collecting
<1>4. webBlock' = IF WebPending' THEN a ELSE On(webDone)'
  BY <1>1, <1>2, <1>3 DEF WebPending, Collecting
<1>5. CASE reorg
  <2>1. summary' = summary /\ Pending("wired") /\ k \in Nat
    BY <1>2, <1>5, HeightsAreNat DEF Store
  <2>2. \A h \in 0..k : summary'[h] = Row(On(h)', On(h)')
    BY <1>1, <2>1 DEF StoresAt
  <2>3. QED
    BY <1>1, <1>4, <2>1, <2>2 DEF StoresAt
<1>6. CASE ~reorg
  <2>1. /\ ~Pending("wired")
        /\ summary \in [Heights -> [hash : Blocks, pool : Blocks] \union {NoRow}]
        /\ summary' = [summary EXCEPT ![taken] = Row(cur, cur)]
    BY <1>1, <1>2, <1>3, <1>6 DEF Store, TypeOK, PoolOf
  <2>2. 0..taken \subseteq Heights
    BY <1>1, HeightsBelow
  <2>3. ASSUME NEW h \in 0..taken PROVE summary'[h] = Row(On(h)', On(h)')
    <3>1. CASE h = taken
      BY <1>1, <2>1, <2>2, <3>1
    <3>2. CASE h # taken
      <4>1. h \in 0..(taken - 1)
        BY <1>1, <3>2
      <4>2. summary[h] = Row(On(h), On(h))
        BY <1>3, <2>1, <4>1 DEF StoresAt
      <4>3. QED
        BY <1>1, <2>1, <2>2, <3>2, <4>2
    <3>3. QED
      BY <3>1, <3>2
  <2>4. QED
    BY <1>1, <1>3, <1>4, <2>1, <2>3 DEF StoresAt
<1>7. QED
  BY <1>5, <1>6

\* The SQLite monitor gives the blocks of the new chain their rows, with their own pool
\* info: it is in the cache.
LEMMA StoresWired ==
    ASSUME Followable, TypeOK, NEW a \in Blocks, NEW k \in Heights, NEW t \in Heights,
           Following(a, k, t), StoresAt(a, k), WiredBlock
    PROVE  StoresAt(a, k)'
<1>1. /\ pc = "wired" /\ pc # "idle" /\ pc' = "idle" /\ taken' = taken
      /\ Pending("blockdata")' <=> Pending("blockdata")
      /\ Pending("wired")' => Pending("wired") /\ UNCHANGED summary
      /\ ~Pending("wired") => UNCHANGED summary
      /\ Pending("wired") /\ ~Pending("wired")' => ReachesNewHead("wired") /\ taken = t
  BY WiredStep, WiredMoves
<1>2. UNCHANGED <<tips, inFlight, queue, cur, reorgChan, webBlock, poolInfo>>
  BY DEF WiredBlock, nodeVars, stakeVars
<1>3. (\A h : On(h)' = On(h)) /\ taken \in Nat /\ taken <= tipHeight /\ k \in Nat /\ t \in Nat
  BY <1>1, <1>2, Handling, HandlingKept
<1>4. webDone' = webDone /\ webDone = taken /\ (WebPending' <=> WebPending)
  BY <1>1 DEF webDone, WebPending, Collecting
<1>5. CASE Pending("wired")' <=> Pending("wired")
  <2>1. UNCHANGED summary
    BY <1>1, <1>5
  <2>2. QED
    BY <1>1, <1>2, <1>3, <1>4, <1>5, <2>1, StoresKept
<1>6. CASE Pending("wired") /\ ~Pending("wired")'
  <2>1. /\ ReachesNewHead("wired") /\ taken = t
        /\ \A h \in Heights :
              summary'[h] = IF h \in (k + 1)..t THEN Row(On(h), PoolOf(On(h))) ELSE summary[h]
    BY <1>1, <1>6, WiredMoves DEF JoinSideChain, JoinsSideChain, ReachesNewHead
  <2>2. ~Pending("stakedb")
    <3>1. Pending("stakedb") => InReorg("stakedb", k, t)
      BY DEF Following, Phase, Monitor
    <3>2. Done("stakedb") = taken
      BY <1>1 DEF Done, Waiting
    <3>3. QED
      BY <1>3, <2>1, <3>1, <3>2 DEF InReorg
  <2>3. \A h \in (k + 1)..t : On(h) \in poolInfo
    BY <1>6, <2>1, <2>2 DEF Following, StakeAt
  <2>4. ASSUME NEW h \in 0..t PROVE summary'[h] = Row(On(h)', On(h)')
    <3>1. h \in Heights
      <4>1. h \in 0..tipHeight
        BY <1>3, <2>1, PlaceTypes
      <4>2. QED
        BY <4>1, HeightsBelow
    <3>2. CASE h \in (k + 1)..t
      BY <1>3, <2>1, <2>3, <3>1, <3>2 DEF PoolOf
    <3>3. CASE h \notin (k + 1)..t
      <4>1. h \in 0..k
        BY <1>3, <3>3
      <4>2. summary[h] = Row(On(h), On(h))
        BY <1>6, <4>1 DEF StoresAt
      <4>3. QED
        BY <1>3, <2>1, <3>1, <3>3, <4>2
    <3>4. QED
      BY <3>2, <3>3
  <2>5. webBlock' = IF WebPending' THEN a ELSE On(webDone)'
    BY <1>2, <1>3, <1>4 DEF StoresAt
  <2>6. QED
    BY <1>1, <1>4, <1>6, <2>1, <2>4, <2>5 DEF StoresAt
<1>7. QED
  BY <1>1, <1>5, <1>6

-----------------------------------------------------------------------------
(***************************************************************************)
(* What they have in any case.                                             *)
(***************************************************************************)

\* A step that leaves the stores, and the reorganizations before them, where they are.
LEMMA LooseKept ==
    ASSUME TypeOK, NEW a \in Blocks, NEW k \in Heights, NEW t \in Heights,
           Following(a, k, t), LooseAt(a, k),
           tipHeight' \in Nat, tipHeight <= tipHeight',
           \A h \in 0..tipHeight : On(h)' = On(h),
           UNCHANGED <<summary, webBlock>>,
           webDone' = webDone,
           WebPending' <=> WebPending, Pending("wired")' <=> Pending("wired"),
           pc' = "store" => /\ taken' <= Height(collected') /\ Height(collected') <= tipHeight'
                            /\ collected' = On(Height(collected))'
    PROVE  LooseAt(a, k)'
<1>1. /\ webDone \in 0..tipHeight /\ tipHeight \in Nat /\ Heights \subseteq Nat
      /\ webBlock \in Blocks /\ Height(webBlock) \in Nat
  BY StorePlaces, PlaceTypes, HeightsAreNat, HeightOfBlock DEF TypeOK
<1>2. Height(webBlock') = Height(webBlock)
  OBVIOUS
<1>3. ASSUME ~WebPending
      PROVE  /\ webDone' <= Height(webBlock') /\ Height(webBlock') <= tipHeight'
             /\ webBlock' = On(Height(webBlock))'
  <2>1. /\ webDone <= Height(webBlock) /\ Height(webBlock) <= tipHeight
        /\ webBlock = On(Height(webBlock))
    BY <1>3 DEF LooseAt
  <2>2. On(Height(webBlock))' = On(Height(webBlock))
    <3>1. Height(webBlock) \in 0..tipHeight
      BY <1>1, <2>1
    <3>2. Ancestor(nodeTip', Height(webBlock)) = Ancestor(nodeTip, Height(webBlock))
      BY <3>1 DEF On
    <3>3. QED
      BY <1>2, <3>2 DEF On
  <2>3. QED
    BY <1>1, <1>2, <2>1, <2>2
<1>4. WebPending => webBlock' = a
  BY DEF LooseAt
<1>5. ASSUME NEW h \in Heights, summary'[h] # NoRow
      PROVE  summary'[h].hash = IF Pending("wired")' THEN Ancestor(a, h) ELSE On(h)'
  <2>1. summary[h].hash = IF Pending("wired") THEN Ancestor(a, h) ELSE On(h)
    BY <1>5 DEF LooseAt
  <2>2. ~Pending("wired") => h \in 0..tipHeight
    BY <1>1, <1>5 DEF Following, NoRowAbove
  <2>3. QED
    BY <2>1, <2>2
<1>6. ASSUME ~Pending("wired")', Height(webBlock') = webDone'
      PROVE  summary'[webDone'] = Row(On(webDone)', On(webDone)')
  <2>1. summary[webDone] = Row(On(webDone), On(webDone))
    BY <1>6 DEF LooseAt
  <2>2. On(webDone)' = On(webDone)
    BY <1>1
  <2>3. QED
    BY <2>1, <2>2
<1>7. QED
  BY <1>3, <1>4, <1>5, <1>6 DEF LooseAt

\* The node and the notification handlers leave the stores alone: what was collected stays
\* on the chain when that grows.
LEMMA LooseOfOthers ==
    ASSUME Followable, TypeOK,
           NEW a \in Blocks, NEW k \in Heights, NEW t \in Heights,
           Following(a, k, t), LooseAt(a, k),
           \/ \E b \in Blocks : NodeExtend(b)
           \/ OnBlockConnected \/ OnReorganization
           \/ \E m \in Monitor : ReorgHandler(m)
    PROVE  LooseAt(a, k)'
<1>1. UNCHANGED <<pc, cur, collected, summary, webBlock>>
  BY DEF NodeExtend, OnBlockConnected, OnReorganization, ReorgHandler, workerVars, storeVars,
         collectVars
<1>2. /\ taken' = taken /\ (\A h \in 0..tipHeight : On(h)' = On(h))
      /\ \A m \in Monitor : Pending(m)' <=> Pending(m)
  <2>1. CASE \E b \in Blocks : NodeExtend(b)
    BY <2>1, ExtendStep
  <2>2. CASE OnBlockConnected \/ OnReorganization \/ \E m \in Monitor : ReorgHandler(m)
    <3>1. tips' = tips
      BY <2>2 DEF OnBlockConnected, OnReorganization, ReorgHandler, nodeVars
    <3>2. QED
      BY <2>2, <3>1, BlockStep, ReorganizationStep, HandlerStep, TipsKept
  <2>3. QED
    BY <2>1, <2>2
<1>3. tipHeight \in Nat /\ tipHeight' \in Nat /\ tipHeight <= tipHeight'
  <2>1. CASE \E b \in Blocks : NodeExtend(b)
    <3>1. PICK b \in Blocks : IsChild(b, nodeTip) /\ tips' = Append(tips, b)
      BY <2>1 DEF NodeExtend
    <3>2. nodeTip' = b
      BY <3>1 DEF TypeOK, nodeTip
    <3>3. Height(b) = tipHeight + 1 /\ tipHeight' = Height(b)
      BY <3>1, <3>2, PlaceTypes, Children DEF tipHeight
    <3>4. QED
      BY <3>3, PlaceTypes
  <2>2. CASE tips' = tips
    BY <2>2, TipsKept, PlaceTypes
  <2>3. QED
    BY <2>1, <2>2 DEF OnBlockConnected, OnReorganization, ReorgHandler, nodeVars
<1>4. /\ webDone' = webDone /\ (WebPending' <=> WebPending)
      /\ (Pending("wired")' <=> Pending("wired"))
  BY <1>1, <1>2 DEF webDone, WebPending, Collecting, Monitor
<1>5. ASSUME pc' = "store"
      PROVE  /\ taken' <= Height(collected') /\ Height(collected') <= tipHeight'
             /\ collected' = On(Height(collected))'
  <2>1. /\ taken <= Height(collected) /\ Height(collected) <= tipHeight
        /\ collected = On(Height(collected))
    BY <1>1, <1>5 DEF LooseAt
  <2>2. Height(collected') = Height(collected) /\ Height(collected) \in Nat
    BY <1>1, HeightOfBlock DEF TypeOK
  <2>3. On(Height(collected))' = On(Height(collected))
    <3>1. Height(collected) \in 0..tipHeight
      BY <1>3, <2>1, <2>2
    <3>2. Ancestor(nodeTip', Height(collected)) = Ancestor(nodeTip, Height(collected))
      BY <1>2, <3>1 DEF On
    <3>3. QED
      BY <2>2, <3>2 DEF On
  <2>4. QED
    BY <1>1, <1>2, <1>3, <2>1, <2>2, <2>3
<1>6. QED
  BY <1>1, <1>2, <1>3, <1>4, <1>5, LooseKept

\* When a reorganization starts the rows are those of the old best chain.
LEMMA LooseReorg ==
    ASSUME Followable, TypeOK, NEW a \in Blocks, NEW k \in Heights, NEW t \in Heights,
           Following(a, k, t), LooseAt(a, k),
           NEW b \in Blocks, NEW f \in Heights, NodeReorg(b, f),
           NEW c \in Blocks, c = nodeTip, NEW u \in Heights, u = Height(b)
    PROVE  LooseAt(c, f)'
<1>1. /\ pc = "idle" /\ Drained /\ UNCHANGED <<pc, summary, webBlock>>
  BY DEF NodeReorg, Followable, Drained, workerVars, storeVars
<1>2. /\ taken = tipHeight /\ \A m \in Monitor : ~Pending(m)
  BY <1>1, NothingPending
<1>3. webDone = tipHeight /\ ~WebPending /\ ~Pending("wired")
  BY <1>1, <1>2 DEF webDone, WebPending, Collecting, Monitor
<1>4. webBlock = c
  <2>1. Height(webBlock) \in Nat /\ tipHeight \in Nat
    BY PlaceTypes, HeightOfBlock DEF TypeOK
  <2>2. Height(webBlock) = tipHeight /\ webBlock = On(Height(webBlock))
    BY <1>3, <2>1 DEF LooseAt
  <2>3. QED
    BY <2>2, MainChain
<1>5. \A h \in Heights : summary[h] # NoRow => summary[h].hash = Ancestor(c, h)
  BY <1>3 DEF LooseAt, On
<1>6. Pending("wired")' /\ WebPending'
  <2>1. \A m \in Monitor : Pending(m)'
    BY ReorgStart
  <2>2. QED
    BY <2>1 DEF WebPending, Monitor
<1>7. QED
  BY <1>1, <1>4, <1>5, <1>6 DEF LooseAt

\* Taking a block, and the stake database's handling of it, leave the stores alone.
LEMMA LooseBefore ==
    ASSUME Followable, TypeOK, NEW a \in Blocks, NEW k \in Heights, NEW t \in Heights,
           Following(a, k, t), LooseAt(a, k), Dequeue \/ StakeDBBlock
    PROVE  LooseAt(a, k)'
<1>1. UNCHANGED <<tips, summary, webBlock>>
  BY DEF Dequeue, StakeDBBlock, nodeVars, storeVars
<1>2. /\ tipHeight' \in Nat /\ tipHeight <= tipHeight'
      /\ \A h \in 0..tipHeight : On(h)' = On(h)
  BY <1>1, TipsKept, PlaceTypes
<1>3. CASE Dequeue
  <2>1. /\ taken' = taken + 1 /\ pc = "idle" /\ pc' = "stakedb"
        /\ \A m \in Monitor : Pending(m)' <=> Pending(m)
    BY <1>3, DequeueStep DEF Dequeue
  <2>2. webDone' = webDone
    BY <2>1, PlaceTypes DEF webDone, Collecting
  <2>3. (WebPending' <=> WebPending) /\ (Pending("wired")' <=> Pending("wired"))
    BY <2>1 DEF WebPending, Collecting, Monitor
  <2>4. QED
    BY <1>1, <1>2, <2>1, <2>2, <2>3, LooseKept
<1>4. CASE StakeDBBlock
  <2>1. /\ taken' = taken /\ pc = "stakedb" /\ pc' = "blockdata"
        /\ \A m \in {"blockdata", "wired"} : Pending(m)' <=> Pending(m)
    BY <1>4, StakeStep
  <2>2. webDone' = webDone
    BY <2>1 DEF webDone
  <2>3. (WebPending' <=> WebPending) /\ (Pending("wired")' <=> Pending("wired"))
    BY <2>1 DEF WebPending, Collecting
  <2>4. QED
    BY <1>1, <1>2, <2>1, <2>2, <2>3, LooseKept
<1>5. QED
  BY <1>3, <1>4

\* What is collected is the block being handled, or the best block, which is no lower.
LEMMA LooseCollect ==
    ASSUME Followable, TypeOK, NEW a \in Blocks, NEW k \in Heights, NEW t \in Heights,
           Following(a, k, t), LooseAt(a, k), BlockDataBlock \/ CollectHash \/ Collect
    PROVE  LooseAt(a, k)'
<1>1. UNCHANGED <<tips, cur, summary, webBlock>>
  BY DEF BlockDataBlock, CollectHash, Collect, nodeVars, storeVars
<1>2. /\ tipHeight' = tipHeight /\ tipHeight \in Nat /\ nodeTip' = nodeTip
      /\ \A h : On(h)' = On(h)
  BY <1>1, TipsKept, PlaceTypes
<1>3. CASE BlockDataBlock
  <2>1. /\ taken' = taken /\ pc = "blockdata" /\ (Pending("wired")' <=> Pending("wired"))
        /\ (Pending("wired") <=> Pending("blockdata"))
        /\ IF Pending("blockdata")'
             THEN pc' = "wired" /\ Pending("blockdata")
             ELSE pc' = "count" /\ (Pending("blockdata") => taken = t)
    BY <1>3, BlockDataStep
  <2>2. CASE Pending("blockdata")'
    <3>1. webBlock' = a /\ WebPending' /\ Pending("wired")' /\ Pending("wired")
      BY <1>1, <2>1, <2>2 DEF LooseAt, WebPending
    <3>2. \A h \in Heights : summary'[h] # NoRow => summary'[h].hash = Ancestor(a, h)
      BY <1>1, <3>1 DEF LooseAt
    <3>3. QED
      BY <2>1, <2>2, <3>1, <3>2 DEF LooseAt
  <2>3. CASE ~Pending("blockdata")'
    <3>1. pc' = "count" /\ webDone' = webDone
      BY <2>1, <2>3 DEF webDone, Collecting
    <3>2. WebPending' <=> WebPending
      BY <2>1, <2>3, <3>1 DEF WebPending, Collecting
    <3>3. QED
      BY <1>1, <1>2, <2>1, <3>1, <3>2, LooseKept
  <2>4. QED
    BY <2>2, <2>3
<1>4. CASE CollectHash \/ Collect
  <2>1. /\ pc \in {"count", "collect"} /\ pc' \in {"collect", "store"}
        /\ taken' = taken /\ cur = On(taken) /\ Height(cur) = taken
        /\ taken <= tipHeight /\ taken \in Nat
        /\ (Pending("wired")' <=> Pending("wired"))
        /\ (Pending("blockdata")' <=> Pending("blockdata"))
        /\ pc' = "store" => collected' = cur \/ collected' = nodeTip
    BY <1>4, CollectionFrame DEF Monitor, CollectHash, Collect, At
  <2>2. ASSUME pc' = "store"
        PROVE  /\ taken' <= Height(collected') /\ Height(collected') <= tipHeight'
               /\ collected' = On(Height(collected))'
    <3>1. Height(nodeTip) = tipHeight /\ On(tipHeight) = nodeTip
      BY MainChain DEF tipHeight
    <3>2. /\ taken' <= Height(collected') /\ Height(collected') <= tipHeight'
          /\ collected' = On(Height(collected'))
      BY <1>2, <2>1, <2>2, <3>1
    <3>3. On(Height(collected))' = On(Height(collected'))
      BY <1>2 DEF On
    <3>4. QED
      BY <3>2, <3>3
  <2>3. webDone' = webDone /\ (WebPending' <=> WebPending)
    BY <2>1 DEF webDone, WebPending, Collecting
  <2>4. QED
    BY <1>1, <1>2, <2>1, <2>2, <2>3, LooseKept
<1>5. QED
  BY <1>3, <1>4

\* The row of a collected block is one of the chain; if it is that of the block being
\* handled, it has that block's own pool info.
LEMMA LooseStore ==
    ASSUME Followable, TypeOK, NEW a \in Blocks, NEW k \in Heights, NEW t \in Heights,
           Following(a, k, t), LooseAt(a, k), Store
    PROVE  LooseAt(a, k)'
<1>1. /\ pc = "store" /\ pc' = "wired" /\ Collecting
      /\ nodeTip' = nodeTip /\ tipHeight' = tipHeight /\ (\A h : On(h)' = On(h))
      /\ taken' = taken /\ cur = On(taken) /\ Height(cur) = taken /\ taken <= tipHeight
      /\ taken \in Nat /\ tipHeight \in Nat
      /\ (Pending("wired")' <=> Pending("wired"))
      /\ (Pending("blockdata")' <=> Pending("blockdata"))
  <2>1. tips' = tips
    BY DEF Store, nodeVars
  <2>2. QED
    BY <2>1, TipsKept, CollectionFrame DEF Monitor, Store, At
<1>2. /\ ~Pending("blockdata") /\ ~Pending("stakedb") /\ (reorg <=> Pending("wired"))
      /\ cur \in poolInfo
  BY <1>1 DEF Following, Turns, NoRowAbove, StakeAt
<1>3. PICK g \in 0..tipHeight : g = Height(collected)
  BY <1>1, HeightOfBlock DEF LooseAt, TypeOK
<1>4. collected = On(g) /\ taken <= g /\ g <= tipHeight
  BY <1>1, <1>3 DEF LooseAt
<1>5. webBlock' = On(g) /\ Height(On(g)) = g /\ webDone' = taken /\ ~WebPending'
  BY <1>1, <1>2, <1>3, <1>4 DEF Store, webDone, WebPending, Collecting
<1>6. /\ webDone' <= Height(webBlock') /\ Height(webBlock') <= tipHeight'
      /\ webBlock' = On(Height(webBlock))'
  <2>1. Height(webBlock') = g
    BY <1>5
  <2>2. On(Height(webBlock))' = On(g)
    BY <1>1, <2>1 DEF On
  <2>3. QED
    BY <1>1, <1>4, <1>5, <2>1, <2>2
<1>7. CASE reorg
  <2>1. summary' = summary /\ Pending("wired")
    BY <1>2, <1>7 DEF Store
  <2>2. \A h \in Heights : summary'[h] # NoRow => summary'[h].hash = Ancestor(a, h)
    BY <2>1 DEF LooseAt
  <2>3. QED
    BY <1>1, <1>5, <1>6, <2>1, <2>2 DEF LooseAt
<1>8. CASE ~reorg
  <2>1. /\ ~Pending("wired") /\ g \in Heights
        /\ summary \in [Heights -> [hash : Blocks, pool : Blocks] \union {NoRow}]
        /\ summary' = [summary EXCEPT ![g] = Row(On(g), PoolOf(On(g)))]
    BY <1>2, <1>3, <1>4, <1>8, HeightsBelow DEF Store, TypeOK
  <2>2. ASSUME NEW h \in Heights, summary'[h] # NoRow PROVE summary'[h].hash = On(h)
    <3>1. CASE h = g
      <4>1. summary'[h] = Row(On(g), PoolOf(On(g)))
        BY <2>1, <3>1
      <4>2. QED
        BY <3>1, <4>1 DEF Row
    <3>2. CASE h # g
      BY <2>1, <2>2, <3>2 DEF LooseAt
    <3>3. QED
      BY <3>1, <3>2
  <2>3. ASSUME Height(webBlock') = webDone'
        PROVE  summary'[webDone'] = Row(On(webDone)', On(webDone)')
    <3>1. g = taken /\ On(g) = cur
      BY <1>1, <1>5, <2>3
    <3>2. summary'[taken] = Row(cur, cur)
      BY <1>2, <2>1, <3>1 DEF PoolOf
    <3>3. QED
      BY <1>1, <1>5, <3>2
  <2>4. QED
    BY <1>1, <1>5, <1>6, <2>1, <2>2, <2>3 DEF LooseAt
<1>9. QED
  BY <1>7, <1>8

\* After the SQLite monitor's switch no row is left of the old chain: that was no higher
\* than the new head.
LEMMA LooseWired ==
    ASSUME Followable, TypeOK, NEW a \in Blocks, NEW k \in Heights, NEW t \in Heights,
           Following(a, k, t), LooseAt(a, k), WiredBlock
    PROVE  LooseAt(a, k)'
<1>1. /\ pc = "wired" /\ pc # "idle" /\ pc' = "idle" /\ taken' = taken
      /\ Pending("blockdata")' <=> Pending("blockdata")
      /\ Pending("wired")' => Pending("wired") /\ UNCHANGED summary
      /\ ~Pending("wired") => UNCHANGED summary
      /\ Pending("wired") /\ ~Pending("wired")' => ReachesNewHead("wired") /\ taken = t
  BY WiredStep, WiredMoves
<1>2. UNCHANGED <<tips, inFlight, queue, cur, reorgChan, webBlock, poolInfo>>
  BY DEF WiredBlock, nodeVars, stakeVars
<1>3. /\ nodeTip' = nodeTip /\ tipHeight' = tipHeight /\ (\A h : On(h)' = On(h))
      /\ tipHeight \in Nat /\ taken \in Nat /\ taken <= tipHeight /\ k \in Nat /\ t \in Nat
  BY <1>1, <1>2, Handling, TipsKept, PlaceTypes, HeightsAreNat
<1>4. webDone' = webDone /\ webDone = taken /\ (WebPending' <=> WebPending)
  BY <1>1 DEF webDone, WebPending, Collecting
<1>5. CASE Pending("wired")' <=> Pending("wired")
  <2>1. UNCHANGED summary
    BY <1>1, <1>5
  <2>2. QED
    BY <1>1, <1>2, <1>3, <1>4, <1>5, <2>1, LooseKept
<1>6. CASE Pending("wired") /\ ~Pending("wired")'
  <2>1. /\ ReachesNewHead("wired") /\ taken = t
        /\ \A h \in Heights :
              summary'[h] = IF h \in (k + 1)..t THEN Row(On(h), PoolOf(On(h))) ELSE summary[h]
    BY <1>1, <1>6, WiredMoves DEF JoinSideChain, JoinsSideChain, ReachesNewHead
  <2>2. ~Pending("stakedb")
    <3>1. Pending("stakedb") => InReorg("stakedb", k, t)
      BY DEF Following, Phase, Monitor
    <3>2. Done("stakedb") = taken
      BY <1>1 DEF Done, Waiting
    <3>3. QED
      BY <1>3, <2>1, <3>1, <3>2 DEF InReorg
  <2>3. k < t /\ Done("wired") < t
    <3>1. InReorg("wired", k, t)
      BY <1>6 DEF Following, Phase, Monitor
    <3>2. Done("wired") = taken - 1
      BY <1>1 DEF Done, Waiting
    <3>3. QED
      BY <1>3, <2>1, <3>1, <3>2 DEF InReorg
  <2>4. /\ k < Height(a) /\ Height(a) <= t /\ Ancestor(a, k) = On(k) /\ Height(a) \in Nat
    BY <1>6, HeightOfBlock DEF Following, Forked
  <2>5. ASSUME NEW h \in Heights, summary'[h] # NoRow PROVE summary'[h].hash = On(h)
    <3>1. CASE h \in (k + 1)..t
      <4>1. summary'[h] = Row(On(h), PoolOf(On(h)))
        BY <2>1, <3>1
      <4>2. QED
        BY <4>1 DEF Row
    <3>2. CASE h \notin (k + 1)..t
      <4>1. summary'[h] = summary[h] /\ h \in Nat
        BY <2>1, <3>2, HeightsAreNat
      <4>2. h <= Height(a) /\ summary[h].hash = Ancestor(a, h)
        BY <1>6, <2>5, <4>1 DEF Following, NoRowAbove, LooseAt
      <4>3. h \in 0..k /\ k \in 0..Height(a) /\ k \in 0..tipHeight
        BY <1>3, <2>1, <2>3, <2>4, <3>2, <4>1, <4>2
      <4>4. Ancestor(Ancestor(a, k), h) = Ancestor(a, h)
        BY <4>3, Ancestors
      <4>5. Ancestor(On(k), h) = On(h)
        BY <4>3, MainChain
      <4>6. QED
        BY <2>4, <4>1, <4>2, <4>4, <4>5
    <3>3. QED
      BY <3>1, <3>2
  <2>6. summary'[t] = Row(On(t), On(t))
    <3>1. t \in (k + 1)..t /\ t \in Heights
      BY <1>3, <2>3
    <3>2. On(t) \in poolInfo
      BY <1>6, <2>1, <2>2, <3>1 DEF Following, StakeAt
    <3>3. QED
      BY <2>1, <3>1, <3>2 DEF PoolOf
  <2>7. IF WebPending' THEN webBlock' = a
          ELSE /\ webDone' <= Height(webBlock') /\ Height(webBlock') <= tipHeight'
               /\ webBlock' = On(Height(webBlock))'
    <3>1. On(Height(webBlock))' = On(Height(webBlock))
      BY <1>2, <1>3 DEF On
    <3>2. Height(webBlock') = Height(webBlock)
      BY <1>2
    <3>3. QED
      BY <1>2, <1>3, <1>4, <3>1, <3>2 DEF LooseAt
  <2>8. QED
    BY <1>1, <1>3, <1>4, <1>6, <2>1, <2>5, <2>6, <2>7 DEF LooseAt
<1>7. QED
  BY <1>1, <1>5, <1>6

-----------------------------------------------------------------------------
(***************************************************************************)
(* The invariant.                                                          *)
(***************************************************************************)

\* The start-up has left all stores at the node's best block.
LEMMA FollowStart == Init => FollowInv
<1> SUFFICES ASSUME Init PROVE FollowInv
  OBVIOUS
<1>1. PICK b \in StartBlocks :
         /\ tips = <<b>> /\ inFlight = <<>> /\ queue = <<>> /\ pc = "idle"
         /\ reorgChan = [m \in Monitor |-> <<>>]
         /\ reorganizing = [m \in Monitor |-> FALSE]
         /\ sideChain = [m \in Monitor |-> <<>>]
         /\ bestNode = b /\ nodeMtxHeld = FALSE
         /\ summary = RowsOf(b) /\ webBlock = b /\ panicked = FALSE
  BY DEF Init
<1>2. TypeOK /\ b \in Blocks /\ Len(<<>>) = 0
  BY InitTypeOK, StartAssumption
<1>3. PICK t \in Heights : t = Height(b)
  BY <1>2, HeightOfBlock
<1>4. nodeTip = b /\ Len(tips) = 1 /\ tips[1] = b /\ tipHeight = t /\ t \in Nat
  BY <1>1, <1>2, <1>3, HeightOfBlock DEF nodeTip, tipHeight
<1>5. ~ReorgSent /\ flying = 0 /\ taken = t
  BY <1>1, <1>2, <1>4 DEF ReorgSent, flying, taken
<1>6. \A m \in Monitor : /\ ~Announced(m) /\ ~Pending(m) /\ Done(m) = t
                         /\ sideChain[m] = <<>> /\ reorgChan[m] = <<>> /\ ~reorganizing[m]
  BY <1>1, <1>5 DEF Announced, Pending, Done, Waiting
<1>7. On(t) = b
  BY <1>2, <1>3, <1>4, OwnAncestor DEF On
<1>8. Pipeline
  BY <1>1, <1>2, <1>4, <1>5 DEF Pipeline
<1>9. Announcement
  BY <1>2, <1>5, <1>6 DEF Announcement
<1>10. (\A m \in Monitor : Phase(m, t, t)) /\ Forked(b, t, t) /\ Turns(t)
  BY <1>1, <1>6 DEF Phase, Forked, Turns, Collecting, Monitor
<1>11. StakeAt(b, t)
  BY <1>1, <1>6, <1>7 DEF StakeAt, Monitor
<1>12. \A h \in Heights : summary[h] = IF h <= t THEN Row(On(h), On(h)) ELSE NoRow
  BY <1>1, <1>3, <1>4 DEF RowsOf, On
<1>13. NoRowAbove(b)
  BY <1>1, <1>4, <1>6, <1>12 DEF NoRowAbove, Collecting, Monitor
<1>14. History(b, t)
  <2>1. \A h \in t..tipHeight : h = t
    BY <1>4
  <2>2. PlaceOf(t) = 1
    BY <1>4 DEF PlaceOf
  <2>3. QED
    BY <1>4, <1>6, <1>7, <2>1, <2>2 DEF History, Monitor
<1>15. StoresAt(b, t)
  <2>1. webDone = t /\ ~WebPending /\ ~Pending("wired")
    BY <1>1, <1>5, <1>6 DEF webDone, WebPending, Collecting, Monitor
  <2>2. \A h \in 0..t : summary[h] = Row(On(h), On(h))
    <3>1. \A h \in 0..t : h \in Heights /\ h <= t
      BY <1>2, <1>4, HeightsBelow
    <3>2. QED
      BY <1>12, <3>1
  <2>3. QED
    BY <1>1, <1>7, <2>1, <2>2 DEF StoresAt
<1>16. Following(b, t, t)
  BY <1>1, <1>8, <1>9, <1>10, <1>11, <1>13, <1>14 DEF Following
<1>17. LooseAt(b, t)
  <2>1. webDone = t /\ ~WebPending /\ ~Pending("wired")
    BY <1>1, <1>5, <1>6 DEF webDone, WebPending, Collecting, Monitor
  <2>2. webBlock = On(Height(webBlock)) /\ Height(webBlock) = t
    BY <1>1, <1>3, <1>7
  <2>3. ASSUME NEW h \in Heights, summary[h] # NoRow PROVE summary[h].hash = On(h)
    <3>1. summary[h] = Row(On(h), On(h))
      BY <1>12, <2>3
    <3>2. QED
      BY <3>1 DEF Row
  <2>4. summary[t] = Row(On(t), On(t))
    BY <1>4, <1>12
  <2>5. QED
    BY <1>1, <1>4, <2>1, <2>2, <2>3, <2>4 DEF LooseAt
<1>18. QED
  BY <1>2, <1>15, <1>16, <1>17 DEF FollowInv

\* Every step keeps the invariant; a reorganization begins a new history.
LEMMA FollowStep ==
    ASSUME Followable, TypeOK, FollowInv, Next
    PROVE  FollowInv'
<1>1. PICK a \in Blocks, k \in Heights, t \in Heights :
         Following(a, k, t) /\ LooseAt(a, k) /\ ("steady" \in Quiet => StoresAt(a, k))
  BY DEF FollowInv
<1>2. CASE \E b \in Blocks, f \in Heights : NodeReorg(b, f)
  <2>1. PICK b \in Blocks, f \in Heights : NodeReorg(b, f)
    BY <1>2
  <2>2. PICK c \in Blocks : c = nodeTip
    BY TipIsBlock
  <2>3. PICK u \in Heights : u = Height(b)
    BY HeightOfBlock
  <2>4. Following(c, f, u)'
    BY <1>1, <2>1, <2>2, <2>3, ReorgStart
  <2>5. "steady" \in Quiet => StoresAt(c, f)'
    BY <1>1, <2>1, <2>2, <2>3, StoresReorg
  <2>6. LooseAt(c, f)'
    BY <1>1, <2>1, <2>2, <2>3, LooseReorg
  <2>7. QED
    BY <2>4, <2>5, <2>6 DEF FollowInv
<1>3. CASE \/ \E b \in Blocks : NodeExtend(b)
           \/ OnBlockConnected \/ OnReorganization
           \/ \E m \in Monitor : ReorgHandler(m)
  <2>1. Following(a, k, t)'
    BY <1>1, <1>3, ExtendStep, BlockStep, ReorganizationStep, HandlerStep
  <2>2. "steady" \in Quiet => StoresAt(a, k)'
    BY <1>1, <1>3, StoresOfOthers
  <2>3. LooseAt(a, k)'
    BY <1>1, <1>3, LooseOfOthers
  <2>4. QED
    BY <2>1, <2>2, <2>3 DEF FollowInv
<1>4. CASE ProcessBlocks
  <2>1. Following(a, k, t)'
    BY <1>1, <1>4, DequeueStep, StakeStep, BlockDataStep, CollectStep, StoreStep, WiredStep
    DEF ProcessBlocks
  <2>2. "steady" \in Quiet => StoresAt(a, k)'
    BY <1>1, <1>4, StoresBefore, StoresCollect, StoresStore, StoresWired DEF ProcessBlocks
  <2>3. LooseAt(a, k)'
    BY <1>1, <1>4, LooseBefore, LooseCollect, LooseStore, LooseWired DEF ProcessBlocks
  <2>4. QED
    BY <2>1, <2>2, <2>3 DEF FollowInv
<1>5. QED
  BY <1>2, <1>3, <1>4 DEF Next

\* Where the invariant speaks of nothing else, a step that changes nothing keeps it.
LEMMA FollowStutters ==
    ASSUME FollowInv, UNCHANGED vars
    PROVE  FollowInv'
<1>1. PICK a \in Blocks, k \in Heights, t \in Heights :
         Following(a, k, t) /\ LooseAt(a, k) /\ ("steady" \in Quiet => StoresAt(a, k))
  BY DEF FollowInv
<1>2. UNCHANGED <<tips, inFlight, queue, pc, cur, reorgChan, reorganizing, reorgData, sideChain,
                  bestNode, nodeMtxHeld, poolInfo, reorg, collected, summary, webBlock, panicked>>
  BY DEF vars
<1>3. /\ nodeTip' = nodeTip /\ tipHeight' = tipHeight /\ (\A h : On(h)' = On(h))
      /\ (ReorgSent' <=> ReorgSent) /\ flying' = flying /\ taken' = taken
  BY <1>2, TipsKept DEF ReorgSent, flying, taken
<1>4. \A m : /\ (Announced(m)' <=> Announced(m)) /\ (Pending(m)' <=> Pending(m))
             /\ Target(m)' = Target(m) /\ Done(m)' = Done(m)
  BY <1>2, <1>3 DEF Announced, Pending, Target, Done, Waiting
<1>5. (\A h : PlaceOf(h)' = PlaceOf(h)) /\ (Collecting' <=> Collecting)
  BY <1>2, <1>3 DEF PlaceOf, Collecting
<1>6. Pipeline' <=> Pipeline
  BY <1>2, <1>3 DEF Pipeline
<1>7. Announcement' <=> Announcement
  BY <1>2, <1>3, <1>4 DEF Announcement
<1>8. \A m \in Monitor : Phase(m, k, t)' <=> Phase(m, k, t)
  BY <1>2, <1>3, <1>4 DEF Phase, InReorg
<1>9. (Forked(a, k, t)' <=> Forked(a, k, t)) /\ (Turns(t)' <=> Turns(t))
  BY <1>2, <1>3, <1>4, <1>5 DEF Forked, Turns
<1>10. (StakeAt(a, k)' <=> StakeAt(a, k)) /\ (NoRowAbove(a)' <=> NoRowAbove(a))
  BY <1>2, <1>3, <1>4, <1>5 DEF StakeAt, NoRowAbove
<1>11. History(a, t)' <=> History(a, t)
  BY <1>2, <1>3, <1>4, <1>5 DEF History
<1>12. Following(a, k, t)'
  BY <1>1, <1>2, <1>6, <1>7, <1>8, <1>9, <1>10, <1>11 DEF Following
<1>13. "steady" \in Quiet => StoresAt(a, k)'
  BY <1>1, <1>2, <1>3, <1>4, <1>5 DEF StoresAt, webDone, WebPending
<1>14. LooseAt(a, k)'
  BY <1>1, <1>2, <1>3, <1>4, <1>5 DEF LooseAt, webDone, WebPending
<1>15. QED
  BY <1>12, <1>13, <1>14 DEF FollowInv

\* Whatever is under way, the stores are where their monitors are.
THEOREM FollowInvariant == Followable => (Spec => []FollowInv)
<1> SUFFICES ASSUME Followable PROVE Spec => []FollowInv
  OBVIOUS
<1>1. TypeOK /\ FollowInv /\ [Next]_vars => FollowInv'
  BY FollowStep, FollowStutters
<1>2. QED
  BY <1>1, FollowStart, TypeCorrect, PTL DEF Spec

-----------------------------------------------------------------------------
(***************************************************************************)
(* What follows for the program.                                           *)
(***************************************************************************)

\* No notification of such a node makes a monitor panic: not the switch to a side chain
\* (a common ancestor is there, the blocks fit) nor the check of the best row after it.
THEOREM NeverPanics == Followable => (Spec => []NoPanic)
<1> SUFFICES ASSUME Followable PROVE Spec => []NoPanic
  OBVIOUS
<1>1. FollowInv => NoPanic
  BY DEF FollowInv, Following, NoPanic
<1>2. QED
  BY <1>1, FollowInvariant, PTL

\* connectBlock never returns with nodeMtx locked, so no handler waits for it forever.
THEOREM NeverHangs == Followable => (Spec => []NeverHung)
<1> SUFFICES ASSUME Followable PROVE Spec => []NeverHung
  OBVIOUS
<1>1. FollowInv => NeverHung
  BY DEF FollowInv, Following, NeverHung
<1>2. QED
  BY <1>1, FollowInvariant, PTL

\* When everything has been handled the stake database is at the node's best block, and
\* every monitor is done with every reorganization.
THEOREM StakeAtTheTip == Followable => (Spec => []StakeFollowsNode)
<1> SUFFICES ASSUME Followable PROVE Spec => []StakeFollowsNode
  OBVIOUS
<1>1. TypeOK /\ FollowInv => StakeFollowsNode
  <2> SUFFICES ASSUME TypeOK, FollowInv, Drained
               PROVE  bestNode = nodeTip /\ \A m \in Monitor : ~reorganizing[m]
    BY DEF StakeFollowsNode
  <2>1. PICK a \in Blocks, k \in Heights, t \in Heights : Following(a, k, t)
    BY DEF FollowInv
  <2>2. \A m \in Monitor : ~Pending(m) /\ Done(m) = tipHeight
    BY <2>1, NothingPending
  <2>3. bestNode = On(tipHeight)
    BY <2>1, <2>2 DEF Following, StakeAt, Monitor
  <2>4. QED
    BY <2>2, <2>3, MainChain DEF Pending
<1>2. QED
  BY <1>1, FollowInvariant, TypeCorrect, PTL

\* The order of the monitors in ProcessBlocks is what the SQLite monitor relies on: when
\* it switches, the pool info of every block of the new chain is cached.
THEOREM PoolInfoIsReady == Followable => (Spec => []PoolInfoReady)
<1> SUFFICES ASSUME Followable PROVE Spec => []PoolInfoReady
  OBVIOUS
<1>1. TypeOK /\ FollowInv => PoolInfoReady
  <2> SUFFICES ASSUME TypeOK, FollowInv, pc = "wired", ReachesNewHead("wired"),
                      NEW i \in 1..Len(FullSideChain("wired"))
               PROVE  FullSideChain("wired")[i] \in poolInfo
    BY DEF PoolInfoReady, At
  <2>1. PICK a \in Blocks, k \in Heights, t \in Heights : Following(a, k, t)
    BY DEF FollowInv
  <2>2. pc # "idle" /\ "wired" \in Monitor /\ Waiting("wired") /\ "stakedb" \in Monitor
    BY DEF Monitor, Waiting
  <2>3. /\ Pending("wired") /\ taken = t /\ k < t /\ Len(FullSideChain("wired")) = t - k
        /\ \A j \in 1..(t - k) : FullSideChain("wired")[j] = On(k + j)
    BY <2>1, <2>2, WholeSideChain
  <2>4. k \in Nat /\ t \in Nat /\ Done("stakedb") = taken
    <3>1. ~Waiting("stakedb")
      BY DEF Waiting
    <3>2. QED
      BY <2>1, <2>2, <3>1, Handling
  <2>5. ~Pending("stakedb")
    <3>1. Pending("stakedb") => InReorg("stakedb", k, t)
      BY <2>1, <2>2 DEF Following, Phase
    <3>2. QED
      BY <2>3, <2>4, <3>1 DEF InReorg
  <2>6. \A h \in (k + 1)..taken : On(h) \in poolInfo
    BY <2>1, <2>3, <2>5 DEF Following, StakeAt
  <2>7. k + i \in (k + 1)..taken /\ i \in 1..(t - k)
    BY <2>3, <2>4
  <2>8. QED
    BY <2>3, <2>6, <2>7
<1>2. QED
  BY <1>1, FollowInvariant, TypeCorrect, PTL

\* When everything has been handled SQLite has the rows of the main chain, each with the
\* pool info of its own block, provided the best block stands still during a collection.
THEOREM RowsAreThose ==
    Followable /\ "steady" \in Quiet => (Spec => []RowsMatchNode)
<1> SUFFICES ASSUME Followable, "steady" \in Quiet PROVE Spec => []RowsMatchNode
  OBVIOUS
<1>1. TypeOK /\ FollowInv => RowsMatchNode
  <2> SUFFICES ASSUME TypeOK, FollowInv, Drained, NEW h \in 0..Height(nodeTip)
               PROVE  summary[h] = Row(Ancestor(nodeTip, h), Ancestor(nodeTip, h))
    BY DEF RowsMatchNode
  <2>1. PICK a \in Blocks, k \in Heights, t \in Heights : Following(a, k, t) /\ StoresAt(a, k)
    BY DEF FollowInv
  <2>2. taken = tipHeight /\ ~Pending("wired")
    BY <2>1, NothingPending DEF Monitor
  <2>3. webDone = tipHeight
    BY <2>2 DEF webDone, Drained, Collecting
  <2>4. QED
    BY <2>1, <2>2, <2>3 DEF StoresAt, On, tipHeight
<1>2. QED
  BY <1>1, FollowInvariant, TypeCorrect, PTL

\* When everything has been handled no row of SQLite is that of an abandoned chain, and the
\* best row is the best block's with its own pool info (DBDataSaver.Store stores what was
\* collected, switchToSideChain the blocks of the new chain).
NoStaleRow ==
    Drained =>
        /\ \A h \in Heights : summary[h] # NoRow =>
               h <= Height(nodeTip) /\ summary[h].hash = Ancestor(nodeTip, h)
        /\ summary[Height(nodeTip)] = Row(nodeTip, nodeTip)

\* When everything has been handled the web pages show the node's best block
\* (explorerUI.Store is given what was collected, also after a reorganization).
WebShowsTip == Drained => webBlock = nodeTip

\* When everything has been handled no row of SQLite is one of an abandoned chain, and the
\* best row is the best block's, with its own pool info, even where the best block moves
\* during a collection.
THEOREM NoRowIsStale == Followable => (Spec => []NoStaleRow)
<1> SUFFICES ASSUME Followable PROVE Spec => []NoStaleRow
  OBVIOUS
<1>1. TypeOK /\ FollowInv => NoStaleRow
  <2> SUFFICES ASSUME TypeOK, FollowInv, Drained
               PROVE  /\ \A h \in Heights : summary[h] # NoRow =>
                             h <= Height(nodeTip) /\ summary[h].hash = Ancestor(nodeTip, h)
                      /\ summary[Height(nodeTip)] = Row(nodeTip, nodeTip)
    BY DEF NoStaleRow
  <2>1. PICK a \in Blocks, k \in Heights, t \in Heights : Following(a, k, t) /\ LooseAt(a, k)
    BY DEF FollowInv
  <2>2. taken = tipHeight /\ ~Pending("wired") /\ ~Pending("blockdata")
    BY <2>1, NothingPending DEF Monitor
  <2>3. webDone = tipHeight /\ ~WebPending
    BY <2>2 DEF webDone, WebPending, Drained, Collecting
  <2>4. \A h \in Heights : summary[h] # NoRow => h <= tipHeight /\ summary[h].hash = On(h)
    BY <2>1, <2>2 DEF Following, NoRowAbove, LooseAt
  <2>5. Height(webBlock) = tipHeight
    BY <2>1, <2>3, PlaceTypes, HeightOfBlock DEF LooseAt, TypeOK
  <2>6. summary[tipHeight] = Row(nodeTip, nodeTip)
    BY <2>1, <2>2, <2>3, <2>5, MainChain DEF LooseAt
  <2>7. QED
    BY <2>4, <2>6 DEF On, tipHeight
<1>2. QED
  BY <1>1, FollowInvariant, TypeCorrect, PTL

\* When everything has been handled the web pages show the node's best block, whenever it
\* moved and through every reorganization.
THEOREM WebAtTheTip == Followable => (Spec => []WebShowsTip)
<1> SUFFICES ASSUME Followable PROVE Spec => []WebShowsTip
  OBVIOUS
<1>1. TypeOK /\ FollowInv => WebShowsTip
  <2> SUFFICES ASSUME TypeOK, FollowInv, Drained PROVE webBlock = nodeTip
    BY DEF WebShowsTip
  <2>1. PICK a \in Blocks, k \in Heights, t \in Heights : Following(a, k, t) /\ LooseAt(a, k)
    BY DEF FollowInv
  <2>2. taken = tipHeight /\ ~Pending("wired") /\ ~Pending("blockdata")
    BY <2>1, NothingPending DEF Monitor
  <2>3. webDone = tipHeight /\ ~WebPending
    BY <2>2 DEF webDone, WebPending, Drained, Collecting
  <2>4. Height(webBlock) = tipHeight /\ webBlock = On(Height(webBlock))
    BY <2>1, <2>3, PlaceTypes, HeightOfBlock DEF LooseAt, TypeOK
  <2>5. QED
    BY <2>4, MainChain
<1>2. QED
  BY <1>1, FollowInvariant, TypeCorrect, PTL

-----------------------------------------------------------------------------
(***************************************************************************)
(* The stake database and the web pages implement TipFollower.             *)
(***************************************************************************)

\* A step of the node is one of the node of TipFollower.
LEMMA NodeMoves ==
    ASSUME TypeOK, Next, tips' # tips
    PROVE  \E b \in Blocks : tips' = Append(tips, b) /\ UNCHANGED <<bestNode, webBlock>>
<1>1. \/ \E b \in Blocks : NodeExtend(b)
      \/ \E b \in Blocks, k \in Heights : NodeReorg(b, k)
  BY DEF Next, ProcessBlocks, OnBlockConnected, OnReorganization, ReorgHandler, Dequeue,
         StakeDBBlock, BlockDataBlock, CollectHash, Collect, Store, WiredBlock, nodeVars
<1>2. QED
  BY <1>1 DEF NodeExtend, NodeReorg, stakeVars, storeVars

\* Before the block being handled the SQLite monitor is at the block before it, or, if that
\* block is the new head, at the old best block: in either case the node's best block
\* before the one being handled.
LEMMA BestBefore ==
    ASSUME TypeOK, NEW a \in Blocks, NEW k \in Heights, NEW t \in Heights,
           Following(a, k, t), pc # "idle", Pending("wired") => taken = t
    PROVE  \E i \in 1..(Len(tips) - 1) :
              /\ tips[i] = IF Pending("wired") THEN a ELSE On(taken - 1)
              /\ tips[i + 1] = cur
<1>1. History(a, t) /\ Len(tips) \in Nat \ {0}
  BY PlaceTypes DEF Following
<1>2. /\ taken \in Nat /\ 0 < taken /\ taken <= tipHeight /\ tipHeight \in Nat
      /\ cur = On(taken)
  BY Handling
<1>3. PlaceOf(taken) \in Int /\ PlaceOf(taken) <= Len(tips)
      /\ PlaceOf(taken - 1) = PlaceOf(taken) - 1
  BY <1>1, <1>2 DEF PlaceOf
<1>4. CASE Pending("wired")
  <2>1. taken = t /\ taken \in t..tipHeight
    BY <1>2, <1>4
  <2>2. PlaceOf(taken) >= 2 /\ tips[PlaceOf(taken) - 1] = a /\ tips[PlaceOf(taken)] = On(taken)
    BY <1>1, <1>4, <2>1 DEF History
  <2>3. PICK i \in 1..(Len(tips) - 1) : i = PlaceOf(taken) - 1
    BY <1>1, <1>3, <2>2
  <2>4. i + 1 = PlaceOf(taken)
    BY <1>3, <2>3
  <2>5. QED
    BY <1>2, <1>4, <2>2, <2>3, <2>4
<1>5. CASE ~Pending("wired")
  <2>1. Done("wired") = taken - 1
    BY <1>2 DEF Done, Waiting
  <2>2. taken \in (taken - 1)..tipHeight /\ taken - 1 \in (taken - 1)..tipHeight
    BY <1>2
  <2>3. /\ PlaceOf(taken - 1) >= 1 /\ tips[PlaceOf(taken - 1)] = On(taken - 1)
        /\ tips[PlaceOf(taken)] = On(taken)
    BY <1>1, <1>5, <2>1, <2>2 DEF History
  <2>4. PICK i \in 1..(Len(tips) - 1) : i = PlaceOf(taken - 1)
    BY <1>1, <1>3, <2>3
  <2>5. i + 1 = PlaceOf(taken)
    BY <1>3, <2>4
  <2>6. QED
    BY <1>2, <1>5, <2>3, <2>4, <2>5
<1>6. QED
  BY <1>4, <1>5

\* The stake database takes one step of the node's at a time: a block, or a whole
\* reorganization.
LEMMA StakeFollows ==
    ASSUME Followable, TypeOK, FollowInv, Next
    PROVE  StakeFollower!Next \/ UNCHANGED <<tips, bestNode>>
<1>1. PICK a \in Blocks, k \in Heights, t \in Heights : Following(a, k, t)
  BY DEF FollowInv
<1>2. CASE tips' # tips
  BY <1>2, NodeMoves DEF StakeFollower!Next, StakeFollower!Move
<1>3. CASE tips' = tips /\ bestNode' # bestNode
  <2>1. StakeDBBlock
    BY <1>3 DEF Next, ProcessBlocks, NodeExtend, NodeReorg, OnBlockConnected, OnReorganization,
                ReorgHandler, Dequeue, BlockDataBlock, CollectHash, Collect, Store, WiredBlock,
                stakeVars
  <2>2. /\ pc = "stakedb" /\ bestNode' = cur
        /\ ReachesNewHead("stakedb") \/ ~reorganizing["stakedb"]
    BY <1>1, <1>3, <2>1, StakeMoves
  <2>3. pc # "idle" /\ "stakedb" \in Monitor /\ Waiting("stakedb")
    BY <2>2 DEF Monitor, Waiting
  <2>4. /\ (Pending("stakedb") <=> reorganizing["stakedb"])
        /\ Done("stakedb") = taken - 1
    BY <1>1, <2>3, Handling
  <2>5. /\ Pending("stakedb") => Pending("wired") /\ taken = t
        /\ ~Pending("stakedb") => ~Pending("wired")
    <3>1. /\ Pending("stakedb") => Pending("wired")
          /\ ~Pending("stakedb") => ~Pending("wired")
      BY <1>1, <2>2 DEF Following, Turns
    <3>2. Pending("stakedb") => taken = t
      BY <1>1, <2>2, <2>3, <2>4, WholeSideChain
    <3>3. QED
      BY <3>1, <3>2
  <2>6. bestNode = IF Pending("wired") THEN a ELSE On(taken - 1)
    BY <1>1, <2>4, <2>5 DEF Following, StakeAt
  <2>7. PICK i \in 1..(Len(tips) - 1) : tips[i] = bestNode /\ tips[i + 1] = cur
    BY <1>1, <2>3, <2>5, <2>6, BestBefore
  <2>8. StakeFollower!Follow(i)
    BY <1>3, <2>2, <2>7 DEF StakeFollower!Follow
  <2>9. QED
    BY <2>8 DEF StakeFollower!Next
<1>4. QED
  BY <1>2, <1>3

\* The stake database connects the node's best blocks in the order in which the node had
\* them, a reorganization in one step: ChainFollow implements TipFollower.
THEOREM StakeImplementsFollower == Followable => (Spec => StakeFollowsTips)
<1> SUFFICES ASSUME Followable PROVE Spec => StakeFollowsTips
  OBVIOUS
<1>1. Init => StakeFollower!Init
  BY StartAssumption DEF Init, StakeFollower!Init
<1>2. TypeOK /\ FollowInv /\ [Next]_vars => [StakeFollower!Next]_<<tips, bestNode>>
  BY StakeFollows DEF vars
<1>3. QED
  BY <1>1, <1>2, TypeCorrect, FollowInvariant, PTL DEF Spec, StakeFollowsTips, StakeFollower!Spec

\* So do the web pages, of the blocks that are collected: what they show is the block
\* being handled.
LEMMA WebFollows ==
    ASSUME Followable, "steady" \in Quiet, TypeOK, FollowInv, Next
    PROVE  WebFollower!Next \/ UNCHANGED <<tips, webBlock>>
<1>1. PICK a \in Blocks, k \in Heights, t \in Heights : Following(a, k, t) /\ StoresAt(a, k)
  BY DEF FollowInv
<1>2. CASE tips' # tips
  BY <1>2, NodeMoves DEF WebFollower!Next, WebFollower!Move
<1>3. CASE tips' = tips /\ webBlock' # webBlock
  <2>1. Store
    BY <1>3 DEF Next, ProcessBlocks, NodeExtend, NodeReorg, OnBlockConnected, OnReorganization,
                ReorgHandler, Dequeue, BlockDataBlock, CollectHash, Collect, StakeDBBlock,
                WiredBlock, storeVars
  <2>2. pc = "store" /\ pc # "idle" /\ Collecting /\ webBlock' = cur
    BY <1>1, <2>1 DEF Store, At, Collecting, StoresAt
  <2>3. ~Pending("blockdata") /\ (Pending("wired") => taken = t)
    BY <1>1, <2>2 DEF Following, Turns
  <2>4. webBlock = IF Pending("wired") THEN a ELSE On(taken - 1)
    BY <1>1, <2>2, <2>3 DEF StoresAt, WebPending, webDone
  <2>5. PICK i \in 1..(Len(tips) - 1) : tips[i] = webBlock /\ tips[i + 1] = cur
    BY <1>1, <2>2, <2>3, <2>4, BestBefore
  <2>6. WebFollower!Follow(i)
    BY <1>3, <2>2, <2>5 DEF WebFollower!Follow
  <2>7. QED
    BY <2>6 DEF WebFollower!Next
<1>4. QED
  BY <1>2, <1>3

\* The web pages show the node's best blocks in the order in which the node had them, a
\* reorganization in one step, provided the best block stands still during a collection.
THEOREM WebImplementsFollower ==
    Followable /\ "steady" \in Quiet => (Spec => WebFollowsTips)
<1> SUFFICES ASSUME Followable, "steady" \in Quiet PROVE Spec => WebFollowsTips
  OBVIOUS
<1>1. Init => WebFollower!Init
  BY StartAssumption DEF Init, WebFollower!Init
<1>2. TypeOK /\ FollowInv /\ [Next]_vars => [WebFollower!Next]_<<tips, webBlock>>
  BY WebFollows DEF vars
<1>3. QED
  BY <1>1, <1>2, TypeCorrect, FollowInvariant, PTL DEF Spec, WebFollowsTips, WebFollower!Spec
=============================================================================
