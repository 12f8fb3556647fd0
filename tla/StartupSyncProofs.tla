------------------------- MODULE StartupSyncProofs -------------------------
(***************************************************************************)
(* Proofs about StartupSync: for any block tree, any number of starts,     *)
(* stops and moves of the node, with or without PostgreSQL.                *)
(***************************************************************************)
EXTENDS StartupSync, SequenceTheorems, TLAPS

-----------------------------------------------------------------------------
(***************************************************************************)
(* Blocks and their ancestors.                                             *)
(***************************************************************************)

\* A block's ancestors are blocks, the block itself and the genesis among them.
LEMMA AncestorIsBlock ==
    ASSUME NEW b \in Blocks, NEW h \in 0..Height(b)
    PROVE  Ancestor(b, h) \in Blocks
BY BlocksAssumption DEF Ancestor, Height

\* A block's height is a natural number, and one of the heights of the tables.
LEMMA HeightOfBlock ==
    ASSUME NEW b \in Blocks
    PROVE  Height(b) \in Nat /\ Height(b) \in Heights
BY BlocksAssumption DEF Height, Heights

\* The ancestor at a height has that height, and its own ancestors are the block's.
LEMMA Ancestors ==
    ASSUME NEW b \in Blocks, NEW h \in 0..Height(b)
    PROVE  /\ Ancestor(b, h) \in Blocks /\ Height(Ancestor(b, h)) = h
           /\ \A g \in 0..h : Ancestor(Ancestor(b, h), g) = Ancestor(b, g)
           /\ h > 0 => Parent(Ancestor(b, h)) = Ancestor(b, h - 1)
<1>1. b \in Seq(Nat) /\ Len(b) \in Nat /\ h \in 0..Len(b) /\ h \in Nat
  BY BlocksAssumption DEF Height
<1>2. ASSUME NEW g \in 0..Len(b)
      PROVE  /\ SubSeq(b, 1, g) \in Seq(Nat) /\ Len(SubSeq(b, 1, g)) = g
             /\ \A i \in 1..g : SubSeq(b, 1, g)[i] = b[i]
  BY <1>1
<1>3. ASSUME NEW g \in 0..h PROVE SubSeq(SubSeq(b, 1, h), 1, g) = SubSeq(b, 1, g)
  <2> DEFINE c == SubSeq(b, 1, h)
  <2>1. c \in Seq(Nat) /\ Len(c) = h /\ \A i \in 1..h : c[i] = b[i]
    BY <1>1, <1>2
  <2> HIDE DEF c
  <2>2. /\ SubSeq(c, 1, g) \in Seq(Nat) /\ Len(SubSeq(c, 1, g)) = g
        /\ \A i \in 1..g : SubSeq(c, 1, g)[i] = c[i]
    BY <1>1, <2>1
  <2>3. SubSeq(c, 1, g) = SubSeq(b, 1, g)
    BY <1>1, <1>2, <2>1, <2>2, SeqEqual
  <2>4. QED
    BY <2>3 DEF c
<1>4. Ancestor(b, h) \in Blocks /\ Height(Ancestor(b, h)) = h
  BY <1>1, <1>2, AncestorIsBlock DEF Ancestor, Height
<1>5. h > 0 => h - 1 \in 0..h
  BY <1>1
<1>6. QED
  BY <1>3, <1>4, <1>5 DEF Ancestor, Parent

\* The heights of the tables are natural numbers, and so are those below them.
LEMMA HeightsAreNat ==
    /\ Heights \subseteq Nat
    /\ \A h \in HeightsFrom(-1) : h \in Int /\ h >= -1
<1>1. Heights \subseteq Nat
  BY HeightOfBlock DEF Heights
<1>2. QED
  BY <1>1 DEF HeightsFrom

\* There is a block, and so a row, at every height below a block.
LEMMA HeightsBelow ==
    ASSUME NEW h \in Heights, NEW g \in 0..h
    PROVE  g \in Heights
<1>1. PICK b \in Blocks : h = Height(b)
  BY DEF Heights
<1>2. QED
  BY <1>1, Ancestors, HeightOfBlock

\* A block is its own ancestor.
LEMMA OwnAncestor ==
    ASSUME NEW b \in Blocks
    PROVE  Ancestor(b, Height(b)) = b
<1>1. b \in Seq(Nat) /\ Len(b) \in Nat
  BY BlocksAssumption
<1>2. SubSeq(b, 1, Len(b)) \in Seq(Nat) /\ Len(SubSeq(b, 1, Len(b))) = Len(b)
      /\ \A i \in 1..Len(b) : SubSeq(b, 1, Len(b))[i] = b[i]
  BY <1>1
<1>3. QED
  BY <1>1, <1>2, SeqEqual DEF Ancestor, Height

\* A child is one block higher, and has the ancestors of its parent.
LEMMA Children ==
    ASSUME NEW b \in Blocks, NEW a \in Blocks, IsChild(b, a)
    PROVE  /\ Height(b) = Height(a) + 1
           /\ \A h \in 0..Height(a) : Ancestor(b, h) = Ancestor(a, h)
<1>1. Height(b) \in Nat /\ Height(a) \in Nat
  BY HeightOfBlock
<1>2. Height(b) # 0
  <2>1. b \in Seq(Nat) /\ b # <<>>
    BY BlocksAssumption DEF IsChild
  <2>2. QED
    BY <2>1 DEF Height
<1>3. Height(b) - 1 \in 0..Height(b) /\ a = Ancestor(b, Height(b) - 1)
  BY <1>1, <1>2 DEF IsChild, Parent
<1>4. QED
  BY <1>1, <1>3, Ancestors

-----------------------------------------------------------------------------
(***************************************************************************)
(* Tables.                                                                 *)
(***************************************************************************)
Table == [Heights -> RowType]
Rowed == [hash : Blocks, pool : Blocks]

\* Table t has a row at every height up to n, and no other.
Filled(t, n) == \A h \in Heights : (t[h] # NoRow) <=> (h <= n)
Whole(t) == Top(t) \in HeightsFrom(-1) /\ Filled(t, Top(t))

\* No row is not a row.
LEMMA NoRowIsNone == \A r \in Rowed : r # NoRow
BY DEF Rowed, NoRow

\* The greatest number of a set, and the least, whatever they are chosen from.
LEMMA MaxIs ==
    ASSUME NEW S \in SUBSET Int, NEW m \in S, \A x \in S : x <= m
    PROVE  Max(S) = m
<1> DEFINE Greatest(x) == \A y \in S : x >= y
<1>1. m \in S /\ Greatest(m)
  OBVIOUS
<1>2. ASSUME NEW x \in S, Greatest(x) PROVE x = m
  BY <1>2
<1>3. Max(S) = CHOOSE x \in S : Greatest(x)
  BY DEF Max
<1> HIDE DEF Greatest
<1>4. QED
  BY <1>1, <1>2, <1>3

\* The least of three numbers is one of them and not above any.
LEMMA LeastOfThree ==
    ASSUME NEW a \in Int, NEW b \in Int, NEW c \in Int
    PROVE  LET m == Min({a, b} \union {c})
           IN m \in {a, b, c} /\ m <= a /\ m <= b /\ m <= c
<1> DEFINE S == {a, b} \union {c}
           Least(x) == \A y \in S : x <= y
<1>1. \E x \in S : Least(x)
  <2>1. CASE a <= b /\ a <= c
    BY <2>1
  <2>2. CASE b <= a /\ b <= c
    BY <2>2
  <2>3. CASE c <= a /\ c <= b
    BY <2>3
  <2>4. QED
    BY <2>1, <2>2, <2>3
<1>2. Min(S) = CHOOSE x \in S : Least(x)
  BY DEF Min
<1>3. Min(S) \in S /\ Least(Min(S))
  <2> HIDE DEF Least
  <2>1. QED
    BY <1>1, <1>2
<1>4. QED
  BY <1>3

\* The last row of a table without holes.
LEMMA TopOfFilled ==
    ASSUME NEW t, NEW n \in HeightsFrom(-1), Filled(t, n)
    PROVE  Top(t) = n /\ Whole(t)
<1> DEFINE S == {h \in Heights : t[h] # NoRow} \union {-1}
<1>1. S \subseteq Int /\ n \in Int
  BY HeightsAreNat DEF HeightsFrom
<1>2. n \in S
  <2>1. CASE n = -1
    BY <2>1
  <2>2. CASE n \in Heights
    BY <2>2, <1>1 DEF Filled
  <2>3. QED
    BY <2>1, <2>2 DEF HeightsFrom
<1>3. \A x \in S : x <= n
  <2>1. n >= -1
    BY HeightsAreNat DEF HeightsFrom
  <2>2. QED
    BY <2>1, <1>1 DEF Filled
<1>4. Max(S) = n
  <2> HIDE DEF S
  <2>1. QED
    BY <1>1, <1>2, <1>3, MaxIs
<1>5. Top(t) = n
  BY <1>4 DEF Top
<1>6. QED
  BY <1>5 DEF Whole

\* The last row of a table without holes is at a height, or there is none.
LEMMA TopIsInt ==
    ASSUME NEW t, Whole(t)
    PROVE  Top(t) \in Int /\ Top(t) >= -1
BY HeightsAreNat DEF Whole, HeightsFrom

\* A row at most one above the last one leaves no hole.
LEMMA RowAdded ==
    ASSUME NEW t \in Table, Whole(t), NEW h \in Heights, h <= Top(t) + 1, NEW r \in Rowed
    PROVE  LET u == [t EXCEPT ![h] = r]
           IN /\ u \in Table /\ Whole(u)
              /\ Top(u) = IF h = Top(t) + 1 THEN h ELSE Top(t)
              /\ u[h] = r /\ \A g \in Heights : g # h => u[g] = t[g]
<1> DEFINE u == [t EXCEPT ![h] = r]
           n == IF h = Top(t) + 1 THEN h ELSE Top(t)
<1>1. u \in Table /\ u[h] = r /\ \A g \in Heights : g # h => u[g] = t[g]
  BY DEF Table, RowType, Rowed
<1>2. r # NoRow
  BY NoRowIsNone
<1>3. n \in HeightsFrom(-1) /\ Top(t) \in Int /\ h \in Int
  BY HeightsAreNat, TopIsInt DEF Whole, HeightsFrom
<1>4. ASSUME NEW g \in Heights PROVE (u[g] # NoRow) <=> (g <= n)
  <2>1. g \in Int /\ ((t[g] # NoRow) <=> (g <= Top(t)))
    BY HeightsAreNat DEF Whole, Filled
  <2> HIDE DEF u
  <2>2. CASE g = h
    BY <2>2, <1>1, <1>2, <1>3
  <2>3. CASE g # h
    BY <2>1, <2>3, <1>1, <1>3
  <2>4. QED
    BY <2>2, <2>3
<1>5. Filled(u, n)
  BY <1>4 DEF Filled
<1> HIDE DEF u, n
<1>6. Top(u) = n /\ Whole(u)
  BY <1>3, <1>5, TopOfFilled
<1>7. QED
  BY <1>1, <1>6 DEF u, n

-----------------------------------------------------------------------------
(***************************************************************************)
(* The inductive invariant.  A table without holes is as good as the       *)
(* height of its last row, and all that is written continues the table: in *)
(* the synchronization because it starts below the ends of both tables and *)
(* the stake database, and while the program runs because a block is only  *)
(* stored when the stake database has connected it, which is never above   *)
(* both tables.                                                            *)
(***************************************************************************)
stakeHeight == Height(stakeTip)
tipHeight == Height(nodeTip)
On(h) == Ancestor(nodeTip, h)

\* Both tables reach height n.
Reach(n) == n <= Top(summary) /\ n <= Top(stakeInfo)

\* The synchronization of SQLite has chosen where to start.
Begun == sq.pc \notin {"start", "failed"}

SqPlace ==
    /\ Reach(sq.done) /\ sq.summaryTop <= Top(summary) /\ sq.infoTop <= Top(stakeInfo)
    /\ sq.target \in 0..tipHeight
    /\ sq.pc = "rewind" => sq.done <= stakeHeight
    /\ sq.pc \in {"connect", "end"} => stakeHeight = IF sq.done < 0 THEN 0 ELSE sq.done
    /\ sq.pc = "end" => sq.target <= sq.done
    /\ sq.pc \in {"summary", "info"} =>
          stakeTip = sq.block /\ stakeHeight = sq.done + 1 /\ sq.done < sq.target
    /\ sq.pc = "info" => stakeHeight <= Top(summary)

PqPlace ==
    /\ pq.target \in 0..tipHeight
    /\ pq.pc = "end" => pq.target <= pq.done

\* PostgreSQL has a block of the greatest height, or none at all.
PgGreatest(n) ==
    n \in {Height(b) : b \in pgBlocks} \union {-1} /\ \A b \in pgBlocks : Height(b) <= n
PgBounded == \E n \in HeightsFrom(-1) : PgGreatest(n)

InSync ==
    /\ main \in {"sync", "synced"} => todo = <<>> /\ ~stuck
    /\ main = "sync" => (Begun => SqPlace) /\ (pq.pc # "start" => PqPlace)
    /\ main = "synced" => Reach(stakeHeight)

\* What is left to write for a block that has been connected.
AfterConnect(b) ==
    (IF UsePG THEN Write("pg", b) ELSE <<>>) \o Write("summary", b) \o Write("info", b)

\* The i-th write of a reorganization to the node's best block from height k.
ReorgWrite(k, i) ==
    LET n == tipHeight - k
    IN  IF i = 1 THEN [op |-> "rewind", block |-> On(k)]
        ELSE IF i <= n + 1 THEN [op |-> "connect", block |-> On(k + (i - 1))]
        ELSE [op |-> IF (i - n - 1) % 2 = 1 THEN "summary" ELSE "info",
              block |-> On(k + (i - n) \div 2)]

\* While the program runs: nothing is to be written; the best block is to be connected;
\* it has been, and is to be written to PostgreSQL, to the one table, to the other.
Resting == todo = <<>> /\ Reach(stakeHeight)
AtConnect == todo = Write("connect", nodeTip) \o AfterConnect(nodeTip) /\ Reach(stakeHeight)
Connected == stakeTip = nodeTip /\ Reach(tipHeight - 1)
AtPg == UsePG /\ todo = AfterConnect(nodeTip) /\ Connected
AtSummary == todo = Write("summary", nodeTip) \o Write("info", nodeTip) /\ Connected
AtInfo == todo = Write("info", nodeTip) /\ Connected /\ tipHeight <= Top(summary)

\* The first m writes of a reorganization have been done: where that leaves the stores,
\* and what is left to do.
ReorgPlace(k, m) ==
    LET n == tipHeight - k
    IN  /\ m <= 1 => Reach(stakeHeight)
        /\ m = 1 => stakeHeight <= k
        /\ m > 1 /\ m <= n + 1 => stakeHeight = k + m - 1 /\ Reach(k)
        /\ m > n + 1 => /\ stakeHeight = tipHeight
                        /\ k + (m - n) \div 2 <= Top(summary)
                        /\ k + (m - n - 1) \div 2 <= Top(stakeInfo)

AtReorg(k, m) ==
    LET n == tipHeight - k
    IN  /\ k < tipHeight /\ m < 3 * n + 1
        /\ Len(todo) = 3 * n + 1 - m
        /\ \A i \in 1..Len(todo) : todo[i] = ReorgWrite(k, m + i)
        /\ ReorgPlace(k, m)

InReorg == reorgs > 0 /\ \E k \in Heights, m \in Nat : AtReorg(k, m)

InRun ==
    main = "run" =>
        IF stuck THEN todo = <<>>
        ELSE Resting \/ AtConnect \/ AtPg \/ AtSummary \/ AtInfo \/ InReorg

\* As long as the chain only grows, each row of t is that of a block of the chain, with
\* the block's own pool info, and PostgreSQL has the blocks up to a height.
OwnRow(b) == [hash |-> b, pool |-> b]
OnChain(t) ==
    /\ Top(t) <= tipHeight
    /\ \A h \in Heights : t[h] # NoRow => t[h] = OwnRow(On(h))

PgUpTo(n) == pgBlocks = {On(h) : h \in 0..n}

DiskStraight ==
    /\ stakeHeight <= tipHeight /\ stakeTip = On(stakeHeight)
    /\ OnChain(summary) /\ OnChain(stakeInfo)
    /\ \E n \in -1..tipHeight : PgUpTo(n)

\* The heights of the stores.
Level(s, i, p) == Top(summary) = s /\ Top(stakeInfo) = i /\ (UsePG => PgUpTo(p))

SyncStraight ==
    /\ Begun => /\ Top(summary) <= sq.target /\ Top(stakeInfo) <= sq.target
                /\ sq.done <= sq.target
    /\ pq.pc # "start" => pq.done <= pq.target /\ PgUpTo(pq.done)

RunStraight ==
    ~stuck =>
        /\ Resting \/ AtConnect => Level(stakeHeight, stakeHeight, stakeHeight)
        /\ AtPg => Level(tipHeight - 1, tipHeight - 1, tipHeight - 1)
        /\ AtSummary => Level(tipHeight - 1, tipHeight - 1, tipHeight)
        /\ AtInfo => Level(tipHeight, tipHeight - 1, tipHeight)

Straight ==
    /\ DiskStraight
    /\ main = "sync" => SyncStraight
    /\ main = "synced" => Level(stakeHeight, stakeHeight, stakeHeight)
    /\ main = "run" => RunStraight

\* If it does so only when it is noticed, the stores are there when it does.
Noticed ==
    /\ ~stuck
    /\ main = "sync" /\ Unnoticed => sq.target = tipHeight
    /\ main = "synced" => stakeTip = nodeTip
    /\ main = "run" => /\ Resting => stakeTip = nodeTip
                       /\ AtConnect => IsChild(nodeTip, stakeTip)

SyncInv ==
    /\ TypeOK /\ Whole(summary) /\ Whole(stakeInfo) /\ PgBounded
    /\ InSync /\ InRun
    /\ reorgs = 0 => Straight
    /\ reorgs = 0 /\ ~MayMoveInGap => Noticed

-----------------------------------------------------------------------------
(***************************************************************************)
(* Places in the stores.                                                   *)
(***************************************************************************)

\* The main chain: its heights, its blocks, and their order.
LEMMA MainChain ==
    ASSUME TypeOK
    PROVE  /\ nodeTip \in Blocks /\ tipHeight \in Nat /\ tipHeight \in Heights
           /\ \A h \in 0..tipHeight : /\ On(h) \in Blocks /\ Height(On(h)) = h
                                      /\ h \in Heights
           /\ On(tipHeight) = nodeTip
BY HeightOfBlock, HeightsBelow, Ancestors, OwnAncestor DEF TypeOK, tipHeight, On

\* The stake database is at a height, the genesis block or one with a parent.
LEMMA StakePlace ==
    ASSUME TypeOK
    PROVE  /\ stakeTip \in Blocks /\ stakeHeight \in Nat /\ stakeHeight \in Heights
           /\ (stakeHeight = 0) <=> (stakeTip = <<>>)
           /\ stakeTip # <<>> => /\ Parent(stakeTip) \in Blocks
                                 /\ Height(Parent(stakeTip)) = stakeHeight - 1
<1>1. stakeTip \in Blocks /\ stakeHeight \in Nat /\ stakeHeight \in Heights
  BY HeightOfBlock DEF TypeOK, stakeHeight
<1>2. (stakeHeight = 0) <=> (stakeTip = <<>>)
  BY <1>1, BlocksAssumption DEF stakeHeight, Height
<1>3. ASSUME stakeTip # <<>>
      PROVE  Parent(stakeTip) \in Blocks /\ Height(Parent(stakeTip)) = stakeHeight - 1
  <2>1. stakeHeight - 1 \in 0..Height(stakeTip)
    BY <1>1, <1>2, <1>3 DEF stakeHeight
  <2>2. QED
    BY <1>1, <2>1, Ancestors DEF Parent, stakeHeight
<1>4. QED
  BY <1>1, <1>2, <1>3

\* The tables' last rows.
LEMMA TablePlaces ==
    ASSUME SyncInv
    PROVE  /\ summary \in Table /\ stakeInfo \in Table
           /\ Top(summary) \in HeightsFrom(-1) /\ Top(stakeInfo) \in HeightsFrom(-1)
           /\ Top(summary) \in Int /\ Top(stakeInfo) \in Int
           /\ Top(summary) >= -1 /\ Top(stakeInfo) >= -1
BY TopIsInt DEF SyncInv, TypeOK, Table, Whole

\* A row for a block is a row of its own if the stake database is at that block.
LEMMA RowOf ==
    ASSUME TypeOK, NEW b \in Blocks
    PROVE  Row(b) \in Rowed /\ (stakeTip = b => Row(b) = OwnRow(b))
BY DEF TypeOK, Row, Rowed, OwnRow

\* The locals of the two synchronizations are heights, or -1.
LEMMA LocalTypes ==
    ASSUME TypeOK
    PROVE  /\ sq.done \in Int /\ sq.done >= -1 /\ sq.target \in Int
           /\ sq.summaryTop \in Int /\ sq.infoTop \in Int /\ sq.block \in Blocks
           /\ pq.done \in Int /\ pq.done >= -1 /\ pq.target \in Int
BY HeightsAreNat DEF TypeOK

\* A block that is dealt with next is one of the main chain.
LEMMA NextIsOn ==
    ASSUME TypeOK, NEW n \in Int, n >= -1, n < tipHeight
    PROVE  /\ n + 1 \in 0..tipHeight /\ n + 1 \in Heights /\ n + 1 \in HeightsFrom(-1)
           /\ Ancestor(nodeTip, n + 1) = On(n + 1)
           /\ On(n + 1) \in Blocks /\ Height(On(n + 1)) = n + 1
<1>1. n + 1 \in 0..tipHeight
  BY MainChain
<1>2. QED
  BY <1>1, MainChain DEF On, HeightsFrom

-----------------------------------------------------------------------------
(***************************************************************************)
(* The first start.                                                        *)
(***************************************************************************)
\* Before the first start the stake database is at the genesis block, the tables are empty.
LEMMA SyncStart == Init => SyncInv
<1> SUFFICES ASSUME Init PROVE SyncInv
  OBVIOUS
<1>1. nodeTip \in Blocks
  BY SyncStartAssumption DEF Init
<1>2. <<>> \in Blocks /\ Height(<<>>) = 0 /\ Ancestor(nodeTip, 0) = <<>>
  <2>1. nodeTip \in Seq(Nat) /\ 0 \in 0..Len(nodeTip)
    BY <1>1, BlocksAssumption
  <2>2. SubSeq(nodeTip, 1, 0) \in Blocks /\ SubSeq(nodeTip, 1, 0) = <<>>
    BY <1>1, <2>1, BlocksAssumption
  <2>3. QED
    BY <2>2 DEF Ancestor, Height
<1>3. TypeOK
  <2>1. EmptyTable \in [Heights -> RowType]
    BY DEF EmptyTable, RowType
  <2>2. -1 \in HeightsFrom(-1)
    BY DEF HeightsFrom
  <2>3. /\ sq \in [pc : {"start", "rewind", "connect", "summary", "info", "end", "failed"},
                  done : HeightsFrom(-1), target : HeightsFrom(-1),
                  summaryTop : HeightsFrom(-1), infoTop : HeightsFrom(-1), block : Blocks]
        /\ pq \in [pc : {"start", "block", "end"},
                  done : HeightsFrom(-1), target : HeightsFrom(-1)]
    BY <1>2, <2>2 DEF Init, SqIdle, PqIdle
  <2>4. summary \in [Heights -> RowType] /\ stakeInfo \in [Heights -> RowType]
    BY <2>1 DEF Init
  <2>5. todo \in Seq([op : {"rewind", "connect", "pg", "summary", "info"}, block : Blocks])
    BY DEF Init
  <2>6. moves \in 0..MaxMoves /\ reorgs \in 0..MaxReorgs /\ stops \in 0..MaxStops
    BY SyncBoundsAssumption DEF Init
  <2>7. /\ stakeTip \in Blocks /\ pgBlocks \subseteq Blocks /\ poolInfo \subseteq Blocks
        /\ main = "down" /\ mustDelete \in BOOLEAN /\ stuck \in BOOLEAN
    BY <1>2 DEF Init
  <2>8. QED
    BY <1>1, <2>3, <2>4, <2>5, <2>6, <2>7 DEF TypeOK
<1>4. Top(EmptyTable) = -1 /\ Whole(EmptyTable)
  <2>1. Filled(EmptyTable, -1)
    BY HeightsAreNat DEF Filled, EmptyTable
  <2>2. -1 \in HeightsFrom(-1)
    BY DEF HeightsFrom
  <2>3. QED
    BY <2>1, <2>2, TopOfFilled
<1>5. InSync /\ InRun
  BY DEF Init, InSync, InRun
<1>6. Straight
  <2>1. tipHeight \in Nat /\ stakeHeight = 0
    BY <1>2, <1>3, MainChain DEF Init, stakeHeight
  <2>2. OnChain(EmptyTable)
    BY <1>4, <2>1 DEF OnChain, EmptyTable
  <2>3. PgUpTo(-1)
    BY DEF Init, PgUpTo
  <2>4. -1 \in -1..tipHeight
    BY <2>1
  <2>5. QED
    BY <1>2, <2>1, <2>2, <2>3, <2>4 DEF Init, Straight, DiskStraight, On
<1>7. Noticed
  BY DEF Init, Noticed
<1>8. PgBounded
  BY DEF Init, PgBounded, PgGreatest, HeightsFrom
<1>9. QED
  BY <1>3, <1>4, <1>5, <1>6, <1>7, <1>8 DEF Init, SyncInv

-----------------------------------------------------------------------------
(***************************************************************************)
(* The synchronization.                                                    *)
(***************************************************************************)

\* What a step of the synchronization has to keep.
LEMMA SyncFrame ==
    ASSUME SyncInv, main = "sync", main' = "sync", UNCHANGED <<nodeVars, runVars>>,
           TypeOK', Whole(summary)', Whole(stakeInfo)',
           pgBlocks' = pgBlocks \/ PgBounded',
           Begun' => SqPlace', pq'.pc # "start" => PqPlace',
           reorgs = 0 => DiskStraight' /\ SyncStraight',
           reorgs = 0 /\ ~MayMoveInGap /\ Unnoticed' => sq'.target = tipHeight
    PROVE  SyncInv'
<1>1. InSync' /\ InRun'
  BY DEF SyncInv, InSync, InRun, runVars
<1>2. reorgs = 0 => Straight'
  BY DEF Straight
<1>3. reorgs = 0 /\ ~MayMoveInGap => Noticed'
  BY DEF SyncInv, Noticed, InSync, nodeVars, runVars, tipHeight
<1>4. PgBounded'
  BY DEF SyncInv, PgBounded, PgGreatest
<1>5. QED
  BY <1>1, <1>2, <1>3, <1>4 DEF SyncInv, nodeVars

\* What is so while it goes on.
LEMMA SyncFacts ==
    ASSUME SyncInv, main = "sync"
    PROVE  /\ Begun => SqPlace
           /\ pq.pc # "start" => PqPlace
           /\ reorgs = 0 => DiskStraight /\ SyncStraight
           /\ reorgs = 0 /\ ~MayMoveInGap /\ Unnoticed => sq.target = tipHeight
BY DEF SyncInv, InSync, Straight, Noticed

\* PostgreSQL's synchronization has still what it had.
LEMMA PgKept ==
    ASSUME UNCHANGED <<nodeTip, pgBlocks, pq>>, pq.pc # "start" => pq.done <= pq.target /\ PgUpTo(pq.done)
    PROVE  pq'.pc # "start" => pq'.done <= pq'.target /\ PgUpTo(pq.done)'
BY DEF PgUpTo, On

\* It starts at the least of the three heights, or fails.
LEMMA BeginStep ==
    ASSUME SyncInv, Begin
    PROVE  SyncInv'
<1>1. PICK start : /\ BeginAbove(start) /\ start \in {Top(summary), Top(stakeInfo), stakeHeight}
                   /\ start <= Top(summary) /\ start <= Top(stakeInfo) /\ start <= stakeHeight
  <2> DEFINE start == Min(TableTops \union {Height(stakeTip)})
  <2>1. /\ start \in {Top(summary), Top(stakeInfo), stakeHeight}
        /\ start <= Top(summary) /\ start <= Top(stakeInfo) /\ start <= stakeHeight
    <3>1. Top(summary) \in Int /\ Top(stakeInfo) \in Int /\ stakeHeight \in Int
      BY TablePlaces, StakePlace DEF SyncInv
    <3>2. start = Min({Top(summary), Top(stakeInfo)} \union {stakeHeight})
      BY DEF TableTops, stakeHeight
    <3> HIDE DEF start
    <3>3. QED
      BY <3>1, <3>2, LeastOfThree
  <2>2. QED
    BY <2>1 DEF Begin
<1>2. /\ main = "sync" /\ sq.pc = "start"
      /\ UNCHANGED <<nodeTip, moves, reorgs, stakeTip, summary, stakeInfo, pgBlocks, main,
                     stops, poolInfo, pq, todo, stuck>>
      /\ mustDelete' \in BOOLEAN
      /\ \E place \in {"failed", "rewind"} :
            sq' = [sq EXCEPT !.pc = place, !.done = start, !.target = tipHeight,
                             !.summaryTop = Top(summary), !.infoTop = Top(stakeInfo)]
  BY <1>1 DEF BeginAbove, SqAt, nodeVars, diskVars, runVars, tipHeight
<1>3. start \in HeightsFrom(-1) /\ tipHeight \in HeightsFrom(-1) /\ TypeOK
  BY <1>1, TablePlaces, StakePlace, MainChain DEF SyncInv, HeightsFrom
<1>4. /\ sq'.pc \in {"failed", "rewind"} /\ sq'.done = start /\ sq'.target = tipHeight
      /\ sq'.summaryTop = Top(summary) /\ sq'.infoTop = Top(stakeInfo)
  BY <1>2, <1>3 DEF TypeOK
<1>5. TypeOK'
  BY <1>2, <1>3, TablePlaces DEF TypeOK
<1>6. Begun' => SqPlace'
  BY <1>1, <1>2, <1>3, <1>4, TablePlaces, MainChain
     DEF Begun, SqPlace, Reach, stakeHeight, tipHeight
<1>7. pq'.pc # "start" => PqPlace'
  BY <1>2, SyncFacts DEF PqPlace, tipHeight
<1>8. ASSUME reorgs = 0 PROVE DiskStraight' /\ SyncStraight'
  <2>1. DiskStraight /\ SyncStraight
    BY <1>2, <1>8, SyncFacts
  <2>2. DiskStraight'
    BY <1>2, <2>1 DEF DiskStraight, OnChain, PgUpTo, On, stakeHeight, tipHeight
  <2>3. Top(summary) <= tipHeight /\ Top(stakeInfo) <= tipHeight
    BY <2>1 DEF DiskStraight, OnChain
  <2>4. Top(summary)' <= sq'.target /\ Top(stakeInfo)' <= sq'.target /\ sq'.done <= sq'.target
    <3>1. summary' = summary /\ stakeInfo' = stakeInfo
      BY <1>2
    <3>2. start <= tipHeight
      BY <1>1, <2>3, TablePlaces, StakePlace, MainChain, <1>3
    <3>3. QED
      BY <3>1, <3>2, <1>4, <2>3
  <2>5. pq'.pc # "start" => pq'.done <= pq'.target /\ PgUpTo(pq.done)'
    BY <1>2, <2>1, PgKept DEF SyncStraight
  <2>6. QED
    BY <2>2, <2>4, <2>5 DEF SyncStraight
<1>9. Whole(summary)' /\ Whole(stakeInfo)'
  BY <1>2 DEF SyncInv
<1>10. QED
  BY <1>2, <1>4, <1>5, <1>6, <1>7, <1>8, <1>9, SyncFrame DEF nodeVars, runVars

\* The stake database goes back along the chain.
LEMMA RewindStep ==
    ASSUME SyncInv, Rewind
    PROVE  SyncInv'
<1>1. /\ main = "sync" /\ main' = "sync" /\ sq.pc = "rewind"
      /\ UNCHANGED <<nodeTip, moves, reorgs, summary, stakeInfo, pgBlocks, stops,
                     mustDelete, poolInfo, pq, todo, stuck>>
  BY DEF Rewind, SqAt, nodeVars, tables, mainVars, runVars
<1>2. TypeOK /\ SqPlace
  BY <1>1, SyncFacts DEF SyncInv, Begun
<1>3. /\ stakeHeight \in Nat /\ tipHeight \in Nat /\ sq.done \in Int /\ sq.done >= -1
      /\ sq.target \in Int
  BY <1>2, StakePlace, MainChain, LocalTypes
<1>4. pq'.pc # "start" => PqPlace'
  BY <1>1, SyncFacts DEF PqPlace, tipHeight
<1>5. Whole(summary)' /\ Whole(stakeInfo)'
  BY <1>1 DEF SyncInv
<1>6. CASE stakeHeight > sq.done /\ stakeTip # <<>>
  <2>1. stakeTip' = Parent(stakeTip) /\ sq' = sq
    BY <1>6 DEF Rewind, stakeHeight
  <2>2. stakeTip' \in Blocks /\ stakeHeight' = stakeHeight - 1
    BY <1>2, <1>6, <2>1, StakePlace DEF stakeHeight
  <2>3. TypeOK'
    BY <1>1, <1>2, <2>1, <2>2 DEF TypeOK
  <2>4. Begun' => SqPlace'
    BY <1>1, <1>2, <1>3, <1>6, <2>1, <2>2 DEF SqPlace, Reach, tipHeight
  <2>5. ASSUME reorgs = 0 PROVE DiskStraight' /\ SyncStraight'
    <3>1. DiskStraight /\ SyncStraight
      BY <1>1, <2>5, SyncFacts
    <3>2. stakeHeight > 0 /\ stakeHeight <= tipHeight /\ stakeTip = On(stakeHeight)
      BY <1>2, <1>3, <1>6, <3>1, StakePlace DEF DiskStraight
    <3>3. Parent(On(stakeHeight)) = On(stakeHeight - 1)
      BY <1>2, <1>3, <3>2, MainChain, Ancestors DEF On, tipHeight
    <3>4. stakeHeight' <= tipHeight' /\ stakeTip' = On(stakeHeight)'
      BY <1>1, <1>3, <2>1, <2>2, <3>2, <3>3 DEF On, tipHeight
    <3>5. OnChain(summary)' /\ OnChain(stakeInfo)' /\ \E n \in -1..tipHeight' : PgUpTo(n)'
      BY <1>1, <3>1 DEF DiskStraight, OnChain, PgUpTo, On, tipHeight
    <3>6. DiskStraight'
      BY <3>4, <3>5 DEF DiskStraight
    <3>7. SyncStraight'
      BY <1>1, <2>1, <3>1, PgKept DEF SyncStraight, Begun
    <3>8. QED
      BY <3>6, <3>7
  <2>6. reorgs = 0 /\ ~MayMoveInGap /\ Unnoticed' => sq'.target = tipHeight
    BY <1>1, <2>1, SyncFacts DEF Unnoticed, SameHeight, More
  <2>7. QED
    BY <1>1, <1>4, <1>5, <2>3, <2>4, <2>5, <2>6, SyncFrame DEF nodeVars, runVars
<1>7. CASE ~(stakeHeight > sq.done /\ stakeTip # <<>>)
  <2>1. stakeTip' = stakeTip /\ sq' = [sq EXCEPT !.pc = "connect"]
    BY <1>7 DEF Rewind, stakeHeight
  <2>2. /\ sq'.pc = "connect" /\ sq'.done = sq.done /\ sq'.target = sq.target
        /\ sq'.summaryTop = sq.summaryTop /\ sq'.infoTop = sq.infoTop
    BY <1>2, <2>1 DEF TypeOK
  <2>3. TypeOK'
    BY <1>1, <1>2, <2>1 DEF TypeOK
  <2>4. stakeHeight = IF sq.done < 0 THEN 0 ELSE sq.done
    BY <1>1, <1>2, <1>3, <1>7, StakePlace DEF SqPlace
  <2>5. Begun' => SqPlace'
    BY <1>1, <1>2, <2>1, <2>2, <2>4 DEF SqPlace, Reach, stakeHeight, tipHeight
  <2>6. ASSUME reorgs = 0 PROVE DiskStraight' /\ SyncStraight'
    <3>1. DiskStraight /\ SyncStraight
      BY <1>1, <2>6, SyncFacts
    <3>2. DiskStraight'
      BY <1>1, <2>1, <3>1 DEF DiskStraight, OnChain, PgUpTo, On, stakeHeight, tipHeight
    <3>3. SyncStraight'
      BY <1>1, <2>2, <3>1, PgKept DEF SyncStraight, Begun
    <3>4. QED
      BY <3>2, <3>3
  <2>7. reorgs = 0 /\ ~MayMoveInGap /\ Unnoticed' => sq'.target = tipHeight
    BY <1>1, <2>2, SyncFacts DEF Unnoticed, SameHeight, More
  <2>8. QED
    BY <1>1, <1>4, <1>5, <2>3, <2>5, <2>6, <2>7, SyncFrame DEF nodeVars, runVars
<1>8. QED
  BY <1>6, <1>7

\* The next block is connected, is there already, or is refused.
LEMMA ConnectStep ==
    ASSUME SyncInv, Connect
    PROVE  SyncInv'
<1> DEFINE h == sq.done + 1
           b == NextBlock(sq)
<1>1. /\ main = "sync" /\ main' = "sync" /\ sq.pc = "connect" /\ More(sq)
      /\ UNCHANGED <<nodeTip, moves, reorgs, summary, stakeInfo, pgBlocks, stops,
                     mustDelete, pq, todo, stuck>>
  BY DEF Connect, SqAt, nodeVars, tables, mainVars, runVars
<1>2. TypeOK /\ SqPlace
  BY <1>1, SyncFacts DEF SyncInv, Begun
<1>3. /\ stakeHeight \in Nat /\ tipHeight \in Nat /\ sq.done \in Int /\ sq.done >= -1
      /\ sq.target \in Int /\ sq.done < sq.target /\ sq.target <= tipHeight
      /\ stakeHeight = IF sq.done < 0 THEN 0 ELSE sq.done
  BY <1>1, <1>2, StakePlace, MainChain, LocalTypes DEF More, SqPlace
<1>4. h \in 0..tipHeight /\ b = On(h) /\ b \in Blocks /\ Height(b) = h
  BY <1>2, <1>3, NextIsOn DEF NextBlock
<1>5. \E place \in {"failed", "summary"} :
        /\ sq' = [sq EXCEPT !.block = b, !.pc = place]
        /\ stakeTip' = IF place = "summary" THEN b ELSE stakeTip
        /\ poolInfo' \in {poolInfo, poolInfo \union {b}}
  <2>1. CASE Height(b) > Height(stakeTip) /\ ~IsChild(b, stakeTip)
    BY <2>1 DEF Connect
  <2>2. CASE Height(b) > Height(stakeTip) /\ IsChild(b, stakeTip)
    BY <2>2 DEF Connect
  <2>3. CASE ~(Height(b) > Height(stakeTip))
    <3>1. h = 0 /\ stakeHeight = 0
      BY <1>3, <1>4, <2>3 DEF stakeHeight
    <3>2. stakeTip = <<>> /\ b = <<>>
      BY <1>2, <1>4, <3>1, StakePlace, BlocksAssumption DEF Height
    <3>3. QED
      BY <2>3, <3>2 DEF Connect
  <2>4. QED
    BY <2>1, <2>2, <2>3
<1> HIDE DEF b
<1>6. PICK place \in {"failed", "summary"} :
        /\ sq' = [sq EXCEPT !.block = b, !.pc = place]
        /\ stakeTip' = IF place = "summary" THEN b ELSE stakeTip
        /\ poolInfo' \in {poolInfo, poolInfo \union {b}}
  BY <1>5
<1>7. /\ sq'.pc = place /\ sq'.block = b /\ sq'.done = sq.done /\ sq'.target = sq.target
      /\ sq'.summaryTop = sq.summaryTop /\ sq'.infoTop = sq.infoTop
  BY <1>2, <1>6 DEF TypeOK
<1>8. TypeOK'
  BY <1>1, <1>2, <1>4, <1>6 DEF TypeOK
<1>9. ASSUME Begun' PROVE SqPlace'
  <2>1. sq'.pc = "summary" /\ stakeTip' = b /\ stakeHeight' = sq.done + 1
    BY <1>4, <1>6, <1>7, <1>9 DEF Begun, stakeHeight
  <2>2. QED
    BY <1>1, <1>2, <1>3, <1>7, <2>1 DEF SqPlace, Reach, tipHeight
<1>10. pq'.pc # "start" => PqPlace'
  BY <1>1, SyncFacts DEF PqPlace, tipHeight
<1>11. Whole(summary)' /\ Whole(stakeInfo)'
  BY <1>1 DEF SyncInv
<1>12. ASSUME reorgs = 0 PROVE DiskStraight' /\ SyncStraight'
  <2>1. DiskStraight /\ SyncStraight
    BY <1>1, <1>12, SyncFacts
  <2>2. stakeHeight' <= tipHeight' /\ stakeTip' = On(stakeHeight)'
    <3>1. CASE place = "summary"
      BY <1>1, <1>4, <1>6, <3>1 DEF On, stakeHeight, tipHeight
    <3>2. CASE place = "failed"
      BY <1>1, <1>6, <2>1, <3>2 DEF DiskStraight, On, stakeHeight, tipHeight
    <3>3. QED
      BY <3>1, <3>2
  <2>3. OnChain(summary)' /\ OnChain(stakeInfo)' /\ \E n \in -1..tipHeight' : PgUpTo(n)'
    BY <1>1, <2>1 DEF DiskStraight, OnChain, PgUpTo, On, tipHeight
  <2>4. DiskStraight'
    BY <2>2, <2>3 DEF DiskStraight
  <2>5. SyncStraight'
    BY <1>1, <1>7, <2>1, PgKept DEF SyncStraight, Begun
  <2>6. QED
    BY <2>4, <2>5
<1>13. ~Unnoticed'
  BY <1>1, <1>6, <1>7 DEF Unnoticed
<1>14. QED
  BY <1>1, <1>8, <1>9, <1>10, <1>11, <1>12, <1>13, SyncFrame DEF nodeVars, runVars

\* The stake database's block is stored in a table that reaches its parent.
LEMMA RowStored ==
    ASSUME TypeOK, NEW t \in Table, Whole(t), stakeHeight <= Top(t) + 1
    PROVE  LET u == [t EXCEPT ![stakeHeight] = Row(stakeTip)]
           IN /\ u \in Table /\ Whole(u) /\ Top(u) \in Int
              /\ Top(u) >= Top(t) /\ Top(u) >= stakeHeight
              /\ Top(u) = IF stakeHeight = Top(t) + 1 THEN stakeHeight ELSE Top(t)
              /\ OnChain(t) /\ stakeHeight <= tipHeight /\ stakeTip = On(stakeHeight)
                   => OnChain(u)
<1> DEFINE u == [t EXCEPT ![stakeHeight] = Row(stakeTip)]
<1>1. /\ stakeHeight \in Heights /\ stakeHeight \in Nat /\ Top(t) \in Int
      /\ Row(stakeTip) \in Rowed /\ Row(stakeTip) = OwnRow(stakeTip)
  BY StakePlace, TopIsInt, RowOf
<1>2. /\ u \in Table /\ Whole(u)
      /\ Top(u) = IF stakeHeight = Top(t) + 1 THEN stakeHeight ELSE Top(t)
      /\ u[stakeHeight] = Row(stakeTip)
      /\ \A g \in Heights : g # stakeHeight => u[g] = t[g]
  BY <1>1, RowAdded
<1> HIDE DEF u
<1>3. ASSUME OnChain(t), stakeHeight <= tipHeight, stakeTip = On(stakeHeight)
      PROVE  OnChain(u)
  <2>1. Top(u) <= tipHeight
    BY <1>2, <1>3 DEF OnChain
  <2>2. ASSUME NEW g \in Heights, u[g] # NoRow PROVE u[g] = OwnRow(On(g))
    <3>1. CASE g = stakeHeight
      BY <1>1, <1>2, <1>3, <3>1
    <3>2. CASE g # stakeHeight
      BY <1>2, <1>3, <2>2, <3>2 DEF OnChain
    <3>3. QED
      BY <3>1, <3>2
  <2>3. QED
    BY <2>1, <2>2 DEF OnChain
<1>4. QED
  BY <1>1, <1>2, <1>3 DEF u

\* What the end of a block's turn sets.
LEMMA DoneLocals ==
    ASSUME TypeOK, sq.done < tipHeight, sq' = BlockDone(sq)
    PROVE  /\ sq'.pc = "connect" /\ sq'.done = sq.done + 1 /\ sq'.target = tipHeight
           /\ sq'.summaryTop = sq.summaryTop /\ sq'.infoTop = sq.infoTop
           /\ sq'.block = sq.block
           /\ sq' \in [pc : {"start", "rewind", "connect", "summary", "info", "end", "failed"},
                       done : HeightsFrom(-1), target : HeightsFrom(-1),
                       summaryTop : HeightsFrom(-1), infoTop : HeightsFrom(-1), block : Blocks]
<1>1. sq.done + 1 \in HeightsFrom(-1) /\ tipHeight \in HeightsFrom(-1)
  BY NextIsOn, LocalTypes, MainChain DEF HeightsFrom
<1>2. sq' = [sq EXCEPT !.pc = "connect", !.done = sq.done + 1, !.target = tipHeight]
  BY DEF BlockDone, tipHeight
<1>3. QED
  BY <1>1, <1>2 DEF TypeOK

\* What the stores have after the rows of the stake database's block were written.
LEMMA StraightRows ==
    ASSUME DiskStraight, UNCHANGED <<nodeTip, stakeTip, pgBlocks>>,
           OnChain(summary) => OnChain(summary)', OnChain(stakeInfo) => OnChain(stakeInfo)'
    PROVE  DiskStraight'
BY DEF DiskStraight, PgUpTo, On, stakeHeight, tipHeight

\* The block's row is stored in the first table.
LEMMA StoreSummaryStep ==
    ASSUME SyncInv, StoreSummary
    PROVE  SyncInv'
<1>1. /\ main = "sync" /\ main' = "sync" /\ sq.pc = "summary"
      /\ UNCHANGED <<nodeTip, moves, reorgs, stakeTip, stakeInfo, pgBlocks, stops,
                     mustDelete, poolInfo, pq, todo, stuck>>
  BY DEF StoreSummary, SqAt, nodeVars, mainVars, runVars
<1>2. TypeOK /\ SqPlace
  BY <1>1, SyncFacts DEF SyncInv, Begun
<1>3. /\ stakeHeight \in Nat /\ tipHeight \in Nat /\ sq.done \in Int
      /\ sq.summaryTop \in Int /\ sq.infoTop \in Int /\ sq.target \in Int
      /\ stakeTip = sq.block /\ stakeHeight = sq.done + 1 /\ sq.done < sq.target
      /\ sq.target <= tipHeight /\ Reach(sq.done)
      /\ sq.summaryTop <= Top(summary) /\ sq.infoTop <= Top(stakeInfo)
      /\ Top(summary) \in Int /\ Top(stakeInfo) \in Int
  BY <1>1, <1>2, StakePlace, MainChain, LocalTypes, TablePlaces DEF SqPlace
<1>4. /\ summary' \in Table /\ Whole(summary)' /\ Top(summary)' \in Int
      /\ Top(summary)' >= Top(summary) /\ Top(summary)' >= stakeHeight
      /\ Top(summary)' \in {Top(summary), stakeHeight}
      /\ OnChain(summary) /\ stakeHeight <= tipHeight /\ stakeTip = On(stakeHeight)
            => OnChain(summary)'
  <2>1. CASE sq.done + 1 > sq.summaryTop
    <3>1. summary' = [summary EXCEPT ![stakeHeight] = Row(stakeTip)]
      BY <1>3, <2>1 DEF StoreSummary
    <3>2. Whole(summary) /\ summary \in Table /\ stakeHeight <= Top(summary) + 1
      BY <1>3, TablePlaces DEF SyncInv, Reach
    <3> DEFINE u == [summary EXCEPT ![stakeHeight] = Row(stakeTip)]
    <3>3. /\ u \in Table /\ Whole(u) /\ Top(u) \in Int
          /\ Top(u) >= Top(summary) /\ Top(u) >= stakeHeight
          /\ Top(u) = IF stakeHeight = Top(summary) + 1 THEN stakeHeight ELSE Top(summary)
          /\ OnChain(summary) /\ stakeHeight <= tipHeight /\ stakeTip = On(stakeHeight)
               => OnChain(u)
      BY <1>2, <3>2, RowStored
    <3> HIDE DEF u
    <3>4. summary' = u
      BY <3>1 DEF u
    <3>5. OnChain(u) => OnChain(summary)'
      BY <1>1, <3>4 DEF OnChain, On, tipHeight
    <3>6. Whole(summary)'
      BY <3>3, <3>4 DEF Whole, Filled
    <3>7. QED
      BY <3>3, <3>4, <3>5, <3>6
  <2>2. CASE ~(sq.done + 1 > sq.summaryTop)
    <3>1. summary' = summary
      BY <2>2 DEF StoreSummary
    <3>2. QED
      BY <1>1, <1>3, <2>2, <3>1, TablePlaces DEF SyncInv, OnChain, On, tipHeight
  <2>3. QED
    BY <2>1, <2>2
<1>5. pq'.pc # "start" => PqPlace'
  BY <1>1, SyncFacts DEF PqPlace, tipHeight
<1>6. Whole(stakeInfo)'
  BY <1>1 DEF SyncInv
<1>7. stakeHeight' = stakeHeight /\ tipHeight' = tipHeight /\ Top(stakeInfo)' = Top(stakeInfo)
  BY <1>1 DEF stakeHeight, tipHeight
<1>8. ASSUME reorgs = 0
      PROVE  /\ DiskStraight' /\ Top(summary)' <= sq.target /\ Top(stakeInfo) <= sq.target
             /\ pq'.pc # "start" => pq'.done <= pq'.target /\ PgUpTo(pq.done)'
  <2>1. DiskStraight /\ SyncStraight
    BY <1>1, <1>8, SyncFacts
  <2>2. OnChain(stakeInfo) => OnChain(stakeInfo)'
    BY <1>1 DEF OnChain, On, tipHeight
  <2>3. OnChain(summary) => OnChain(summary)'
    BY <1>4, <2>1 DEF DiskStraight
  <2>4. DiskStraight'
    BY <1>1, <2>1, <2>2, <2>3, StraightRows
  <2>5. Top(summary) <= sq.target /\ Top(stakeInfo) <= sq.target
    BY <1>1, <2>1 DEF SyncStraight, Begun
  <2>6. pq'.pc # "start" => pq'.done <= pq'.target /\ PgUpTo(pq.done)'
    BY <1>1, <2>1, PgKept DEF SyncStraight
  <2>7. QED
    BY <1>3, <1>4, <2>4, <2>5, <2>6
<1>9. CASE sq.done + 1 <= sq.infoTop
  <2>1. sq' = BlockDone(sq) /\ sq.done < tipHeight
    BY <1>3, <1>9 DEF StoreSummary
  <2>2. /\ sq'.pc = "connect" /\ sq'.done = sq.done + 1 /\ sq'.target = tipHeight
        /\ sq'.summaryTop = sq.summaryTop /\ sq'.infoTop = sq.infoTop
    BY <1>2, <2>1, DoneLocals
  <2>3. TypeOK'
    BY <1>1, <1>2, <1>4, <2>1, DoneLocals DEF TypeOK, Table
  <2>4. SqPlace'
    BY <1>3, <1>4, <1>7, <1>9, <2>2 DEF SqPlace, Reach
  <2>5. ASSUME reorgs = 0 PROVE SyncStraight'
    <3>1. Top(summary)' <= tipHeight /\ Top(stakeInfo)' <= tipHeight /\ sq.done + 1 <= tipHeight
      BY <1>3, <1>4, <1>7, <1>8, <2>5
    <3>2. QED
      BY <1>8, <2>2, <2>5, <3>1 DEF SyncStraight
  <2>6. QED
    BY <1>1, <1>4, <1>5, <1>6, <1>8, <2>2, <2>3, <2>4, <2>5, SyncFrame DEF nodeVars, runVars
<1>10. CASE ~(sq.done + 1 <= sq.infoTop)
  <2>1. sq' = [sq EXCEPT !.pc = "info"]
    BY <1>10 DEF StoreSummary
  <2>2. /\ sq'.pc = "info" /\ sq'.done = sq.done /\ sq'.target = sq.target
        /\ sq'.summaryTop = sq.summaryTop /\ sq'.infoTop = sq.infoTop /\ sq'.block = sq.block
    BY <1>2, <2>1 DEF TypeOK
  <2>3. TypeOK'
    BY <1>1, <1>2, <1>4, <2>1 DEF TypeOK, Table
  <2>4. SqPlace'
    BY <1>1, <1>2, <1>3, <1>4, <1>7, <2>2 DEF SqPlace, Reach
  <2>5. reorgs = 0 => SyncStraight'
    BY <1>3, <1>7, <1>8, <2>2 DEF SyncStraight
  <2>6. ~Unnoticed'
    BY <1>1, <2>2 DEF Unnoticed
  <2>7. QED
    BY <1>1, <1>4, <1>5, <1>6, <1>8, <2>3, <2>4, <2>5, <2>6, SyncFrame DEF nodeVars, runVars
<1>11. QED
  BY <1>9, <1>10

\* The block's row is stored in the second table.
LEMMA StoreInfoStep ==
    ASSUME SyncInv, StoreInfo
    PROVE  SyncInv'
<1>1. /\ main = "sync" /\ main' = "sync" /\ sq.pc = "info" /\ sq' = BlockDone(sq)
      /\ stakeInfo' = [stakeInfo EXCEPT ![sq.done + 1] = Row(sq.block)]
      /\ UNCHANGED <<nodeTip, moves, reorgs, stakeTip, summary, pgBlocks, stops,
                     mustDelete, poolInfo, pq, todo, stuck>>
  BY DEF StoreInfo, SqAt, nodeVars, mainVars, runVars
<1>2. TypeOK /\ SqPlace
  BY <1>1, SyncFacts DEF SyncInv, Begun
<1>3. /\ stakeHeight \in Nat /\ tipHeight \in Nat /\ sq.done \in Int
      /\ sq.summaryTop \in Int /\ sq.infoTop \in Int /\ sq.target \in Int
      /\ stakeTip = sq.block /\ stakeHeight = sq.done + 1 /\ sq.done < sq.target
      /\ sq.target <= tipHeight /\ Reach(sq.done) /\ stakeHeight <= Top(summary)
      /\ sq.summaryTop <= Top(summary) /\ sq.infoTop <= Top(stakeInfo)
      /\ Top(summary) \in Int /\ Top(stakeInfo) \in Int
  BY <1>1, <1>2, StakePlace, MainChain, LocalTypes, TablePlaces DEF SqPlace
<1>4. /\ stakeInfo' \in Table /\ Whole(stakeInfo)' /\ Top(stakeInfo)' \in Int
      /\ Top(stakeInfo)' >= Top(stakeInfo) /\ Top(stakeInfo)' >= stakeHeight
      /\ Top(stakeInfo)' \in {Top(stakeInfo), stakeHeight}
      /\ OnChain(stakeInfo) /\ stakeHeight <= tipHeight /\ stakeTip = On(stakeHeight)
            => OnChain(stakeInfo)'
  <2>1. Whole(stakeInfo) /\ stakeInfo \in Table /\ stakeHeight <= Top(stakeInfo) + 1
    BY <1>3, TablePlaces DEF SyncInv, Reach
  <2> DEFINE u == [stakeInfo EXCEPT ![stakeHeight] = Row(stakeTip)]
  <2>2. /\ u \in Table /\ Whole(u) /\ Top(u) \in Int
        /\ Top(u) >= Top(stakeInfo) /\ Top(u) >= stakeHeight
        /\ Top(u) = IF stakeHeight = Top(stakeInfo) + 1 THEN stakeHeight ELSE Top(stakeInfo)
        /\ OnChain(stakeInfo) /\ stakeHeight <= tipHeight /\ stakeTip = On(stakeHeight)
             => OnChain(u)
    BY <1>2, <2>1, RowStored
  <2>3. stakeInfo' = u
    BY <1>1, <1>3
  <2> HIDE DEF u
  <2>4. OnChain(u) => OnChain(stakeInfo)'
    BY <1>1, <2>3 DEF OnChain, On, tipHeight
  <2>5. Whole(stakeInfo)'
    BY <2>2, <2>3 DEF Whole, Filled
  <2>6. QED
    BY <2>2, <2>3, <2>4, <2>5
<1>5. pq'.pc # "start" => PqPlace'
  BY <1>1, SyncFacts DEF PqPlace, tipHeight
<1>6. Whole(summary)'
  BY <1>1 DEF SyncInv
<1>7. stakeHeight' = stakeHeight /\ tipHeight' = tipHeight /\ Top(summary)' = Top(summary)
  BY <1>1 DEF stakeHeight, tipHeight
<1>8. /\ sq'.pc = "connect" /\ sq'.done = sq.done + 1 /\ sq'.target = tipHeight
      /\ sq'.summaryTop = sq.summaryTop /\ sq'.infoTop = sq.infoTop
  BY <1>1, <1>2, <1>3, DoneLocals
<1>9. TypeOK'
  <2>1. sq' \in [pc : {"start", "rewind", "connect", "summary", "info", "end", "failed"},
                 done : HeightsFrom(-1), target : HeightsFrom(-1),
                 summaryTop : HeightsFrom(-1), infoTop : HeightsFrom(-1), block : Blocks]
    BY <1>1, <1>2, <1>3, DoneLocals
  <2>2. stakeInfo' \in Table
    BY <1>4
  <2>3. QED
    BY <1>1, <1>2, <2>1, <2>2 DEF TypeOK, Table
<1>10. SqPlace'
  BY <1>3, <1>4, <1>7, <1>8 DEF SqPlace, Reach
<1>11. ASSUME reorgs = 0 PROVE DiskStraight' /\ SyncStraight'
  <2>1. DiskStraight /\ SyncStraight
    BY <1>1, <1>11, SyncFacts
  <2>2. OnChain(summary) => OnChain(summary)'
    BY <1>1 DEF OnChain, On, tipHeight
  <2>3. OnChain(stakeInfo) => OnChain(stakeInfo)'
    BY <1>4, <2>1 DEF DiskStraight
  <2>4. DiskStraight'
    BY <1>1, <2>1, <2>2, <2>3, StraightRows
  <2>5. Top(summary) <= sq.target /\ Top(stakeInfo) <= sq.target
    BY <1>1, <2>1 DEF SyncStraight, Begun
  <2>6. pq'.pc # "start" => pq'.done <= pq'.target /\ PgUpTo(pq.done)'
    BY <1>1, <2>1, PgKept DEF SyncStraight
  <2>7. Top(summary)' <= tipHeight /\ Top(stakeInfo)' <= tipHeight /\ sq.done + 1 <= tipHeight
    BY <1>3, <1>4, <1>7, <2>5
  <2>8. SyncStraight'
    BY <1>8, <2>6, <2>7 DEF SyncStraight
  <2>9. QED
    BY <2>4, <2>8
<1>12. QED
  BY <1>1, <1>4, <1>5, <1>6, <1>8, <1>9, <1>10, <1>11, SyncFrame DEF nodeVars, runVars

\* The synchronization of SQLite is over when it has reached the node's height.
LEMMA SqliteEndStep ==
    ASSUME SyncInv, SqliteEnd
    PROVE  SyncInv'
<1>1. /\ main = "sync" /\ main' = "sync" /\ sq.pc = "connect" /\ ~More(sq)
      /\ sq' = [sq EXCEPT !.pc = "end"]
      /\ UNCHANGED <<nodeTip, moves, reorgs, stakeTip, summary, stakeInfo, pgBlocks, stops,
                     mustDelete, poolInfo, pq, todo, stuck>>
  BY DEF SqliteEnd, SqAt, nodeVars, diskVars, mainVars, runVars
<1>2. TypeOK /\ SqPlace
  BY <1>1, SyncFacts DEF SyncInv, Begun
<1>3. /\ sq'.pc = "end" /\ sq'.done = sq.done /\ sq'.target = sq.target
      /\ sq'.summaryTop = sq.summaryTop /\ sq'.infoTop = sq.infoTop
  BY <1>1, <1>2 DEF TypeOK
<1>4. TypeOK'
  BY <1>1, <1>2 DEF TypeOK
<1>5. SqPlace'
  <2>1. sq.target <= sq.done
    BY <1>1, <1>2, LocalTypes DEF More
  <2>2. QED
    BY <1>1, <1>2, <1>3, <2>1 DEF SqPlace, Reach, stakeHeight, tipHeight
<1>6. pq'.pc # "start" => PqPlace'
  BY <1>1, SyncFacts DEF PqPlace, tipHeight
<1>7. Whole(summary)' /\ Whole(stakeInfo)'
  BY <1>1 DEF SyncInv
<1>8. ASSUME reorgs = 0 PROVE DiskStraight' /\ SyncStraight'
  <2>1. DiskStraight /\ SyncStraight
    BY <1>1, <1>8, SyncFacts
  <2>2. DiskStraight'
    BY <1>1, <2>1 DEF DiskStraight, OnChain, PgUpTo, On, stakeHeight, tipHeight
  <2>3. SyncStraight'
    BY <1>1, <1>3, <2>1, PgKept DEF SyncStraight, Begun
  <2>4. QED
    BY <2>2, <2>3
<1>9. reorgs = 0 /\ ~MayMoveInGap /\ Unnoticed' => sq'.target = tipHeight
  BY <1>1, <1>3, SyncFacts DEF Unnoticed, SameHeight, More
<1>10. QED
  BY <1>1, <1>4, <1>5, <1>6, <1>7, <1>8, <1>9, SyncFrame DEF nodeVars, runVars

\* The last block of PostgreSQL.
LEMMA PgTop ==
    ASSUME TypeOK, NEW n \in HeightsFrom(-1), PgGreatest(n)
    PROVE  PgHeight = n
<1> DEFINE S == {Height(b) : b \in pgBlocks} \union {-1}
<1>1. n \in Int /\ n >= -1 /\ n \in S
  BY HeightsAreNat DEF PgGreatest
<1>2. S \subseteq Int
  BY HeightOfBlock DEF TypeOK
<1>3. \A x \in S : x <= n
  BY <1>1 DEF PgGreatest
<1>4. Max(S) = n
  <2> HIDE DEF S
  <2>1. QED
    BY <1>1, <1>2, <1>3, MaxIs
<1>5. QED
  BY <1>4 DEF PgHeight

\* If it has the blocks up to a height, the last one is at that height.
LEMMA UpToIsGreatest ==
    ASSUME TypeOK, NEW n \in -1..tipHeight, PgUpTo(n)
    PROVE  n \in HeightsFrom(-1) /\ PgGreatest(n)
<1>1. tipHeight \in Nat /\ n \in Int
  BY MainChain
<1>2. \A h \in 0..n : h \in 0..tipHeight /\ Height(On(h)) = h /\ h \in Heights
  BY <1>1, MainChain
<1>3. n = -1 \/ n \in 0..n
  BY <1>1
<1>4. QED
  BY <1>1, <1>2, <1>3 DEF PgUpTo, PgGreatest, HeightsFrom

\* One block more has its own height or leaves the greatest one.
LEMMA PgOneMore ==
    ASSUME TypeOK, PgBounded, NEW b \in Blocks, pgBlocks' = pgBlocks \union {b}
    PROVE  PgBounded'
<1>1. PICK m \in HeightsFrom(-1) : PgGreatest(m)
  BY DEF PgBounded
<1>2. PICK g \in Heights : g = Height(b) /\ g \in HeightsFrom(-1)
  BY HeightOfBlock DEF HeightsFrom
<1>3. m \in Int /\ g \in Int /\ \A c \in pgBlocks : Height(c) \in Nat
  BY <1>2, HeightsAreNat, HeightOfBlock DEF TypeOK
<1>4. \A c \in pgBlocks' : Height(c) = g \/ c \in pgBlocks
  BY <1>2
<1>5. b \in pgBlocks' /\ Height(b) = g /\ pgBlocks \subseteq pgBlocks'
  BY <1>2
<1>6. CASE m <= g
  <2>1. \A c \in pgBlocks' : Height(c) <= g
    BY <1>1, <1>3, <1>4, <1>6 DEF PgGreatest
  <2>2. PgGreatest(g)'
    BY <1>5, <2>1 DEF PgGreatest
  <2>3. QED
    BY <1>2, <2>2 DEF PgBounded
<1>7. CASE g < m
  <2>1. \A c \in pgBlocks' : Height(c) <= m
    BY <1>1, <1>3, <1>4, <1>7 DEF PgGreatest
  <2>2. PgGreatest(m)'
    BY <1>1, <1>5, <2>1 DEF PgGreatest
  <2>3. QED
    BY <1>1, <2>2 DEF PgBounded
<1>8. QED
  BY <1>3, <1>6, <1>7

\* The next block of the chain.
LEMMA PgNextOn ==
    ASSUME NEW d \in Int, d >= -1, PgUpTo(d), NEW m, m = d + 1, nodeTip' = nodeTip,
           pgBlocks' = pgBlocks \union {On(m)}
    PROVE  PgUpTo(m)'
<1>1. {On(h) : h \in 0..(d + 1)} = {On(h) : h \in 0..d} \union {On(d + 1)}
  <2>1. \A h \in 0..(d + 1) : h \in 0..d \/ h = d + 1
    OBVIOUS
  <2>2. \A h \in 0..d : h \in 0..(d + 1)
    OBVIOUS
  <2>3. d + 1 \in 0..(d + 1)
    OBVIOUS
  <2>4. QED
    BY <2>1, <2>2, <2>3
<1>2. pgBlocks' = {On(h) : h \in 0..m}
  BY <1>1 DEF PgUpTo
<1>3. QED
  BY <1>2 DEF PgUpTo, On

\* PostgreSQL's synchronization.
LEMMA PgStep ==
    ASSUME SyncInv, SyncPg
    PROVE  SyncInv'
<1>1. /\ UsePG /\ main = "sync" /\ main' = "sync"
      /\ UNCHANGED <<nodeTip, moves, reorgs, stakeTip, summary, stakeInfo, stops,
                     mustDelete, poolInfo, sq, todo, stuck>>
  BY DEF SyncPg, PgBegin, PgStoreBlock, PgEnd, PqAt, nodeVars, diskVars, mainVars, runVars
<1>2. /\ TypeOK /\ (Begun => SqPlace) /\ (pq.pc # "start" => PqPlace)
      /\ reorgs = 0 => DiskStraight /\ SyncStraight
      /\ reorgs = 0 /\ ~MayMoveInGap /\ Unnoticed => sq.target = tipHeight
  BY <1>1, SyncFacts DEF SyncInv
<1>3. /\ tipHeight \in Nat /\ tipHeight \in HeightsFrom(-1) /\ pq.done \in Int
      /\ pq.done >= -1 /\ pq.target \in Int /\ sq.done \in Int /\ sq.target \in Int
  BY <1>2, MainChain, LocalTypes DEF HeightsFrom
<1>4. (Begun' => SqPlace') /\ Whole(summary)' /\ Whole(stakeInfo)'
  BY <1>1, <1>2 DEF SyncInv, Begun, SqPlace, Reach, stakeHeight, tipHeight
<1>5. reorgs = 0 => /\ OnChain(summary)' /\ OnChain(stakeInfo)'
                    /\ stakeHeight' <= tipHeight' /\ stakeTip' = On(stakeHeight)'
  BY <1>1, <1>2 DEF DiskStraight, OnChain, On, stakeHeight, tipHeight
<1>6. reorgs = 0 => (Begun' => /\ Top(summary)' <= sq'.target /\ Top(stakeInfo)' <= sq'.target
                               /\ sq'.done <= sq'.target)
  BY <1>1, <1>2 DEF SyncStraight, Begun
\* Once PostgreSQL's target is the node's height, so is that of SQLite when both end.
<1>7. ASSUME pq'.target = tipHeight, reorgs = 0, Unnoticed' PROVE sq'.target = tipHeight
  <2>1. /\ sq.pc \in {"rewind", "connect", "end"} /\ sq.target <= sq.done
        /\ tipHeight = sq.done
    BY <1>1, <1>3, <1>7 DEF Unnoticed, SameHeight, More
  <2>2. sq.target <= tipHeight /\ sq.done <= sq.target
    BY <1>2, <1>3, <1>7, <2>1 DEF SqPlace, SyncStraight, Begun
  <2>3. QED
    BY <1>1, <1>3, <2>1, <2>2
<1>8. CASE PgBegin
  <2>1. pgBlocks' = pgBlocks /\ pq' = [pc |-> "block", done |-> PgHeight, target |-> tipHeight]
    BY <1>8 DEF PgBegin, diskVars, tipHeight
  <2>2. PgHeight \in HeightsFrom(-1)
    BY <1>2, PgTop DEF SyncInv, PgBounded
  <2>3. TypeOK'
    BY <1>1, <1>2, <1>3, <2>1, <2>2 DEF TypeOK
  <2>4. PqPlace'
    BY <1>1, <1>3, <2>1 DEF PqPlace, tipHeight
  <2>5. ASSUME reorgs = 0 PROVE DiskStraight' /\ SyncStraight'
    <3>1. PICK n \in -1..tipHeight : PgUpTo(n)
      BY <1>2, <2>5 DEF DiskStraight
    <3>2. PgHeight = n
      BY <1>2, <3>1, UpToIsGreatest, PgTop
    <3>3. pq'.pc = "block" /\ pq'.done = n /\ pq'.target = tipHeight /\ n <= tipHeight
      BY <1>3, <2>1, <3>2
    <3>4. tipHeight' = tipHeight /\ PgUpTo(n)'
      BY <1>1, <2>1, <3>1 DEF PgUpTo, On, tipHeight
    <3>5. PgUpTo(pq.done)'
      BY <3>3, <3>4 DEF PgUpTo
    <3>6. DiskStraight'
      BY <1>5, <2>5, <3>1, <3>4 DEF DiskStraight
    <3>7. SyncStraight'
      BY <1>6, <2>5, <3>3, <3>5 DEF SyncStraight
    <3>8. QED
      BY <3>6, <3>7
  <2>6. pq'.target = tipHeight
    BY <2>1
  <2>7. QED
    BY <1>1, <1>4, <1>7, <2>1, <2>3, <2>4, <2>5, <2>6, SyncFrame DEF nodeVars, runVars
<1>9. CASE PgStoreBlock
  <2> DEFINE n == pq.done + 1
  <2>1. /\ pq.pc = "block" /\ pq.done < pq.target
        /\ pgBlocks' = pgBlocks \union {Ancestor(nodeTip, n)}
        /\ pq' = [pq EXCEPT !.done = n, !.target = tipHeight]
    BY <1>9 DEF PgStoreBlock, PqAt, More, NextBlock, tipHeight
  <2>2. pq.done < tipHeight
    BY <1>2, <1>3, <2>1 DEF PqPlace
  <2>3. /\ n \in 0..tipHeight /\ n \in Heights /\ n \in HeightsFrom(-1)
        /\ Ancestor(nodeTip, n) = On(n) /\ On(n) \in Blocks /\ Height(On(n)) = n
    BY <1>2, <1>3, <2>2, NextIsOn
  <2>4. pq'.pc = "block" /\ pq'.done = n /\ pq'.target = tipHeight
    BY <1>2, <2>1 DEF TypeOK
  <2>5. TypeOK'
    BY <1>1, <1>2, <1>3, <2>1, <2>3 DEF TypeOK
  <2>6. PqPlace'
    BY <1>1, <1>3, <2>4 DEF PqPlace, tipHeight
  <2>7. PgBounded'
    BY <1>2, <2>1, <2>3, PgOneMore DEF SyncInv
  <2>8. ASSUME reorgs = 0 PROVE DiskStraight' /\ SyncStraight'
    <3>1. PgUpTo(pq.done)
      BY <1>2, <2>1, <2>8 DEF SyncStraight
    <3>2. PICK d \in Int : d = pq.done /\ d >= -1
      BY <1>3
    <3>3. PICK m \in -1..tipHeight : m = n
      BY <2>3
    <3>4. tipHeight' = tipHeight /\ PgUpTo(m)'
      <4>1. PgUpTo(d) /\ m = d + 1 /\ pgBlocks' = pgBlocks \union {On(m)}
        BY <2>1, <2>3, <3>1, <3>2, <3>3 DEF PgUpTo
      <4>2. QED
        BY <1>1, <3>2, <4>1, PgNextOn DEF tipHeight
    <3>5. PgUpTo(pq.done)'
      BY <2>4, <3>3, <3>4 DEF PgUpTo
    <3>6. DiskStraight'
      BY <1>5, <2>8, <3>3, <3>4 DEF DiskStraight
    <3>7. n <= tipHeight
      BY <2>3
    <3>8. SyncStraight'
      BY <1>6, <2>4, <2>8, <3>5, <3>7 DEF SyncStraight
    <3>9. QED
      BY <3>6, <3>8
  <2>9. QED
    BY <1>1, <1>4, <1>7, <2>4, <2>5, <2>6, <2>7, <2>8, SyncFrame DEF nodeVars, runVars
<1>10. CASE PgEnd
  <2>1. /\ pq.pc = "block" /\ ~(pq.done < pq.target) /\ pgBlocks' = pgBlocks
        /\ pq' = [pq EXCEPT !.pc = "end"]
    BY <1>10 DEF PgEnd, PqAt, More, diskVars
  <2>2. pq'.pc = "end" /\ pq'.done = pq.done /\ pq'.target = pq.target
    BY <1>2, <2>1 DEF TypeOK
  <2>3. TypeOK'
    BY <1>1, <1>2, <2>1 DEF TypeOK
  <2>4. PqPlace'
    BY <1>1, <1>2, <1>3, <2>1, <2>2 DEF PqPlace, tipHeight
  <2>5. ASSUME reorgs = 0 PROVE DiskStraight' /\ SyncStraight'
    <3>1. DiskStraight /\ SyncStraight
      BY <1>2, <2>5
    <3>2. DiskStraight'
      BY <1>1, <2>1, <3>1 DEF DiskStraight, OnChain, PgUpTo, On, stakeHeight, tipHeight
    <3>3. PICK n : n = pq.done
      OBVIOUS
    <3>4. PgUpTo(n) /\ pq.done <= pq.target
      BY <2>1, <3>1, <3>3 DEF SyncStraight, PgUpTo
    <3>5. PgUpTo(n)'
      BY <1>1, <2>1, <3>4 DEF PgUpTo, On
    <3>6. PgUpTo(pq.done)'
      BY <2>2, <3>3, <3>5 DEF PgUpTo
    <3>7. SyncStraight'
      BY <1>6, <2>2, <2>5, <3>4, <3>6 DEF SyncStraight
    <3>8. QED
      BY <3>2, <3>7
  <2>6. reorgs = 0 /\ ~MayMoveInGap /\ Unnoticed' => sq'.target = tipHeight
    BY <1>1, <1>2, <2>1, <2>2 DEF Unnoticed, SameHeight, More
  <2>7. QED
    BY <1>1, <1>4, <2>1, <2>3, <2>4, <2>5, <2>6, SyncFrame DEF nodeVars, runVars
<1>11. QED
  BY <1>8, <1>9, <1>10 DEF SyncPg

-----------------------------------------------------------------------------
(***************************************************************************)
(* mainCore.                                                               *)
(***************************************************************************)

\* Tuples one after the other: two writes,
LEMMA Pairs ==
    ASSUME NEW a, NEW b
    PROVE  /\ <<a>> \o <<b>> = <<a, b>>
<1> DEFINE T == {a, b}
<1>1. <<a>> \o <<b>> = <<a, b>>
  <2>1. <<a>> \o <<b>> \in Seq(T) /\ <<a, b>> \in Seq(T)
    OBVIOUS
  <2>2. Len(<<a>> \o <<b>>) = 2 /\ Len(<<a, b>>) = 2
    OBVIOUS
  <2>3. \A i \in 1..2 : (<<a>> \o <<b>>)[i] = <<a, b>>[i]
    OBVIOUS
  <2>4. QED
    BY <2>1, <2>2, <2>3, SeqEqual
<1>2. QED
  BY <1>1

\* three,
LEMMA Triples ==
    ASSUME NEW a, NEW b, NEW c
    PROVE  /\ <<a, b>> \o <<c>> = <<a, b, c>>
           /\ <<a>> \o <<b, c>> = <<a, b, c>>
<1> DEFINE T == {a, b, c}
<1>1. <<a, b>> \o <<c>> = <<a, b, c>>
  <2>1. <<a, b>> \o <<c>> \in Seq(T) /\ <<a, b, c>> \in Seq(T)
    OBVIOUS
  <2>2. Len(<<a, b>> \o <<c>>) = 3 /\ Len(<<a, b, c>>) = 3
    OBVIOUS
  <2>3. \A i \in 1..3 : (<<a, b>> \o <<c>>)[i] = <<a, b, c>>[i]
    OBVIOUS
  <2>4. QED
    BY <2>1, <2>2, <2>3, SeqEqual
<1>2. <<a>> \o <<b, c>> = <<a, b, c>>
  <2>1. <<a>> \o <<b, c>> \in Seq(T) /\ <<a, b, c>> \in Seq(T)
    OBVIOUS
  <2>2. Len(<<a>> \o <<b, c>>) = 3 /\ Len(<<a, b, c>>) = 3
    OBVIOUS
  <2>3. \A i \in 1..3 : (<<a>> \o <<b, c>>)[i] = <<a, b, c>>[i]
    OBVIOUS
  <2>4. QED
    BY <2>1, <2>2, <2>3, SeqEqual
<1>3. QED
  BY <1>1, <1>2

\* and four.
LEMMA Quadruples ==
    ASSUME NEW a, NEW b, NEW c, NEW d
    PROVE  /\ <<a, b, c>> \o <<d>> = <<a, b, c, d>>
           /\ <<a>> \o <<b, c, d>> = <<a, b, c, d>>
<1> DEFINE T == {a, b, c, d}
<1>1. <<a, b, c>> \o <<d>> = <<a, b, c, d>>
  <2>1. <<a, b, c>> \o <<d>> \in Seq(T) /\ <<a, b, c, d>> \in Seq(T)
    OBVIOUS
  <2>2. Len(<<a, b, c>> \o <<d>>) = 4 /\ Len(<<a, b, c, d>>) = 4
    OBVIOUS
  <2>3. \A i \in 1..4 : (<<a, b, c>> \o <<d>>)[i] = <<a, b, c, d>>[i]
    OBVIOUS
  <2>4. QED
    BY <2>1, <2>2, <2>3, SeqEqual
<1>2. <<a>> \o <<b, c, d>> = <<a, b, c, d>>
  <2>1. <<a>> \o <<b, c, d>> \in Seq(T) /\ <<a, b, c, d>> \in Seq(T)
    OBVIOUS
  <2>2. Len(<<a>> \o <<b, c, d>>) = 4 /\ Len(<<a, b, c, d>>) = 4
    OBVIOUS
  <2>3. \A i \in 1..4 : (<<a>> \o <<b, c, d>>)[i] = <<a, b, c, d>>[i]
    OBVIOUS
  <2>4. QED
    BY <2>1, <2>2, <2>3, SeqEqual
<1>3. QED
  BY <1>1, <1>2

\* What is to be written for a block: one write after the other.
LEMMA Queues ==
    ASSUME NEW b
    PROVE  LET C == [op |-> "connect", block |-> b]
               P == [op |-> "pg", block |-> b]
               S == [op |-> "summary", block |-> b]
               I == [op |-> "info", block |-> b]
           IN  /\ Write("info", b) = <<I>>
               /\ Write("summary", b) \o Write("info", b) = <<S, I>>
               /\ AfterConnect(b) = IF UsePG THEN <<P, S, I>> ELSE <<S, I>>
               /\ Write("connect", b) \o AfterConnect(b)
                    = IF UsePG THEN <<C, P, S, I>> ELSE <<C, S, I>>
               /\ BlockWrites(b) = IF UsePG THEN <<C, P, S, I>> ELSE <<C, S, I>>
<1> DEFINE C == [op |-> "connect", block |-> b]
           P == [op |-> "pg", block |-> b]
           S == [op |-> "summary", block |-> b]
           I == [op |-> "info", block |-> b]
<1>1. /\ Write("connect", b) = <<C>> /\ Write("pg", b) = <<P>>
      /\ Write("summary", b) = <<S>> /\ Write("info", b) = <<I>>
  BY DEF Write
<1> HIDE DEF C, P, S, I
<1>2. /\ <<S>> \o <<I>> = <<S, I>> /\ <<P>> \o <<S>> = <<P, S>> /\ <<C>> \o <<P>> = <<C, P>>
      /\ <<C>> \o <<S>> = <<C, S>> /\ <<P, S>> \o <<I>> = <<P, S, I>>
      /\ <<C, P>> \o <<S>> = <<C, P, S>> /\ <<C, S>> \o <<I>> = <<C, S, I>>
      /\ <<C, P, S>> \o <<I>> = <<C, P, S, I>> /\ <<C>> \o <<S, I>> = <<C, S, I>>
      /\ <<C>> \o <<P, S, I>> = <<C, P, S, I>>
      /\ <<>> \o <<S>> = <<S>> /\ <<C>> \o <<>> = <<C>>
  <2>1. /\ <<S>> \o <<I>> = <<S, I>> /\ <<P>> \o <<S>> = <<P, S>>
        /\ <<C>> \o <<P>> = <<C, P>> /\ <<C>> \o <<S>> = <<C, S>>
    BY Pairs, Zenon
  <2>2. /\ <<P, S>> \o <<I>> = <<P, S, I>> /\ <<C, P>> \o <<S>> = <<C, P, S>>
        /\ <<C, S>> \o <<I>> = <<C, S, I>>
    BY Triples, Zenon
  <2>3. <<C>> \o <<S, I>> = <<C, S, I>>
    BY Triples, Zenon
  <2>4. <<C, P, S>> \o <<I>> = <<C, P, S, I>> /\ <<C>> \o <<P, S, I>> = <<C, P, S, I>>
    BY Quadruples, Zenon
  <2>5. <<>> \o <<S>> = <<S>> /\ <<C>> \o <<>> = <<C>>
    OBVIOUS
  <2>6. QED
    BY <2>1, <2>2, <2>3, <2>4, <2>5
<1>3. AfterConnect(b) = IF UsePG THEN <<P, S, I>> ELSE <<S, I>>
  BY <1>1, <1>2 DEF AfterConnect
<1>4. BlockWrites(b) = IF UsePG THEN <<C, P, S, I>> ELSE <<C, S, I>>
  BY <1>1, <1>2 DEF BlockWrites
<1>5. QED
  BY <1>1, <1>2, <1>3, <1>4 DEF C, P, S, I

\* So the first one tells which have been done.
LEMMA Stages ==
    ASSUME NEW b, NEW q
    PROVE  /\ q = Write("connect", b) \o AfterConnect(b) =>
                 /\ q # <<>> /\ Head(q).op = "connect" /\ Head(q).block = b
                 /\ Tail(q) = AfterConnect(b)
           /\ UsePG /\ q = AfterConnect(b) =>
                 /\ q # <<>> /\ Head(q).op = "pg" /\ Head(q).block = b
                 /\ Tail(q) = Write("summary", b) \o Write("info", b)
           /\ ~UsePG => AfterConnect(b) = Write("summary", b) \o Write("info", b)
           /\ q = Write("summary", b) \o Write("info", b) =>
                 /\ q # <<>> /\ Head(q).op = "summary" /\ Head(q).block = b
                 /\ Tail(q) = Write("info", b)
           /\ q = Write("info", b) =>
                 /\ q # <<>> /\ Head(q).op = "info" /\ Head(q).block = b /\ Tail(q) = <<>>
<1> DEFINE C == [op |-> "connect", block |-> b]
           P == [op |-> "pg", block |-> b]
           S == [op |-> "summary", block |-> b]
           I == [op |-> "info", block |-> b]
<1> HIDE DEF C, P, S, I
<1>1. /\ Write("info", b) = <<I>>
      /\ Write("summary", b) \o Write("info", b) = <<S, I>>
      /\ AfterConnect(b) = IF UsePG THEN <<P, S, I>> ELSE <<S, I>>
      /\ Write("connect", b) \o AfterConnect(b)
           = IF UsePG THEN <<C, P, S, I>> ELSE <<C, S, I>>
  BY Queues DEF C, P, S, I
<1>2. /\ <<C, P, S, I>> # <<>> /\ Head(<<C, P, S, I>>) = C /\ Tail(<<C, P, S, I>>) = <<P, S, I>>
      /\ <<C, S, I>> # <<>> /\ Head(<<C, S, I>>) = C /\ Tail(<<C, S, I>>) = <<S, I>>
      /\ <<P, S, I>> # <<>> /\ Head(<<P, S, I>>) = P /\ Tail(<<P, S, I>>) = <<S, I>>
      /\ <<S, I>> # <<>> /\ Head(<<S, I>>) = S /\ Tail(<<S, I>>) = <<I>>
      /\ <<I>> # <<>> /\ Head(<<I>>) = I /\ Tail(<<I>>) = <<>>
  OBVIOUS
<1>3. /\ C.op = "connect" /\ P.op = "pg" /\ S.op = "summary" /\ I.op = "info"
      /\ C.block = b /\ P.block = b /\ S.block = b /\ I.block = b
  BY DEF C, P, S, I
<1>4. CASE UsePG
  BY <1>1, <1>2, <1>3, <1>4, Zenon
<1>5. CASE ~UsePG
  BY <1>1, <1>2, <1>3, <1>5, Zenon
<1>6. QED
  BY <1>4, <1>5

\* The first of the writes that are left, and those behind it, at each stage.
LEMMA StageNow ==
    /\ AtConnect => /\ todo # <<>> /\ Head(todo).op = "connect" /\ Head(todo).block = nodeTip
                    /\ Tail(todo) = AfterConnect(nodeTip)
    /\ AtPg => /\ todo # <<>> /\ Head(todo).op = "pg" /\ Head(todo).block = nodeTip
               /\ Tail(todo) = Write("summary", nodeTip) \o Write("info", nodeTip)
    /\ AtSummary => /\ todo # <<>> /\ Head(todo).op = "summary" /\ Head(todo).block = nodeTip
                    /\ Tail(todo) = Write("info", nodeTip)
    /\ AtInfo => /\ todo # <<>> /\ Head(todo).op = "info" /\ Head(todo).block = nodeTip
                 /\ Tail(todo) = <<>>
BY Stages, Zenon DEF AtConnect, AtPg, AtSummary, AtInfo

\* The first of the writes that are left after a step.
LEMMA StageNext ==
    /\ AtConnect' => todo' # <<>> /\ Head(todo').op = "connect"
    /\ AtPg' => todo' # <<>> /\ Head(todo').op = "pg"
    /\ AtSummary' => todo' # <<>> /\ Head(todo').op = "summary"
    /\ AtInfo' => todo' # <<>> /\ Head(todo').op = "info"
BY Stages, Zenon DEF AtConnect, AtPg, AtSummary, AtInfo

\* The disk is left alone.
LEMMA DiskKept ==
    ASSUME SyncInv, UNCHANGED <<nodeTip, moves, reorgs, summary, stakeInfo, pgBlocks>>
    PROVE  /\ Whole(summary)' /\ Whole(stakeInfo)' /\ PgBounded' /\ tipHeight' = tipHeight
           /\ reorgs = 0 /\ stakeTip' = stakeTip => DiskStraight'
           /\ \A s, i, p : Level(s, i, p) => Level(s, i, p)'
<1>1. Whole(summary)' /\ Whole(stakeInfo)' /\ PgBounded'
  BY DEF SyncInv, PgBounded, PgGreatest
<1>2. reorgs = 0 /\ stakeTip' = stakeTip => DiskStraight'
  BY DEF SyncInv, Straight, DiskStraight, OnChain, PgUpTo, On, stakeHeight, tipHeight
<1>3. \A s, i, p : Level(s, i, p) => Level(s, i, p)'
  BY DEF Level, PgUpTo, On
<1>4. QED
  BY <1>1, <1>2, <1>3 DEF tipHeight

\* A new process, or the synchronization once more.
LEMMA IdleLocals ==
    ASSUME TypeOK, sq' = SqIdle, pq' = PqIdle
    PROVE  /\ sq' \in [pc : {"start", "rewind", "connect", "summary", "info", "end", "failed"},
                       done : HeightsFrom(-1), target : HeightsFrom(-1),
                       summaryTop : HeightsFrom(-1), infoTop : HeightsFrom(-1), block : Blocks]
           /\ pq' \in [pc : {"start", "block", "end"},
                       done : HeightsFrom(-1), target : HeightsFrom(-1)]
           /\ ~Begun' /\ sq'.pc = "start" /\ pq'.pc = "start"
<1>1. <<>> \in Blocks
  <2>1. nodeTip \in Blocks /\ nodeTip \in Seq(Nat) /\ 0 \in 0..Len(nodeTip)
    BY BlocksAssumption DEF TypeOK
  <2>2. SubSeq(nodeTip, 1, 0) \in Blocks /\ SubSeq(nodeTip, 1, 0) = <<>>
    BY <2>1, BlocksAssumption
  <2>3. QED
    BY <2>2
<1>2. QED
  BY <1>1 DEF SqIdle, PqIdle, HeightsFrom, Begun

\* The stake database may be made anew.
LEMMA StartProgramStep ==
    ASSUME SyncInv, StartProgram
    PROVE  SyncInv'
<1>1. /\ main = "down" /\ main' = "sync" /\ mustDelete' = FALSE /\ poolInfo' = {}
      /\ sq' = SqIdle /\ pq' = PqIdle /\ todo' = <<>> /\ stuck' = FALSE
      /\ stakeTip' \in {<<>>, stakeTip}
      /\ UNCHANGED <<nodeTip, moves, reorgs, summary, stakeInfo, pgBlocks, stops>>
  BY DEF StartProgram, Open, nodeVars, tables
<1>2. TypeOK
  BY DEF SyncInv
<1>3. <<>> \in Blocks /\ Height(<<>>) = 0 /\ On(0) = <<>>
  <2>1. nodeTip \in Blocks /\ nodeTip \in Seq(Nat) /\ 0 \in 0..Len(nodeTip)
    BY <1>2, BlocksAssumption DEF TypeOK
  <2>2. SubSeq(nodeTip, 1, 0) \in Blocks /\ SubSeq(nodeTip, 1, 0) = <<>>
    BY <2>1, BlocksAssumption
  <2>3. QED
    BY <2>2 DEF On, Ancestor, Height
<1>4. TypeOK'
  <2>1. todo' \in Seq([op : {"rewind", "connect", "pg", "summary", "info"}, block : Blocks])
    BY <1>1
  <2>2. QED
    BY <1>1, <1>2, <1>3, <2>1, IdleLocals DEF TypeOK
<1>5. ~Begun' /\ sq'.pc = "start" /\ pq'.pc = "start"
  BY <1>1, <1>2, IdleLocals
<1>6. InSync' /\ InRun'
  BY <1>1, <1>5 DEF InSync, InRun
<1>7. ASSUME reorgs = 0 PROVE Straight'
  <2>1. DiskStraight
    BY <1>7 DEF SyncInv, Straight
  <2>2. stakeHeight' <= tipHeight' /\ stakeTip' = On(stakeHeight)'
    <3>1. CASE stakeTip' = stakeTip
      BY <1>1, <2>1, <3>1 DEF DiskStraight, On, stakeHeight, tipHeight
    <3>2. CASE stakeTip' = <<>>
      <4>1. stakeHeight' = 0 /\ tipHeight' = tipHeight /\ tipHeight \in Nat
        BY <1>1, <1>2, <1>3, <3>2, MainChain DEF stakeHeight, tipHeight
      <4>2. QED
        BY <1>1, <1>3, <3>2, <4>1 DEF On
    <3>3. QED
      BY <1>1, <3>1, <3>2
  <2>3. OnChain(summary)' /\ OnChain(stakeInfo)' /\ \E n \in -1..tipHeight' : PgUpTo(n)'
    BY <1>1, <2>1 DEF DiskStraight, OnChain, PgUpTo, On, tipHeight
  <2>4. DiskStraight'
    BY <2>2, <2>3 DEF DiskStraight
  <2>5. QED
    BY <1>1, <1>5, <2>4 DEF Straight, SyncStraight
<1>8. Noticed'
  BY <1>1, <1>5 DEF Noticed, Unnoticed
<1>9. QED
  BY <1>1, <1>4, <1>6, <1>7, <1>8, DiskKept DEF SyncInv

\* An error, CTRL+C or a crash ends the program.
LEMMA DownStep ==
    ASSUME SyncInv, GiveUp \/ Stop
    PROVE  SyncInv'
<1>1. /\ main' = "down" /\ stops' \in 0..MaxStops
      /\ UNCHANGED <<nodeTip, moves, reorgs, stakeTip, summary, stakeInfo, pgBlocks,
                     mustDelete, poolInfo, sq, pq, todo, stuck>>
  <2>1. stops \in 0..MaxStops /\ MaxStops \in Nat
    BY SyncBoundsAssumption DEF SyncInv, TypeOK
  <2>2. QED
    BY <2>1 DEF GiveUp, Stop, nodeVars, diskVars, runVars
<1>2. TypeOK'
  BY <1>1 DEF SyncInv, TypeOK
<1>3. InSync' /\ InRun'
  BY <1>1 DEF InSync, InRun
<1>4. reorgs = 0 => Straight'
  BY <1>1, DiskKept DEF Straight
<1>5. reorgs = 0 /\ ~MayMoveInGap => Noticed'
  BY <1>1 DEF SyncInv, Noticed
<1>6. QED
  BY <1>1, <1>2, <1>3, <1>4, <1>5, DiskKept DEF SyncInv

\* The two synchronizations are repeated.
LEMMA SyncAgainStep ==
    ASSUME SyncInv, SyncAgain
    PROVE  SyncInv'
<1>1. /\ main = "sync" /\ main' = "sync" /\ sq' = SqIdle /\ pq' = PqIdle
      /\ UNCHANGED <<nodeTip, moves, reorgs, stakeTip, summary, stakeInfo, pgBlocks, stops,
                     mustDelete, poolInfo, todo, stuck>>
  BY DEF SyncAgain, nodeVars, diskVars, mainVars, runVars
<1>2. TypeOK' /\ ~Begun' /\ sq'.pc = "start" /\ pq'.pc = "start"
  BY <1>1, IdleLocals DEF SyncInv, TypeOK
<1>3. reorgs = 0 => DiskStraight' /\ SyncStraight'
  BY <1>1, <1>2, DiskKept DEF SyncStraight
<1>4. ~Unnoticed'
  BY <1>1, <1>2 DEF Unnoticed
<1>5. QED
  BY <1>1, <1>2, <1>3, <1>4, DiskKept, SyncFrame DEF nodeVars, runVars

\* Both have ended at the same height.
LEMMA EndSyncStep ==
    ASSUME SyncInv, EndSync
    PROVE  SyncInv'
<1>1. /\ main = "sync" /\ main' = "synced" /\ sq.pc = "end" /\ PgEnded /\ SameHeight
      /\ UNCHANGED <<nodeTip, moves, reorgs, stakeTip, summary, stakeInfo, pgBlocks, stops,
                     mustDelete, poolInfo, sq, pq, todo, stuck>>
  BY DEF EndSync, nodeVars, diskVars, runVars
<1>2. TypeOK /\ SqPlace /\ (pq.pc # "start" => PqPlace)
  BY <1>1, SyncFacts DEF SyncInv, Begun
<1>3. /\ stakeHeight \in Nat /\ tipHeight \in Nat /\ sq.done \in Int /\ sq.target \in Int
      /\ Top(summary) \in Int /\ Top(stakeInfo) \in Int /\ pq.done \in Int /\ pq.target \in Int
  BY <1>2, StakePlace, MainChain, LocalTypes, TablePlaces
<1>4. stakeHeight = sq.done /\ sq.target <= sq.done /\ Reach(sq.done)
  BY <1>1, <1>2, <1>3 DEF SqPlace
<1>5. TypeOK'
  BY <1>1, <1>2 DEF TypeOK
<1>6. InSync' /\ InRun'
  BY <1>1, <1>4 DEF SyncInv, InSync, InRun, Reach, stakeHeight
<1>7. ASSUME reorgs = 0 PROVE Straight' /\ sq.target = sq.done /\ stakeTip = On(stakeHeight)
  <2>1. DiskStraight /\ SyncStraight
    BY <1>1, <1>7, SyncFacts
  <2>2. /\ Top(summary) <= sq.target /\ Top(stakeInfo) <= sq.target /\ sq.done <= sq.target
    BY <1>1, <2>1 DEF SyncStraight, Begun
  <2>3. Top(summary) = stakeHeight /\ Top(stakeInfo) = stakeHeight /\ sq.target = sq.done
    BY <1>3, <1>4, <2>2 DEF Reach
  <2>4. ASSUME UsePG PROVE PgUpTo(stakeHeight)
    <3>1. pq.pc = "end" /\ pq.target = sq.done
      BY <1>1, <2>4 DEF PgEnded, SameHeight
    <3>2. pq.done <= pq.target /\ PgUpTo(pq.done) /\ pq.target <= pq.done
      BY <1>2, <2>1, <3>1 DEF SyncStraight, PqPlace
    <3>3. pq.done = stakeHeight
      BY <1>3, <1>4, <3>1, <3>2
    <3>4. QED
      BY <3>2, <3>3
  <2>5. PICK h \in Nat : h = stakeHeight
    BY <1>3
  <2>6. Level(h, h, h)'
    BY <1>1, <2>3, <2>4, <2>5, DiskKept DEF Level
  <2>7. Level(stakeHeight, stakeHeight, stakeHeight)'
    BY <1>1, <2>5, <2>6 DEF Level, PgUpTo, stakeHeight
  <2>8. QED
    BY <1>1, <1>7, <2>1, <2>3, <2>7, DiskKept DEF Straight, DiskStraight
<1>8. ASSUME reorgs = 0, ~MayMoveInGap PROVE Noticed'
  <2>1. Unnoticed
    BY <1>1, <1>2, <1>3, <1>4 DEF Unnoticed, SameHeight, PgEnded, More, PqPlace
  <2>2. sq.target = tipHeight
    BY <1>1, <1>8, <2>1, SyncFacts
  <2>3. stakeTip = nodeTip
    BY <1>2, <1>3, <1>4, <1>7, <1>8, <2>2, MainChain
  <2>4. QED
    BY <1>1, <1>8, <2>3 DEF SyncInv, Noticed
<1>9. QED
  BY <1>1, <1>5, <1>6, <1>7, <1>8, DiskKept DEF SyncInv

\* The handlers find nothing to do yet.
LEMMA RegisterStep ==
    ASSUME SyncInv, Register
    PROVE  SyncInv'
<1>1. /\ main = "synced" /\ main' = "run"
      /\ UNCHANGED <<nodeTip, moves, reorgs, stakeTip, summary, stakeInfo, pgBlocks, stops,
                     mustDelete, poolInfo, sq, pq, todo, stuck>>
  BY DEF Register, nodeVars, diskVars, runVars
<1>2. todo' = <<>> /\ ~stuck' /\ Reach(stakeHeight)'
  BY <1>1 DEF SyncInv, InSync, Reach, stakeHeight
<1>3. ~AtConnect' /\ ~AtPg' /\ ~AtSummary' /\ ~AtInfo'
  BY <1>2, StageNext
<1>4. TypeOK'
  BY <1>1 DEF SyncInv, TypeOK
<1>5. InSync' /\ InRun'
  BY <1>1, <1>2 DEF InSync, InRun, Resting
<1>6. ASSUME reorgs = 0 PROVE Straight'
  <2>1. DiskStraight' /\ Level(stakeHeight, stakeHeight, stakeHeight)
    BY <1>1, <1>6, DiskKept DEF SyncInv, Straight
  <2>2. Level(stakeHeight, stakeHeight, stakeHeight)'
    BY <1>1, <2>1 DEF Level, PgUpTo, On, stakeHeight
  <2>3. QED
    BY <1>1, <1>3, <2>1, <2>2 DEF Straight, RunStraight
<1>7. reorgs = 0 /\ ~MayMoveInGap => Noticed'
  BY <1>1, <1>2, <1>3 DEF SyncInv, Noticed
<1>8. QED
  BY <1>1, <1>4, <1>5, <1>6, <1>7, DiskKept DEF SyncInv

-----------------------------------------------------------------------------
(***************************************************************************)
(* The handlers.                                                           *)
(***************************************************************************)

\* What a step has to keep while the program runs.
LEMMA RunFrame ==
    ASSUME main' = "run", TypeOK', Whole(summary)', Whole(stakeInfo)', PgBounded', InRun',
           reorgs' = 0 => DiskStraight' /\ RunStraight',
           reorgs' = 0 /\ ~MayMoveInGap =>
               /\ ~stuck' /\ (Resting' => stakeTip' = nodeTip')
               /\ AtConnect' => IsChild(nodeTip, stakeTip)'
    PROVE  SyncInv'
BY DEF SyncInv, InSync, Straight, Noticed

\* Where a handler finds the stores.
LEMMA RunFacts ==
    ASSUME SyncInv, main = "run", todo # <<>>
    PROVE  /\ TypeOK /\ ~stuck
           /\ reorgs = 0 => DiskStraight /\ RunStraight
           /\ reorgs = 0 /\ ~MayMoveInGap => Noticed
           /\ \/ AtConnect \/ AtPg \/ AtSummary \/ AtInfo
              \/ reorgs > 0 /\ \E k \in Heights, m \in Nat : AtReorg(k, m)
BY DEF SyncInv, InRun, Resting, InReorg, Straight

\* The next write of a reorganization.
LEMMA ReorgHead ==
    ASSUME TypeOK, NEW k \in Heights, NEW m \in Nat, AtReorg(k, m), NEW n, n = tipHeight - k
    PROVE  /\ k \in Nat /\ n \in Nat /\ n > 0 /\ tipHeight = k + n /\ m <= 3 * n
           /\ Head(todo) = ReorgWrite(k, m + 1)
           /\ m = 0 => Head(todo).op = "rewind" /\ Head(todo).block = On(k)
           /\ m > 0 /\ m <= n => Head(todo).op = "connect" /\ Head(todo).block = On(k + m)
           /\ m > n /\ (m - n) % 2 = 1 => Head(todo).op = "summary"
           /\ m > n /\ (m - n) % 2 # 1 => Head(todo).op = "info"
           /\ m > n => Head(todo).block = On(k + (m + 1 - n) \div 2)
<1>1. k \in Nat /\ tipHeight \in Nat /\ k < tipHeight /\ m < 3 * n + 1
  BY MainChain, HeightsAreNat DEF AtReorg
<1>2. todo \in Seq([op : {"rewind", "connect", "pg", "summary", "info"}, block : Blocks])
      /\ Len(todo) = 3 * n + 1 - m
  BY DEF TypeOK, AtReorg
<1>3. Len(todo) > 0 /\ 1 \in 1..Len(todo)
  BY <1>1, <1>2
<1>4. Head(todo) = todo[1]
  BY <1>2, <1>3
<1>5. todo[1] = ReorgWrite(k, m + 1)
  BY <1>3 DEF AtReorg
<1>6. m > n => ReorgWrite(k, m + 1) = [op |-> IF (m - n) % 2 = 1 THEN "summary" ELSE "info",
                                       block |-> On(k + (m + 1 - n) \div 2)]
  <2>1. (m + 1) - n - 1 = m - n /\ m + 1 - n = (m + 1) - n
    BY <1>1
  <2>2. m > n => ~(m + 1 = 1) /\ ~(m + 1 <= n + 1)
    BY <1>1
  <2>3. QED
    BY <2>1, <2>2 DEF ReorgWrite
<1>7. m = 0 => ReorgWrite(k, m + 1) = [op |-> "rewind", block |-> On(k)]
  BY DEF ReorgWrite
<1>8. m > 0 /\ m <= n => ReorgWrite(k, m + 1) = [op |-> "connect", block |-> On(k + m)]
  <2>1. m > 0 /\ m <= n => ~(m + 1 = 1) /\ m + 1 <= n + 1 /\ (m + 1) - 1 = m
    BY <1>1
  <2>2. QED
    BY <2>1 DEF ReorgWrite
<1>9. QED
  BY <1>1, <1>4, <1>5, <1>6, <1>7, <1>8

\* When it is done, the next one is to be done or nothing is left.
LEMMA ReorgNext ==
    ASSUME TypeOK, NEW k \in Heights, NEW m \in Nat, AtReorg(k, m), reorgs > 0,
           UNCHANGED <<nodeTip, reorgs>>, todo' = Tail(todo), ~stuck', ReorgPlace(k, m + 1)'
    PROVE  InRun'
<1> DEFINE n == tipHeight - k
<1>1. k \in Nat /\ n \in Nat /\ n > 0 /\ tipHeight = k + n /\ m <= 3 * n
  BY ReorgHead
<1>2. tipHeight' = tipHeight /\ \A i \in Nat : ReorgWrite(k, i)' = ReorgWrite(k, i)
  BY DEF ReorgWrite, On, tipHeight
<1>3. /\ todo \in Seq([op : {"rewind", "connect", "pg", "summary", "info"}, block : Blocks])
      /\ Len(todo) = 3 * n + 1 - m
  BY DEF TypeOK, AtReorg
<1>4. /\ Len(todo') = 3 * n + 1 - (m + 1)
      /\ \A i \in 1..Len(todo') : i + 1 \in 1..Len(todo) /\ todo'[i] = todo[i + 1]
  BY <1>1, <1>3
<1>5. ASSUME NEW i \in 1..Len(todo') PROVE todo'[i] = ReorgWrite(k, m + 1 + i)'
  <2>1. todo'[i] = ReorgWrite(k, m + (i + 1))
    BY <1>4 DEF AtReorg
  <2>2. m + (i + 1) = m + 1 + i /\ m + 1 + i \in Nat
    BY <1>1, <1>3, <1>4
  <2>3. QED
    BY <1>2, <2>1, <2>2
<1>6. CASE m < 3 * n
  <2>1. AtReorg(k, m + 1)'
    BY <1>1, <1>2, <1>4, <1>5, <1>6 DEF AtReorg
  <2>2. m + 1 \in Nat
    OBVIOUS
  <2>3. QED
    BY <2>1, <2>2 DEF InRun, InReorg
<1>7. CASE m = 3 * n
  <2>1. todo' = <<>>
    <3>1. Len(todo) = 1
      BY <1>1, <1>3, <1>7
    <3>2. ASSUME NEW S, NEW q \in Seq(S), Len(q) = 1 PROVE Tail(q) = <<>>
      <4>1. q # <<>>
        BY <3>2, Len(<<>>) = 0, 1 # 0, Zenon
      <4>2. Tail(q) \in Seq(S) /\ Len(Tail(q)) = 0
        BY <3>2, <4>1, HeadTailProperties
      <4>3. QED
        BY <4>2, EmptySeq
    <3>3. QED
      BY <1>3, <3>1, <3>2
  <2>2. PICK u \in Nat : u = n
    BY <1>1
  <2>3. tipHeight' - k = u /\ m + 1 = 3 * u + 1 /\ m + 1 > u + 1
    BY <1>1, <1>2, <1>7, <2>2
  <2>4. (m + 1 - u) \div 2 = u /\ (m + 1 - u - 1) \div 2 = u
    <3>1. m + 1 - u = 2 * u + 1 /\ m + 1 - u - 1 = 2 * u
      BY <2>3
    <3>2. (2 * u + 1) \div 2 = u /\ (2 * u) \div 2 = u
      OBVIOUS
    <3>3. QED
      BY <3>1, <3>2
  <2>5. stakeHeight' = tipHeight' /\ k + u <= Top(summary)' /\ k + u <= Top(stakeInfo)'
    BY <2>3, <2>4 DEF ReorgPlace
  <2>6. Resting'
    BY <1>1, <1>2, <2>1, <2>2, <2>5 DEF Resting, Reach
  <2>7. QED
    BY <2>6 DEF InRun
<1>8. QED
  BY <1>1, <1>6, <1>7

\* The queue gets shorter.
LEMMA TodoTyped ==
    ASSUME TypeOK, todo # <<>>
    PROVE  /\ Head(todo) \in [op : {"rewind", "connect", "pg", "summary", "info"}, block : Blocks]
           /\ Tail(todo) \in Seq([op : {"rewind", "connect", "pg", "summary", "info"},
                                  block : Blocks])
BY HeadTailProperties DEF TypeOK

\* The stake database goes back to where the chains part.
LEMMA RunRewindStep ==
    ASSUME SyncInv, RunRewind
    PROVE  SyncInv'
<1>1. /\ main = "run" /\ main' = "run" /\ todo # <<>> /\ Head(todo).op = "rewind"
      /\ stuck' = stuck
      /\ UNCHANGED <<nodeTip, moves, reorgs, summary, stakeInfo, pgBlocks, stops,
                     mustDelete, poolInfo, sq, pq>>
  BY DEF RunRewind, Writes, Written, runVars, nodeVars, tables, mainVars
<1>2. /\ TypeOK /\ ~stuck
      /\ \/ AtConnect \/ AtPg \/ AtSummary \/ AtInfo
         \/ reorgs > 0 /\ \E k \in Heights, m \in Nat : AtReorg(k, m)
  BY <1>1, RunFacts
<1>3. ~AtConnect /\ ~AtPg /\ ~AtSummary /\ ~AtInfo
  BY <1>1, StageNow
<1>4. PICK k \in Heights, m \in Nat : reorgs > 0 /\ AtReorg(k, m)
  BY <1>2, <1>3
<1>5. m = 0 /\ Head(todo).block = On(k)
  <2>1. PICK n : n = tipHeight - k
    OBVIOUS
  <2>2. m = 0 \/ (m > 0 /\ m <= n) \/ m > n
    BY <1>2, <1>4, <2>1, ReorgHead
  <2>3. QED
    BY <1>1, <1>2, <1>4, <2>1, <2>2, ReorgHead
<1>6. /\ k \in 0..tipHeight /\ Height(On(k)) = k /\ k < tipHeight
      /\ stakeHeight \in Nat /\ tipHeight \in Nat
  <2>1. k < tipHeight
    BY <1>4 DEF AtReorg
  <2>2. k \in Nat /\ stakeHeight \in Nat /\ tipHeight \in Nat
    BY <1>2, HeightsAreNat, MainChain, StakePlace
  <2>3. k \in 0..tipHeight
    BY <2>1, <2>2
  <2>4. QED
    BY <1>2, <2>1, <2>2, <2>3, MainChain
<1>7. Reach(stakeHeight)
  BY <1>4, <1>5 DEF AtReorg, ReorgPlace
<1>8. Top(summary) \in Int /\ Top(stakeInfo) \in Int
  BY TablePlaces
<1>9. CASE stakeHeight > k
  <2>1. stakeTip' = Parent(stakeTip) /\ todo' = todo
    BY <1>5, <1>6, <1>9 DEF RunRewind, runVars, stakeHeight
  <2>2. stakeTip' \in Blocks /\ stakeHeight' = stakeHeight - 1
    BY <1>2, <1>6, <1>9, <2>1, StakePlace DEF stakeHeight
  <2>3. TypeOK'
    BY <1>1, <1>2, <2>1, <2>2 DEF TypeOK
  <2>4. AtReorg(k, 0)'
    <3>1. Reach(stakeHeight)'
      BY <1>1, <1>6, <1>7, <1>8, <2>2 DEF Reach
    <3>2. ReorgPlace(k, 0)'
      BY <1>1, <1>6, <3>1 DEF ReorgPlace, tipHeight
    <3>3. QED
      BY <1>1, <1>4, <1>5, <2>1, <3>2 DEF AtReorg, ReorgWrite, On, tipHeight
  <2>5. InRun'
    BY <1>1, <1>2, <1>4, <2>4 DEF InRun, InReorg
  <2>6. QED
    BY <1>1, <1>4, <2>3, <2>5, RunFrame, DiskKept
<1>10. CASE ~(stakeHeight > k)
  <2>1. stakeTip' = stakeTip /\ todo' = Tail(todo)
    BY <1>5, <1>6, <1>10 DEF RunRewind, Written, stakeHeight
  <2>2. TypeOK'
    BY <1>1, <1>2, <2>1, TodoTyped DEF TypeOK
  <2>3. ReorgPlace(k, m + 1)'
    <3>1. Reach(stakeHeight)' /\ stakeHeight' <= k
      BY <1>1, <1>6, <1>7, <1>10, <2>1 DEF Reach, stakeHeight
    <3>2. PICK n \in Int : n = tipHeight' - k /\ n > 0
      BY <1>1, <1>6 DEF tipHeight
    <3>3. ReorgPlace(k, 1)'
      BY <3>1, <3>2 DEF ReorgPlace
    <3>4. QED
      BY <1>5, <3>3
  <2>4. InRun'
    BY <1>1, <1>2, <1>4, <2>1, <2>3, ReorgNext
  <2>5. QED
    BY <1>1, <1>4, <2>2, <2>4, RunFrame, DiskKept
<1>11. QED
  BY <1>9, <1>10

\* The stake database connects a block or refuses it.
LEMMA RunConnectStep ==
    ASSUME SyncInv, RunConnect
    PROVE  SyncInv'
<1> DEFINE b == Head(todo).block
<1>1. /\ main = "run" /\ main' = "run" /\ todo # <<>> /\ Head(todo).op = "connect"
      /\ \/ /\ IsChild(b, stakeTip) /\ stakeTip' = b /\ poolInfo' = poolInfo \union {b}
            /\ todo' = Tail(todo) /\ stuck' = stuck
         \/ /\ ~IsChild(b, stakeTip) /\ stakeTip' = stakeTip /\ poolInfo' = poolInfo
            /\ todo' = <<>> /\ stuck' = TRUE
      /\ UNCHANGED <<nodeTip, moves, reorgs, summary, stakeInfo, pgBlocks, stops,
                     mustDelete, sq, pq>>
  BY DEF RunConnect, Writes, Written, nodeVars, tables, mainVars
<1>2. /\ TypeOK /\ ~stuck
      /\ reorgs = 0 => DiskStraight /\ RunStraight
      /\ reorgs = 0 /\ ~MayMoveInGap => Noticed
      /\ \/ AtConnect \/ AtPg \/ AtSummary \/ AtInfo
         \/ reorgs > 0 /\ \E k \in Heights, m \in Nat : AtReorg(k, m)
  BY <1>1, RunFacts
<1>3. ~AtPg /\ ~AtSummary /\ ~AtInfo
  BY <1>1, StageNow
<1>4. /\ b \in Blocks /\ stakeTip \in Blocks /\ stakeHeight \in Nat /\ tipHeight \in Nat
      /\ Top(summary) \in Int /\ Top(stakeInfo) \in Int
  BY <1>1, <1>2, TodoTyped, StakePlace, MainChain, TablePlaces
<1>5. TypeOK'
  <2>1. todo' \in Seq([op : {"rewind", "connect", "pg", "summary", "info"}, block : Blocks])
    <3>1. CASE todo' = Tail(todo)
      BY <1>1, <1>2, <3>1, TodoTyped
    <3>2. CASE todo' = <<>>
      BY <3>2
    <3>3. QED
      BY <1>1, <3>1, <3>2
  <2>2. stuck' \in BOOLEAN /\ poolInfo' \subseteq Blocks /\ stakeTip' \in Blocks
    BY <1>1, <1>2, <1>4 DEF TypeOK
  <2>3. QED
    BY <1>1, <1>2, <2>1, <2>2 DEF TypeOK
<1>6. CASE ~IsChild(b, stakeTip)
  <2>1. todo' = <<>> /\ stuck' = TRUE /\ stakeTip' = stakeTip
    BY <1>1, <1>6
  <2>2. ~(reorgs = 0 /\ ~MayMoveInGap)
    <3>1. ASSUME reorgs = 0, ~MayMoveInGap PROVE FALSE
      <4>1. AtConnect
        BY <1>2, <1>3, <3>1
      <4>2. IsChild(nodeTip, stakeTip) /\ b = nodeTip
        BY <1>1, <1>2, <3>1, <4>1, StageNow DEF Noticed
      <4>3. QED
        BY <1>6, <4>2
    <3>2. QED
      BY <3>1
  <2>3. InRun' /\ RunStraight'
    BY <2>1 DEF InRun, RunStraight
  <2>4. QED
    BY <1>1, <1>5, <2>1, <2>2, <2>3, RunFrame, DiskKept
<1>7. CASE IsChild(b, stakeTip) /\ AtConnect
  <2>1. b = nodeTip /\ Tail(todo) = AfterConnect(nodeTip) /\ Reach(stakeHeight)
    BY <1>7, StageNow DEF AtConnect
  <2>2. todo' = AfterConnect(nodeTip) /\ stakeTip' = nodeTip /\ stuck' = stuck
    BY <1>1, <1>7, <2>1
  <2>3. tipHeight = stakeHeight + 1
    BY <1>2, <1>4, <1>7, <2>1, Children DEF tipHeight, stakeHeight
  <2>4. Reach(tipHeight - 1)
    BY <1>4, <2>1, <2>3
  <2>5. Connected'
    BY <1>1, <2>2, <2>4 DEF Connected, Reach, tipHeight
  <2>6. ~AtConnect' /\ ~AtInfo' /\ todo' # <<>> /\ (UsePG => AtPg' /\ ~AtSummary')
        /\ (~UsePG => AtSummary' /\ ~AtPg')
    <3>1. nodeTip' = nodeTip
      BY <1>1
    <3>2. /\ UsePG => todo' # <<>> /\ Head(todo').op = "pg"
          /\ ~UsePG => todo' # <<>> /\ Head(todo').op = "summary"
      BY <2>2, Stages
    <3>3. ~AtConnect' /\ ~AtInfo' /\ (UsePG => ~AtSummary')
      BY <3>2, StageNext, SyncFlagsAssumption
    <3>4. UsePG => AtPg'
      BY <2>2, <2>5, <3>1 DEF AtPg, AfterConnect, Write
    <3>5. ~UsePG => AtSummary' /\ ~AtPg'
      BY <2>2, <2>5, <3>1, Stages, Zenon DEF AtSummary, AtPg
    <3>6. QED
      BY <3>2, <3>3, <3>4, <3>5, SyncFlagsAssumption
  <2>7. InRun'
    BY <1>2, <2>2, <2>6, SyncFlagsAssumption DEF InRun
  <2>8. ASSUME reorgs = 0 PROVE DiskStraight' /\ RunStraight'
    <3>1. DiskStraight /\ Level(stakeHeight, stakeHeight, stakeHeight)
      BY <1>2, <1>7, <2>8 DEF RunStraight
    <3>2. PICK h \in Nat : h = stakeHeight
      BY <1>4
    <3>3. Level(h, h, h)
      BY <3>1, <3>2 DEF Level, PgUpTo
    <3>4. Level(h, h, h)'
      BY <1>1, <3>3, DiskKept
    <3>5. tipHeight' - 1 = h
      BY <1>1, <1>4, <2>3, <3>2 DEF tipHeight
    <3>6. Level(tipHeight - 1, tipHeight - 1, tipHeight - 1)'
      BY <3>4, <3>5 DEF Level, PgUpTo
    <3>7. ~UsePG => Level(tipHeight - 1, tipHeight - 1, tipHeight)'
      BY <3>6 DEF Level
    <3>8. RunStraight'
      BY <2>6, <3>6, <3>7, SyncFlagsAssumption DEF RunStraight, Resting
    <3>9. stakeHeight' <= tipHeight' /\ stakeTip' = On(stakeHeight)'
      BY <1>1, <1>2, <1>4, <2>2, MainChain DEF stakeHeight, tipHeight, On
    <3>10. OnChain(summary)' /\ OnChain(stakeInfo)' /\ \E n \in -1..tipHeight' : PgUpTo(n)'
      BY <1>1, <3>1 DEF DiskStraight, OnChain, PgUpTo, On, tipHeight
    <3>11. QED
      BY <3>8, <3>9, <3>10 DEF DiskStraight
  <2>9. QED
    BY <1>1, <1>2, <1>5, <2>2, <2>6, <2>7, <2>8, RunFrame, DiskKept
<1>8. CASE IsChild(b, stakeTip) /\ ~AtConnect
  <2>1. PICK k \in Heights, m \in Nat : reorgs > 0 /\ AtReorg(k, m)
    BY <1>2, <1>3, <1>8
  <2>2. PICK n : n = tipHeight - k
    OBVIOUS
  <2>3. k \in Nat /\ n \in Nat /\ n > 0 /\ tipHeight = k + n
    BY <1>2, <2>1, <2>2, ReorgHead
  <2>4. m > 0 /\ m <= n /\ b = On(k + m)
    <3>1. m = 0 \/ (m > 0 /\ m <= n) \/ m > n
      BY <2>3
    <3>2. QED
      BY <1>1, <1>2, <2>1, <2>2, <3>1, ReorgHead
  <2>5. Height(b) = k + m /\ Height(b) = stakeHeight + 1
    <3>1. k + m \in 0..tipHeight
      BY <2>3, <2>4
    <3>2. QED
      BY <1>2, <1>4, <1>8, <2>4, <3>1, MainChain, Children DEF stakeHeight
  <2>6. Reach(k)
    <3>1. ReorgPlace(k, m) /\ tipHeight - k = n
      BY <2>1, <2>2 DEF AtReorg
    <3>2. CASE m = 1
      BY <1>4, <2>3, <2>5, <3>1, <3>2 DEF ReorgPlace, Reach
    <3>3. CASE m > 1
      BY <2>3, <2>4, <3>1, <3>3 DEF ReorgPlace
    <3>4. QED
      BY <2>4, <3>2, <3>3
  <2>7. ReorgPlace(k, m + 1)'
    <3>1. stakeHeight' = k + (m + 1) - 1 /\ tipHeight' - k = n /\ Reach(k)'
      BY <1>1, <1>8, <2>2, <2>3, <2>5, <2>6 DEF stakeHeight, tipHeight, Reach
    <3>2. m + 1 > 1 /\ m + 1 <= n + 1
      BY <2>3, <2>4
    <3>3. QED
      BY <2>3, <3>1, <3>2 DEF ReorgPlace
  <2>8. InRun'
    BY <1>1, <1>2, <1>8, <2>1, <2>7, ReorgNext
  <2>9. QED
    BY <1>1, <1>5, <2>1, <2>8, RunFrame, DiskKept
<1>9. QED
  BY <1>6, <1>7, <1>8

\* PostgreSQL stores the block that has been connected.
LEMMA RunPgStep ==
    ASSUME SyncInv, RunPg
    PROVE  SyncInv'
<1>1. /\ main = "run" /\ main' = "run" /\ todo # <<>> /\ Head(todo).op = "pg"
      /\ pgBlocks' = pgBlocks \union {Head(todo).block}
      /\ todo' = Tail(todo) /\ stuck' = stuck
      /\ UNCHANGED <<nodeTip, moves, reorgs, stakeTip, summary, stakeInfo, stops,
                     mustDelete, poolInfo, sq, pq>>
  BY DEF RunPg, Writes, Written, nodeVars, mainVars
<1>2. /\ TypeOK /\ ~stuck
      /\ reorgs = 0 => DiskStraight /\ RunStraight
      /\ \/ AtConnect \/ AtPg \/ AtSummary \/ AtInfo
         \/ reorgs > 0 /\ \E k \in Heights, m \in Nat : AtReorg(k, m)
  BY <1>1, RunFacts
<1>3. AtPg
  <2>1. ~AtConnect /\ ~AtSummary /\ ~AtInfo
    BY <1>1, StageNow
  <2>2. ASSUME NEW k \in Heights, NEW m \in Nat, AtReorg(k, m) PROVE FALSE
    <3>1. PICK n : n = tipHeight - k
      OBVIOUS
    <3>2. n \in Nat
      BY <1>2, <2>2, <3>1, ReorgHead
    <3>3. m = 0 \/ (m > 0 /\ m <= n) \/ m > n
      BY <3>2
    <3>4. QED
      BY <1>1, <1>2, <2>2, <3>1, <3>3, ReorgHead
  <2>3. QED
    BY <1>2, <2>1, <2>2
<1>4. /\ Head(todo).block = nodeTip /\ Connected
      /\ todo' = Write("summary", nodeTip) \o Write("info", nodeTip)
  BY <1>1, <1>3, StageNow DEF AtPg
<1>5. TypeOK' /\ PgBounded'
  <2>1. nodeTip \in Blocks
    BY <1>2 DEF TypeOK
  <2>2. pgBlocks' = pgBlocks \union {nodeTip}
    BY <1>1, <1>4
  <2>3. PgBounded'
    BY <1>2, <2>1, <2>2, PgOneMore DEF SyncInv
  <2>4. QED
    BY <1>1, <1>2, <2>1, <2>2, <2>3, TodoTyped DEF TypeOK
<1>6. AtSummary'
  BY <1>1, <1>4 DEF AtSummary, Connected, Reach, tipHeight
<1>7. ~AtConnect' /\ ~AtPg' /\ ~AtInfo' /\ ~Resting'
  BY <1>6, StageNext DEF Resting
<1>8. InRun'
  BY <1>1, <1>2, <1>6 DEF InRun
<1>9. ASSUME reorgs = 0 PROVE DiskStraight' /\ RunStraight'
  <2>1. /\ DiskStraight /\ UsePG
        /\ Level(tipHeight - 1, tipHeight - 1, tipHeight - 1)
    BY <1>2, <1>3, <1>9 DEF RunStraight, AtPg
  <2>2. PICK d \in Int : d = tipHeight - 1 /\ d >= -1
    BY <1>2, MainChain
  <2>3. PICK m \in Nat : m = tipHeight /\ m = d + 1
    BY <1>2, <2>2, MainChain
  <2>4. PgUpTo(d) /\ Top(summary) = d /\ Top(stakeInfo) = d
    BY <2>1, <2>2 DEF Level, PgUpTo
  <2>5. On(m) = nodeTip
    BY <1>2, <2>3, MainChain
  <2>6. PgUpTo(m)'
    BY <1>1, <1>4, <2>2, <2>3, <2>4, <2>5, PgNextOn
  <2>7. Level(d, d, m)'
    BY <1>1, <2>4, <2>6 DEF Level
  <2>8. tipHeight' = m /\ tipHeight' - 1 = d
    BY <1>1, <2>2, <2>3 DEF tipHeight
  <2>9. Level(tipHeight - 1, tipHeight - 1, tipHeight)'
    BY <2>7, <2>8 DEF Level, PgUpTo
  <2>10. RunStraight'
    BY <1>7, <2>9 DEF RunStraight
  <2>11. OnChain(summary)' /\ OnChain(stakeInfo)' /\ stakeHeight' <= tipHeight'
         /\ stakeTip' = On(stakeHeight)'
    BY <1>1, <2>1 DEF DiskStraight, OnChain, On, stakeHeight, tipHeight
  <2>12. m \in -1..tipHeight'
    BY <2>8
  <2>13. QED
    BY <2>6, <2>10, <2>11, <2>12 DEF DiskStraight
<1>10. Whole(summary)' /\ Whole(stakeInfo)'
  BY <1>1 DEF SyncInv
<1>11. QED
  BY <1>1, <1>2, <1>5, <1>7, <1>8, <1>9, <1>10, RunFrame

\* What a row stored by a handler does to a table.
LEMMA RunRow ==
    ASSUME SyncInv, NEW t \in Table, Whole(t), NEW b \in Blocks, NEW h \in Heights,
           h = Height(b), h <= Top(t) + 1
    PROVE  LET u == [t EXCEPT ![h] = Row(b)]
           IN  /\ u \in Table /\ Whole(u) /\ Top(u) \in Int
               /\ Top(u) >= Top(t) /\ Top(u) >= h
               /\ Top(u) = IF h = Top(t) + 1 THEN h ELSE Top(t)
<1> DEFINE u == [t EXCEPT ![h] = Row(b)]
<1>1. TypeOK /\ Row(b) \in Rowed
  BY RowOf DEF SyncInv
<1>2. Top(t) \in Int /\ h \in Int
  BY TopIsInt, HeightsAreNat
<1>3. u \in Table /\ Whole(u) /\ Top(u) = IF h = Top(t) + 1 THEN h ELSE Top(t)
  BY <1>1, RowAdded
<1> HIDE DEF u
<1>4. Top(u) \in Int /\ Top(u) >= Top(t) /\ Top(u) >= h
  <2>1. CASE h = Top(t) + 1
    BY <1>2, <1>3, <2>1
  <2>2. CASE h # Top(t) + 1
    BY <1>2, <1>3, <2>2
  <2>3. QED
    BY <2>1, <2>2
<1>5. QED
  BY <1>3, <1>4 DEF u

\* SQLite stores a block's summary.
LEMMA RunSummaryStep ==
    ASSUME SyncInv, RunSummary
    PROVE  SyncInv'
<1>1. /\ main = "run" /\ main' = "run" /\ todo # <<>> /\ Head(todo).op = "summary"
      /\ summary' = [summary EXCEPT ![Height(Head(todo).block)] = Row(Head(todo).block)]
      /\ todo' = Tail(todo) /\ stuck' = stuck
      /\ UNCHANGED <<nodeTip, moves, reorgs, stakeTip, stakeInfo, pgBlocks, stops,
                     mustDelete, poolInfo, sq, pq>>
  BY DEF RunSummary, Writes, Written, nodeVars, mainVars
<1>2. /\ TypeOK /\ ~stuck
      /\ reorgs = 0 => DiskStraight /\ RunStraight
      /\ \/ AtConnect \/ AtPg \/ AtSummary \/ AtInfo
         \/ reorgs > 0 /\ \E k \in Heights, m \in Nat : AtReorg(k, m)
  BY <1>1, RunFacts
<1>3. ~AtConnect /\ ~AtPg /\ ~AtInfo
  BY <1>1, StageNow
<1>4. PICK b \in Blocks, h \in Heights :
        /\ b = Head(todo).block /\ h = Height(b) /\ h \in Nat
        /\ summary' = [summary EXCEPT ![h] = Row(b)]
  BY <1>1, <1>2, TodoTyped, HeightOfBlock
<1>5. /\ stakeHeight \in Nat /\ tipHeight \in Nat /\ summary \in Table /\ Whole(summary)
      /\ Top(summary) \in Int /\ Top(stakeInfo) \in Int
  BY <1>2, StakePlace, MainChain, TablePlaces DEF SyncInv
<1>6. ASSUME h <= Top(summary) + 1
      PROVE  /\ TypeOK' /\ Whole(summary)' /\ Whole(stakeInfo)' /\ PgBounded'
             /\ Top(summary)' \in Int /\ Top(summary)' >= Top(summary) /\ Top(summary)' >= h
             /\ Top(summary)' = IF h = Top(summary) + 1 THEN h ELSE Top(summary)
  <2> DEFINE u == [summary EXCEPT ![h] = Row(b)]
  <2>1. /\ u \in Table /\ Whole(u) /\ Top(u) \in Int /\ Top(u) >= Top(summary) /\ Top(u) >= h
        /\ Top(u) = IF h = Top(summary) + 1 THEN h ELSE Top(summary)
    <3>1. b \in Blocks /\ h \in Heights /\ h = Height(b) /\ h <= Top(summary) + 1
          /\ summary \in Table /\ Whole(summary)
      BY <1>4, <1>5, <1>6
    <3>2. QED
      BY <3>1, RunRow
  <2>2. summary' = u
    BY <1>4
  <2> HIDE DEF u
  <2>3. Whole(summary)' /\ Top(summary)' = Top(u)
    BY <2>1, <2>2 DEF Whole, Filled
  <2>4. TypeOK'
    BY <1>1, <1>2, <2>1, <2>2, TodoTyped DEF TypeOK, Table
  <2>5. Whole(stakeInfo)' /\ PgBounded'
    BY <1>1 DEF SyncInv, PgBounded, PgGreatest
  <2>6. QED
    BY <2>1, <2>3, <2>4, <2>5
<1>7. CASE AtSummary
  <2>1. b = nodeTip /\ h = tipHeight /\ todo' = Write("info", nodeTip) /\ Connected
    BY <1>1, <1>4, <1>7, StageNow DEF AtSummary, tipHeight
  <2>2. stakeTip = nodeTip /\ stakeHeight = tipHeight /\ h <= Top(summary) + 1
        /\ tipHeight - 1 <= Top(stakeInfo) /\ tipHeight - 1 <= Top(summary)
    BY <1>5, <2>1 DEF Connected, Reach, stakeHeight, tipHeight
  <2>3. Connected' /\ tipHeight' <= Top(summary)'
    BY <1>1, <1>5, <1>6, <2>1, <2>2 DEF Connected, Reach, tipHeight
  <2>4. AtInfo'
    BY <1>1, <2>1, <2>3 DEF AtInfo
  <2>5. ~AtConnect' /\ ~AtPg' /\ ~AtSummary' /\ ~Resting'
    BY <2>4, StageNext DEF Resting
  <2>6. InRun'
    BY <1>1, <1>2, <2>4 DEF InRun
  <2>7. ASSUME reorgs = 0 PROVE DiskStraight' /\ RunStraight'
    <3>1. DiskStraight /\ Level(tipHeight - 1, tipHeight - 1, tipHeight)
      BY <1>2, <1>7, <2>7 DEF RunStraight
    <3>2. OnChain(summary)'
      <4> DEFINE u == [summary EXCEPT ![stakeHeight] = Row(stakeTip)]
      <4>1. OnChain(u)
        BY <1>2, <1>5, <2>1, <2>2, <3>1, RowStored DEF DiskStraight
      <4>2. summary' = u
        BY <1>4, <2>1, <2>2
      <4> HIDE DEF u
      <4>3. QED
        BY <1>1, <4>1, <4>2 DEF OnChain, On, tipHeight
    <3>3. OnChain(stakeInfo)' /\ stakeHeight' <= tipHeight' /\ stakeTip' = On(stakeHeight)'
          /\ \E n \in -1..tipHeight' : PgUpTo(n)'
      BY <1>1, <3>1 DEF DiskStraight, OnChain, PgUpTo, On, stakeHeight, tipHeight
    <3>4. Top(summary)' = tipHeight /\ Top(stakeInfo) = tipHeight - 1
      BY <1>5, <1>6, <2>1, <2>2, <3>1 DEF Level
    <3>5. tipHeight' = tipHeight /\ Top(stakeInfo)' = Top(stakeInfo)
      BY <1>1 DEF tipHeight
    <3>6. UsePG => PgUpTo(tipHeight)'
      BY <1>1, <3>1 DEF Level, PgUpTo, On, tipHeight
    <3>7. Level(tipHeight, tipHeight - 1, tipHeight)'
      BY <3>4, <3>5, <3>6 DEF Level
    <3>8. QED
      BY <2>5, <3>2, <3>3, <3>7 DEF DiskStraight, RunStraight
  <2>8. QED
    BY <1>1, <1>2, <1>6, <2>2, <2>5, <2>6, <2>7, RunFrame
<1>8. CASE ~AtSummary
  <2>1. PICK k \in Heights, m \in Nat : reorgs > 0 /\ AtReorg(k, m)
    BY <1>2, <1>3, <1>8
  <2>2. PICK n : n = tipHeight - k
    OBVIOUS
  <2>3. k \in Nat /\ n \in Nat /\ n > 0 /\ tipHeight = k + n /\ m <= 3 * n
    BY <1>2, <2>1, <2>2, ReorgHead
  <2>4. m > n /\ (m - n) % 2 = 1 /\ b = On(k + (m + 1 - n) \div 2)
    <3>1. m = 0 \/ (m > 0 /\ m <= n) \/ m > n
      BY <2>3
    <3>2. /\ m = 0 => Head(todo).op = "rewind"
          /\ m > 0 /\ m <= n => Head(todo).op = "connect"
          /\ m > n /\ (m - n) % 2 # 1 => Head(todo).op = "info"
          /\ m > n => Head(todo).block = On(k + (m + 1 - n) \div 2)
      BY <1>2, <2>1, <2>2, ReorgHead
    <3>3. m > n /\ (m - n) % 2 = 1
      BY <1>1, <3>1, <3>2
    <3>4. QED
      BY <1>4, <3>2, <3>3
  <2>5. PICK j \in Nat : m = n + 2 * j + 1 /\ j < n
    <3>1. (m - n) \div 2 \in Nat /\ m - n = 2 * ((m - n) \div 2) + 1
      BY <2>3, <2>4
    <3>2. QED
      BY <2>3, <3>1
  <2>6. /\ (m + 1 - n) \div 2 = j + 1 /\ (m - n) \div 2 = j /\ (m - n - 1) \div 2 = j
    <3>1. m + 1 - n = 2 * j + 2 /\ m - n = 2 * j + 1 /\ m - n - 1 = 2 * j
      BY <2>3, <2>5
    <3>2. (2 * j + 2) \div 2 = j + 1 /\ (2 * j + 1) \div 2 = j /\ (2 * j) \div 2 = j
      OBVIOUS
    <3>3. QED
      BY <3>1, <3>2
  <2>7. h = k + j + 1
    <3>1. k + (j + 1) \in 0..tipHeight
      BY <2>3, <2>5
    <3>2. Height(On(k + (j + 1))) = k + (j + 1)
      BY <1>2, <3>1, MainChain
    <3>3. QED
      BY <1>4, <2>3, <2>4, <2>5, <2>6, <3>2
  <2>8. /\ stakeHeight = tipHeight /\ h <= Top(summary) + 1 /\ k + j <= Top(stakeInfo)
    <3>1. ReorgPlace(k, m) /\ tipHeight - k = n
      BY <2>1, <2>2 DEF AtReorg
    <3>2. CASE m = n + 1
      <4>1. stakeHeight = k + m - 1 /\ Reach(k) /\ j = 0
        BY <2>3, <2>5, <3>1, <3>2 DEF ReorgPlace
      <4>2. QED
        BY <1>5, <2>3, <2>7, <3>2, <4>1 DEF Reach
    <3>3. CASE m > n + 1
      <4>1. stakeHeight = tipHeight /\ k + (m - n) \div 2 <= Top(summary)
            /\ k + (m - n - 1) \div 2 <= Top(stakeInfo)
        BY <3>1, <3>3 DEF ReorgPlace
      <4>2. QED
        BY <1>5, <2>3, <2>5, <2>6, <2>7, <4>1
    <3>4. QED
      BY <2>3, <2>4, <3>2, <3>3
  <2>9. ReorgPlace(k, m + 1)'
    <3>1. tipHeight' - k = n /\ stakeHeight' = tipHeight' /\ Top(stakeInfo)' = Top(stakeInfo)
      BY <1>1, <2>2, <2>8 DEF stakeHeight, tipHeight
    <3>2. m + 1 > n + 1 /\ (m + 1 - n - 1) \div 2 = j
      <4>1. m + 1 - n - 1 = m - n
        BY <2>3
      <4>2. QED
        BY <2>3, <2>4, <2>6, <4>1
    <3>3. k + (m + 1 - n) \div 2 <= Top(summary)'
      BY <1>5, <1>6, <2>3, <2>5, <2>6, <2>7, <2>8
    <3>4. k + (m + 1 - n - 1) \div 2 <= Top(stakeInfo)'
      BY <2>8, <3>1, <3>2
    <3>5. ~(m + 1 <= 1) /\ ~(m + 1 = 1) /\ ~(m + 1 <= n + 1)
      BY <2>3, <3>2
    <3>6. QED
      BY <2>3, <3>1, <3>2, <3>3, <3>4, <3>5 DEF ReorgPlace
  <2>10. InRun'
    BY <1>1, <1>2, <2>1, <2>9, ReorgNext
  <2>11. QED
    BY <1>1, <1>6, <2>1, <2>8, <2>10, RunFrame
<1>9. QED
  BY <1>7, <1>8

\* SQLite stores a block's stake info.
LEMMA RunInfoStep ==
    ASSUME SyncInv, RunInfo
    PROVE  SyncInv'
<1>1. /\ main = "run" /\ main' = "run" /\ todo # <<>> /\ Head(todo).op = "info"
      /\ stakeInfo' = [stakeInfo EXCEPT ![Height(Head(todo).block)] = Row(Head(todo).block)]
      /\ todo' = Tail(todo) /\ stuck' = stuck
      /\ UNCHANGED <<nodeTip, moves, reorgs, stakeTip, summary, pgBlocks, stops,
                     mustDelete, poolInfo, sq, pq>>
  BY DEF RunInfo, Writes, Written, nodeVars, mainVars
<1>2. /\ TypeOK /\ ~stuck
      /\ reorgs = 0 => DiskStraight /\ RunStraight
      /\ \/ AtConnect \/ AtPg \/ AtSummary \/ AtInfo
         \/ reorgs > 0 /\ \E k \in Heights, m \in Nat : AtReorg(k, m)
  BY <1>1, RunFacts
<1>3. ~AtConnect /\ ~AtPg /\ ~AtSummary
  BY <1>1, StageNow
<1>4. PICK b \in Blocks, h \in Heights :
        /\ b = Head(todo).block /\ h = Height(b) /\ h \in Nat
        /\ stakeInfo' = [stakeInfo EXCEPT ![h] = Row(b)]
  BY <1>1, <1>2, TodoTyped, HeightOfBlock
<1>5. /\ stakeHeight \in Nat /\ tipHeight \in Nat /\ stakeInfo \in Table /\ Whole(stakeInfo)
      /\ Top(summary) \in Int /\ Top(stakeInfo) \in Int
  BY <1>2, StakePlace, MainChain, TablePlaces DEF SyncInv
<1>6. ASSUME h <= Top(stakeInfo) + 1
      PROVE  /\ TypeOK' /\ Whole(summary)' /\ Whole(stakeInfo)' /\ PgBounded'
             /\ Top(stakeInfo)' \in Int /\ Top(stakeInfo)' >= Top(stakeInfo)
             /\ Top(stakeInfo)' >= h
             /\ Top(stakeInfo)' = IF h = Top(stakeInfo) + 1 THEN h ELSE Top(stakeInfo)
  <2> DEFINE u == [stakeInfo EXCEPT ![h] = Row(b)]
  <2>1. /\ u \in Table /\ Whole(u) /\ Top(u) \in Int
        /\ Top(u) >= Top(stakeInfo) /\ Top(u) >= h
        /\ Top(u) = IF h = Top(stakeInfo) + 1 THEN h ELSE Top(stakeInfo)
    <3>1. b \in Blocks /\ h \in Heights /\ h = Height(b) /\ h <= Top(stakeInfo) + 1
          /\ stakeInfo \in Table /\ Whole(stakeInfo)
      BY <1>4, <1>5, <1>6
    <3>2. QED
      BY <3>1, RunRow
  <2>2. stakeInfo' = u
    BY <1>4
  <2> HIDE DEF u
  <2>3. Whole(stakeInfo)' /\ Top(stakeInfo)' = Top(u)
    BY <2>1, <2>2 DEF Whole, Filled
  <2>4. TypeOK'
    BY <1>1, <1>2, <2>1, <2>2, TodoTyped DEF TypeOK, Table
  <2>5. Whole(summary)' /\ PgBounded'
    BY <1>1 DEF SyncInv, PgBounded, PgGreatest
  <2>6. QED
    BY <2>1, <2>3, <2>4, <2>5
<1>7. CASE AtInfo
  <2>1. b = nodeTip /\ h = tipHeight /\ todo' = <<>> /\ Connected /\ tipHeight <= Top(summary)
    BY <1>1, <1>4, <1>7, StageNow DEF AtInfo, tipHeight
  <2>2. stakeTip = nodeTip /\ stakeHeight = tipHeight /\ h <= Top(stakeInfo) + 1
        /\ tipHeight - 1 <= Top(stakeInfo)
    BY <1>5, <2>1 DEF Connected, Reach, stakeHeight, tipHeight
  <2>3. Resting'
    BY <1>1, <1>5, <1>6, <2>1, <2>2 DEF Resting, Reach, stakeHeight
  <2>4. ~AtConnect' /\ ~AtPg' /\ ~AtSummary' /\ ~AtInfo'
    BY <2>1, StageNext
  <2>5. InRun'
    BY <1>1, <1>2, <2>3 DEF InRun
  <2>6. ASSUME reorgs = 0 PROVE DiskStraight' /\ RunStraight'
    <3>1. DiskStraight /\ Level(tipHeight, tipHeight - 1, tipHeight)
      BY <1>2, <1>7, <2>6 DEF RunStraight
    <3>2. OnChain(stakeInfo)'
      <4> DEFINE u == [stakeInfo EXCEPT ![stakeHeight] = Row(stakeTip)]
      <4>1. OnChain(u)
        BY <1>2, <1>5, <2>1, <2>2, <3>1, RowStored DEF DiskStraight
      <4>2. stakeInfo' = u
        BY <1>4, <2>1, <2>2
      <4> HIDE DEF u
      <4>3. QED
        BY <1>1, <4>1, <4>2 DEF OnChain, On, tipHeight
    <3>3. OnChain(summary)' /\ stakeHeight' <= tipHeight' /\ stakeTip' = On(stakeHeight)'
          /\ \E n \in -1..tipHeight' : PgUpTo(n)'
      BY <1>1, <3>1 DEF DiskStraight, OnChain, PgUpTo, On, stakeHeight, tipHeight
    <3>4. Top(summary) = tipHeight /\ Top(stakeInfo)' = tipHeight
      BY <1>5, <1>6, <2>1, <2>2, <3>1 DEF Level
    <3>5. stakeHeight' = tipHeight /\ Top(summary)' = Top(summary)
      BY <1>1, <2>2 DEF stakeHeight
    <3>6. UsePG => PgUpTo(stakeHeight)'
      BY <1>1, <2>2, <3>1 DEF Level, PgUpTo, On, stakeHeight
    <3>7. Level(stakeHeight, stakeHeight, stakeHeight)'
      BY <3>4, <3>5, <3>6 DEF Level
    <3>8. QED
      BY <2>4, <3>2, <3>3, <3>7 DEF DiskStraight, RunStraight
  <2>7. QED
    BY <1>1, <1>2, <1>6, <2>2, <2>4, <2>5, <2>6, RunFrame
<1>8. CASE ~AtInfo
  <2>1. PICK k \in Heights, m \in Nat : reorgs > 0 /\ AtReorg(k, m)
    BY <1>2, <1>3, <1>8
  <2>2. PICK n : n = tipHeight - k
    OBVIOUS
  <2>3. k \in Nat /\ n \in Nat /\ n > 0 /\ tipHeight = k + n /\ m <= 3 * n
    BY <1>2, <2>1, <2>2, ReorgHead
  <2>4. m > n /\ (m - n) % 2 # 1 /\ b = On(k + (m + 1 - n) \div 2)
    <3>1. m = 0 \/ (m > 0 /\ m <= n) \/ m > n
      BY <2>3
    <3>2. /\ m = 0 => Head(todo).op = "rewind"
          /\ m > 0 /\ m <= n => Head(todo).op = "connect"
          /\ m > n /\ (m - n) % 2 = 1 => Head(todo).op = "summary"
          /\ m > n => Head(todo).block = On(k + (m + 1 - n) \div 2)
      BY <1>2, <2>1, <2>2, ReorgHead
    <3>3. m > n /\ (m - n) % 2 # 1
      BY <1>1, <3>1, <3>2
    <3>4. QED
      BY <1>4, <3>2, <3>3
  <2>5. PICK j \in Nat : m = n + 2 * j /\ j > 0 /\ j <= n
    <3>1. (m - n) \div 2 \in Nat /\ m - n = 2 * ((m - n) \div 2)
      BY <2>3, <2>4
    <3>2. QED
      BY <2>3, <2>4, <3>1
  <2>6. /\ (m + 1 - n) \div 2 = j /\ (m - n) \div 2 = j /\ (m - n - 1) \div 2 = j - 1
    <3>1. m + 1 - n = 2 * j + 1 /\ m - n = 2 * j /\ m - n - 1 = 2 * (j - 1) + 1
      BY <2>3, <2>5
    <3>2. (2 * j + 1) \div 2 = j /\ (2 * j) \div 2 = j /\ (2 * (j - 1) + 1) \div 2 = j - 1
      BY <2>5
    <3>3. QED
      BY <3>1, <3>2
  <2>7. h = k + j
    <3>1. k + j \in 0..tipHeight
      BY <2>3, <2>5
    <3>2. Height(On(k + j)) = k + j
      BY <1>2, <3>1, MainChain
    <3>3. QED
      BY <1>4, <2>4, <2>6, <3>2
  <2>8. stakeHeight = tipHeight /\ k + j <= Top(summary) /\ k + (j - 1) <= Top(stakeInfo)
    <3>1. ReorgPlace(k, m) /\ tipHeight - k = n /\ m > n + 1
      BY <2>1, <2>2, <2>3, <2>5 DEF AtReorg
    <3>2. stakeHeight = tipHeight /\ k + (m - n) \div 2 <= Top(summary)
          /\ k + (m - n - 1) \div 2 <= Top(stakeInfo)
      BY <3>1 DEF ReorgPlace
    <3>3. QED
      BY <2>6, <3>2
  <2>9. h <= Top(stakeInfo) + 1
    BY <1>5, <2>3, <2>5, <2>7, <2>8
  <2>10. ReorgPlace(k, m + 1)'
    <3>1. tipHeight' - k = n /\ stakeHeight' = tipHeight' /\ Top(summary)' = Top(summary)
      BY <1>1, <2>2, <2>8 DEF stakeHeight, tipHeight
    <3>2. m + 1 > n + 1 /\ (m + 1 - n - 1) \div 2 = j
      <4>1. m + 1 - n - 1 = m - n
        BY <2>3
      <4>2. QED
        BY <2>3, <2>4, <2>6, <4>1
    <3>3. k + (m + 1 - n) \div 2 <= Top(summary)'
      BY <2>6, <2>8, <3>1
    <3>4. k + (m + 1 - n - 1) \div 2 <= Top(stakeInfo)'
      BY <1>6, <2>7, <2>9, <3>2
    <3>5. ~(m + 1 <= 1) /\ ~(m + 1 = 1) /\ ~(m + 1 <= n + 1)
      BY <2>3, <3>2
    <3>6. QED
      BY <2>3, <3>1, <3>2, <3>3, <3>4, <3>5 DEF ReorgPlace
  <2>11. InRun'
    BY <1>1, <1>2, <2>1, <2>10, ReorgNext
  <2>12. QED
    BY <1>1, <1>6, <2>1, <2>9, <2>11, RunFrame
<1>9. QED
  BY <1>7, <1>8

-----------------------------------------------------------------------------
(***************************************************************************)
(* The node.                                                               *)
(***************************************************************************)

\* It moves when nothing is left to do.
LEMMA RestingNow ==
    ASSUME SyncInv, main = "run", todo = <<>>, ~stuck
    PROVE  Resting
<1>1. ~AtConnect /\ ~AtPg /\ ~AtSummary /\ ~AtInfo
  BY StageNow
<1>2. ASSUME NEW k \in Heights, NEW m \in Nat, AtReorg(k, m) PROVE FALSE
  <2>1. Len(todo) = 3 * (tipHeight - k) + 1 - m /\ m < 3 * (tipHeight - k) + 1
    BY <1>2 DEF AtReorg
  <2>2. tipHeight \in Nat /\ k \in Nat /\ Len(todo) = 0
    BY MainChain, HeightsAreNat DEF SyncInv
  <2>3. QED
    BY <2>1, <2>2
<1>3. QED
  BY <1>1, <1>2 DEF SyncInv, InRun, InReorg

\* A move leaves the program where it is, and its targets are still heights of the chain.
LEMMA NodeMoved ==
    ASSUME SyncInv, NEW b \in Blocks, NEW writes, MoveTo(b, writes),
           Height(b) >= Height(nodeTip),
           writes \in Seq([op : {"rewind", "connect", "pg", "summary", "info"}, block : Blocks]),
           reorgs' \in 0..MaxReorgs
    PROVE  /\ TypeOK' /\ Whole(summary)' /\ Whole(stakeInfo)' /\ PgBounded' /\ InSync'
           /\ nodeTip' = b /\ tipHeight' = Height(b) /\ main' = main /\ stuck' = stuck
           /\ main = "run" /\ ~stuck => todo' = writes /\ Resting
           /\ main = "run" /\ stuck => todo' = <<>>
           /\ UNCHANGED <<stakeTip, summary, stakeInfo, pgBlocks, sq, pq>>
           /\ ~MayMoveInGap => ~Unnoticed
<1>1. /\ moves < MaxMoves /\ moves' = moves + 1 /\ nodeTip' = b
      /\ Unnoticed => MayMoveInGap
      /\ main = "run" => todo = <<>>
      /\ todo' = IF main = "run" /\ ~stuck THEN writes ELSE todo
      /\ UNCHANGED <<stakeTip, summary, stakeInfo, pgBlocks, main, stops, mustDelete,
                     poolInfo, sq, pq, stuck>>
  BY DEF MoveTo, diskVars, mainVars
<1>2. TypeOK /\ tipHeight \in Nat /\ tipHeight' = Height(b) /\ Height(b) \in Nat
      /\ tipHeight <= tipHeight'
  BY <1>1, MainChain, HeightOfBlock DEF SyncInv, tipHeight
<1>3. TypeOK'
  <2>1. moves' \in 0..MaxMoves
    BY <1>1, <1>2, SyncBoundsAssumption DEF TypeOK
  <2>2. todo' \in Seq([op : {"rewind", "connect", "pg", "summary", "info"}, block : Blocks])
    BY <1>1, <1>2 DEF TypeOK
  <2>3. QED
    BY <1>1, <1>2, <2>1, <2>2 DEF TypeOK
<1>4. Whole(summary)' /\ Whole(stakeInfo)' /\ PgBounded'
  BY <1>1 DEF SyncInv, PgBounded, PgGreatest
<1>5. ASSUME SqPlace PROVE SqPlace'
  <2>1. sq.target \in 0..tipHeight'
    BY <1>2, <1>5 DEF SqPlace
  <2>2. QED
    BY <1>1, <1>5, <2>1 DEF SqPlace, Reach, stakeHeight
<1>6. ASSUME PqPlace PROVE PqPlace'
  <2>1. pq.target \in 0..tipHeight'
    BY <1>2, <1>6 DEF PqPlace
  <2>2. QED
    BY <1>1, <1>6, <2>1 DEF PqPlace
<1>7. InSync'
  <2>1. main' = "sync" => (Begun' => SqPlace') /\ (pq'.pc # "start" => PqPlace')
    BY <1>1, <1>5, <1>6 DEF SyncInv, InSync, Begun
  <2>2. main' \in {"sync", "synced"} => todo' = <<>> /\ ~stuck'
    BY <1>1 DEF SyncInv, InSync
  <2>3. main' = "synced" => Reach(stakeHeight)'
    BY <1>1 DEF SyncInv, InSync, Reach, stakeHeight
  <2>4. QED
    BY <2>1, <2>2, <2>3 DEF InSync
<1>8. main = "run" /\ ~stuck => Resting
  BY <1>1, RestingNow
<1>9. QED
  BY <1>1, <1>2, <1>3, <1>4, <1>7, <1>8

\* What the stores have is still of the chain when it grows.
LEMMA ChainGrows ==
    ASSUME SyncInv, DiskStraight, NEW b \in Blocks, IsChild(b, nodeTip), nodeTip' = b,
           UNCHANGED <<stakeTip, summary, stakeInfo, pgBlocks>>
    PROVE  /\ DiskStraight' /\ tipHeight' = tipHeight + 1
           /\ \A n \in -1..tipHeight : PgUpTo(n) => PgUpTo(n)'
<1>1. /\ TypeOK /\ nodeTip \in Blocks /\ tipHeight \in Nat /\ tipHeight' = tipHeight + 1
      /\ \A h \in 0..tipHeight : On(h)' = On(h)
  BY MainChain, Children DEF SyncInv, tipHeight, On
<1>2. ASSUME NEW t \in Table, Whole(t), OnChain(t) PROVE OnChain(t)'
  <2>1. Top(t) \in Int /\ Top(t) <= tipHeight
    BY <1>2, TopIsInt DEF OnChain
  <2>2. ASSUME NEW h \in Heights, t[h] # NoRow PROVE t[h] = OwnRow(On(h))'
    <3>1. h \in Nat /\ h <= Top(t)
      BY <1>2, <2>2, HeightsAreNat DEF Whole, Filled
    <3>2. h \in 0..tipHeight
      BY <1>1, <2>1, <3>1
    <3>3. t[h] = OwnRow(On(h)) /\ On(h)' = On(h)
      BY <1>1, <1>2, <2>2, <3>2 DEF OnChain
    <3>4. QED
      BY <3>3 DEF OwnRow
  <2>3. Top(t) <= tipHeight'
    BY <1>1, <2>1
  <2>4. QED
    BY <2>2, <2>3 DEF OnChain
<1>3. OnChain(summary)' /\ OnChain(stakeInfo)'
  <2>1. PICK t, u : t = summary /\ u = stakeInfo
    OBVIOUS
  <2>2. OnChain(t)' /\ OnChain(u)'
    BY <1>2, <2>1, TablePlaces DEF SyncInv, DiskStraight
  <2>3. QED
    BY <2>1, <2>2 DEF OnChain
<1>4. \A n \in -1..tipHeight : PgUpTo(n) => PgUpTo(n)'
  <2>1. ASSUME NEW n \in -1..tipHeight, PgUpTo(n) PROVE PgUpTo(n)'
    <3>1. \A h \in 0..n : On(h)' = On(h)
      BY <1>1
    <3>2. QED
      BY <2>1, <3>1 DEF PgUpTo
  <2>2. QED
    BY <2>1
<1>5. stakeHeight' <= tipHeight' /\ stakeTip' = On(stakeHeight)'
  <2>1. PICK h \in Nat : h = stakeHeight /\ h <= tipHeight
    BY <1>1, StakePlace DEF DiskStraight
  <2>2. stakeTip = On(h) /\ On(h)' = On(h)
    BY <1>1, <2>1 DEF DiskStraight
  <2>3. stakeHeight' = h /\ h <= tipHeight'
    BY <1>1, <2>1 DEF stakeHeight
  <2>4. QED
    BY <2>2, <2>3 DEF On
<1>6. \E n \in -1..tipHeight' : PgUpTo(n)'
  <2>1. PICK n \in -1..tipHeight : PgUpTo(n)
    BY DEF DiskStraight
  <2>2. n \in -1..tipHeight' /\ PgUpTo(n)'
    BY <1>1, <1>4, <2>1
  <2>3. QED
    BY <2>2
<1>7. QED
  BY <1>1, <1>3, <1>4, <1>5, <1>6 DEF DiskStraight

\* The chain grows by a block.
LEMMA NodeExtendStep ==
    ASSUME SyncInv, NEW b \in Blocks, NodeExtend(b)
    PROVE  SyncInv'
<1>1. IsChild(b, nodeTip) /\ MoveTo(b, BlockWrites(b)) /\ reorgs' = reorgs
  BY DEF NodeExtend
<1>2. TypeOK /\ nodeTip \in Blocks /\ tipHeight \in Nat /\ stakeHeight \in Nat
  BY MainChain, StakePlace DEF SyncInv
<1>3. Height(b) = Height(nodeTip) + 1 /\ Height(b) >= Height(nodeTip)
  BY <1>1, <1>2, Children DEF tipHeight
<1>4. BlockWrites(b) = Write("connect", b) \o AfterConnect(b)
  BY Queues
<1>5. BlockWrites(b) \in Seq([op : {"rewind", "connect", "pg", "summary", "info"}, block : Blocks])
  <2> DEFINE C == [op |-> "connect", block |-> b]
             P == [op |-> "pg", block |-> b]
             S == [op |-> "summary", block |-> b]
             I == [op |-> "info", block |-> b]
             W == [op : {"rewind", "connect", "pg", "summary", "info"}, block : Blocks]
  <2>1. BlockWrites(b) = IF UsePG THEN <<C, P, S, I>> ELSE <<C, S, I>>
    BY Queues
  <2>2. C \in W /\ P \in W /\ S \in W /\ I \in W
    OBVIOUS
  <2> HIDE DEF C, P, S, I, W
  <2>3. BlockWrites(b) \in Seq(W)
    BY <2>1, <2>2
  <2>4. QED
    BY <2>3 DEF W
<1>6. reorgs' \in 0..MaxReorgs
  BY <1>1, <1>2 DEF TypeOK
<1>7. /\ TypeOK' /\ Whole(summary)' /\ Whole(stakeInfo)' /\ PgBounded' /\ InSync'
      /\ nodeTip' = b /\ tipHeight' = Height(b) /\ main' = main /\ stuck' = stuck
      /\ main = "run" /\ ~stuck => todo' = BlockWrites(b) /\ Resting
      /\ main = "run" /\ stuck => todo' = <<>>
      /\ UNCHANGED <<stakeTip, summary, stakeInfo, pgBlocks, sq, pq>>
      /\ ~MayMoveInGap => ~Unnoticed
  BY <1>1, <1>3, <1>5, <1>6, NodeMoved, Zenon
<1>8. ASSUME main = "run", ~stuck
      PROVE  AtConnect' /\ ~AtPg' /\ ~AtSummary' /\ ~AtInfo' /\ ~Resting'
  <2>1. todo' = Write("connect", b) \o AfterConnect(b) /\ Reach(stakeHeight)'
    BY <1>4, <1>7, <1>8 DEF Resting, Reach, stakeHeight
  <2>2. AtConnect'
    BY <1>7, <2>1 DEF AtConnect, AfterConnect, Write
  <2>3. QED
    BY <2>2, StageNext DEF Resting
<1>9. InRun'
  BY <1>7, <1>8 DEF InRun
<1>10. ASSUME reorgs = 0 PROVE Straight'
  <2>1. DiskStraight
    BY <1>10 DEF SyncInv, Straight
  <2>2. /\ DiskStraight' /\ tipHeight' = tipHeight + 1
        /\ \A n \in -1..tipHeight : PgUpTo(n) => PgUpTo(n)'
    BY <1>1, <1>7, <2>1, ChainGrows
  <2>3. ASSUME main = "sync" PROVE SyncStraight'
    <3>1. SyncStraight /\ (pq.pc # "start" => PqPlace)
      BY <1>10, <2>3, SyncFacts
    <3>2. Begun' => Top(summary)' <= sq'.target /\ Top(stakeInfo)' <= sq'.target
                    /\ sq'.done <= sq'.target
      BY <1>7, <3>1 DEF SyncStraight, Begun
    <3>3. ASSUME pq.pc # "start" PROVE pq'.done <= pq'.target /\ PgUpTo(pq.done)'
      <4>1. PICK n \in Int : n = pq.done /\ n >= -1
        BY <1>2, LocalTypes
      <4>2. n <= pq.target /\ pq.target \in 0..tipHeight /\ PgUpTo(n)
        BY <3>1, <3>3, <4>1 DEF SyncStraight, PqPlace, PgUpTo
      <4>3. PgUpTo(n)'
        BY <1>2, <2>2, <4>1, <4>2
      <4>4. QED
        BY <1>7, <4>1, <4>2, <4>3 DEF PgUpTo
    <3>4. QED
      BY <1>7, <3>2, <3>3 DEF SyncStraight
  <2>4. ASSUME Level(stakeHeight, stakeHeight, stakeHeight)
        PROVE  Level(stakeHeight, stakeHeight, stakeHeight)'
    <3>1. PICK h \in Nat : h = stakeHeight /\ h <= tipHeight
      BY <1>2, <2>1 DEF DiskStraight
    <3>2. UsePG => PgUpTo(h)'
      <4>1. UsePG => PgUpTo(h)
        BY <2>4, <3>1 DEF Level
      <4>2. h \in -1..tipHeight
        BY <1>2, <3>1
      <4>3. QED
        BY <2>2, <4>1, <4>2
    <3>3. stakeHeight' = h /\ Top(summary)' = h /\ Top(stakeInfo)' = h
      BY <1>7, <2>4, <3>1 DEF Level, stakeHeight
    <3>4. QED
      BY <3>2, <3>3 DEF Level, PgUpTo
  <2>5. main = "synced" => Level(stakeHeight, stakeHeight, stakeHeight)'
    BY <1>10, <2>4 DEF SyncInv, Straight
  <2>6. ASSUME main = "run", ~stuck PROVE RunStraight'
    <3>1. Level(stakeHeight, stakeHeight, stakeHeight)'
      BY <1>7, <1>10, <2>4, <2>6 DEF SyncInv, Straight, RunStraight
    <3>2. QED
      BY <1>8, <2>6, <3>1 DEF RunStraight
  <2>7. stuck => RunStraight'
    BY <1>7 DEF RunStraight
  <2>8. QED
    BY <1>7, <2>2, <2>3, <2>5, <2>6, <2>7 DEF Straight
<1>11. ASSUME reorgs = 0, ~MayMoveInGap PROVE Noticed'
  <2>1. Noticed /\ ~Unnoticed
    BY <1>7, <1>11 DEF SyncInv
  <2>2. main' # "synced" /\ ~(main' = "sync" /\ Unnoticed')
    BY <1>7, <2>1 DEF Unnoticed, SameHeight, More
  <2>3. ~stuck /\ (main = "run" => ~Resting' /\ (IsChild(nodeTip, stakeTip))')
    <3>1. ASSUME main = "run" PROVE ~Resting' /\ (IsChild(nodeTip, stakeTip))'
      <4>1. stakeTip = nodeTip /\ ~stuck
        BY <1>7, <2>1, <3>1 DEF Noticed
      <4>2. QED
        BY <1>1, <1>7, <1>8, <3>1, <4>1
    <3>2. QED
      BY <2>1, <3>1 DEF Noticed
  <2>4. QED
    BY <1>7, <2>2, <2>3 DEF Noticed
<1>12. QED
  BY <1>1, <1>7, <1>9, <1>10, <1>11 DEF SyncInv

\* What is to be written for a reorganization: one write after the other.
LEMMA ReorgQueue ==
    ASSUME NEW b \in Blocks, NEW k \in Nat, NEW n \in Nat, Height(b) = k + n, n > 0
    PROVE  LET q == ReorgWrites(b, k)
           IN  /\ q \in Seq([op : {"rewind", "connect", "pg", "summary", "info"},
                             block : Blocks])
               /\ Len(q) = 3 * n + 1
               /\ q[1] = [op |-> "rewind", block |-> Ancestor(b, k)]
               /\ \A i \in 2..(n + 1) :
                     q[i] = [op |-> "connect", block |-> Ancestor(b, k + (i - 1))]
               /\ \A i \in (n + 2)..(3 * n + 1) :
                     q[i] = [op |-> IF (i - n - 1) % 2 = 1 THEN "summary" ELSE "info",
                             block |-> Ancestor(b, k + (i - n) \div 2)]
<1> DEFINE W == [op : {"rewind", "connect", "pg", "summary", "info"}, block : Blocks]
           C(i) == [op |-> "connect", block |-> Ancestor(b, k + i)]
           R(i) == [op |-> IF i % 2 = 1 THEN "summary" ELSE "info",
                    block |-> Ancestor(b, k + (i + 1) \div 2)]
           r == [op |-> "rewind", block |-> Ancestor(b, k)]
           s == [i \in 1..n |-> C(i)]
           t == [i \in 1..(2 * n) |-> R(i)]
<1>1. r \in W
  <2>1. k \in 0..Height(b)
    OBVIOUS
  <2>2. QED
    BY <2>1, AncestorIsBlock
<1>2. \A i \in 1..n : C(i) \in W
  <2>1. \A i \in 1..n : k + i \in 0..Height(b)
    OBVIOUS
  <2>2. QED
    BY <2>1, AncestorIsBlock
<1>3. \A i \in 1..(2 * n) : R(i) \in W
  <2>1. \A i \in 1..(2 * n) : k + (i + 1) \div 2 \in 0..Height(b)
    OBVIOUS
  <2>2. QED
    BY <2>1, AncestorIsBlock
<1>4. ReorgWrites(b, k) = (<<r>> \o s) \o t
  <2>1. Height(b) - k = n
    OBVIOUS
  <2>2. \A op, c : Write(op, c)[1] = [op |-> op, block |-> c]
    BY DEF Write
  <2>3. s = [i \in 1..n |-> Write("connect", Ancestor(b, k + i))[1]]
    BY <2>2
  <2>4. t = [i \in 1..(2 * n) |->
               Write(IF i % 2 = 1 THEN "summary" ELSE "info",
                     Ancestor(b, k + (i + 1) \div 2))[1]]
    BY <2>2
  <2>5. <<r>> = Write("rewind", Ancestor(b, k))
    BY DEF Write
  <2> HIDE DEF r, s, t
  <2>6. QED
    BY <2>1, <2>3, <2>4, <2>5 DEF ReorgWrites
<1>5. s \in Seq(W) /\ Len(s) = n /\ \A i \in 1..n : s[i] = C(i)
  <2> HIDE DEF C, W
  <2>1. QED
    BY <1>2
<1>6. t \in Seq(W) /\ Len(t) = 2 * n /\ \A i \in 1..(2 * n) : t[i] = R(i)
  <2> HIDE DEF R, W
  <2>1. 2 * n \in Nat
    OBVIOUS
  <2>2. QED
    BY <1>3, <2>1
<1> HIDE DEF W, r, s, t, C, R
<1>7. <<r>> \in Seq(W) /\ Len(<<r>>) = 1 /\ <<r>>[1] = r
  BY <1>1
<1> DEFINE u == <<r>> \o s
<1>8. /\ u \in Seq(W) /\ Len(u) = n + 1 /\ u[1] = r
      /\ \A i \in 2..(n + 1) : u[i] = s[i - 1]
  BY <1>5, <1>7, ConcatProperties
<1> HIDE DEF u
<1> DEFINE q == u \o t
<1>9. /\ q \in Seq(W) /\ Len(q) = 3 * n + 1
      /\ \A i \in 1..(n + 1) : q[i] = u[i]
      /\ \A i \in (n + 2)..(3 * n + 1) : q[i] = t[i - (n + 1)]
  <2>1. /\ q \in Seq(W) /\ Len(q) = Len(u) + Len(t)
        /\ \A i \in 1..(Len(u) + Len(t)) :
              q[i] = IF i <= Len(u) THEN u[i] ELSE t[i - Len(u)]
    BY <1>6, <1>8, ConcatProperties
  <2>2. Len(u) = n + 1 /\ Len(u) + Len(t) = 3 * n + 1
    BY <1>6, <1>8
  <2> HIDE DEF q
  <2>3. \A i \in 1..(3 * n + 1) : q[i] = IF i <= n + 1 THEN u[i] ELSE t[i - (n + 1)]
    BY <2>1, <2>2
  <2>4. \A i \in 1..(n + 1) : q[i] = u[i]
    BY <2>3
  <2>5. \A i \in (n + 2)..(3 * n + 1) : q[i] = t[i - (n + 1)]
    BY <2>3
  <2>6. QED
    BY <2>1, <2>2, <2>4, <2>5
<1>10. q = ReorgWrites(b, k)
  BY <1>4 DEF u
<1> HIDE DEF q
<1>11. q[1] = r
  BY <1>8, <1>9
<1>12. ASSUME NEW i \in 2..(n + 1)
       PROVE  q[i] = [op |-> "connect", block |-> Ancestor(b, k + (i - 1))]
  <2>1. q[i] = s[i - 1] /\ i - 1 \in 1..n
    BY <1>8, <1>9
  <2>2. QED
    BY <1>5, <2>1 DEF C
<1>13. ASSUME NEW i \in (n + 2)..(3 * n + 1)
       PROVE  q[i] = [op |-> IF (i - n - 1) % 2 = 1 THEN "summary" ELSE "info",
                      block |-> Ancestor(b, k + (i - n) \div 2)]
  <2>1. PICK j \in Int : j = i - (n + 1) /\ j \in 1..(2 * n) /\ j = i - n - 1 /\ j + 1 = i - n
    OBVIOUS
  <2>2. q[i] = R(j)
    BY <1>6, <1>9, <2>1
  <2>3. QED
    BY <2>1, <2>2 DEF R
<1>14. QED
  BY <1>9, <1>10, <1>11, <1>12, <1>13 DEF W, r

\* The chain is replaced above height k by one that is not shorter.
LEMMA NodeReorgStep ==
    ASSUME SyncInv, NEW b \in Blocks, NEW k \in Heights, NodeReorg(b, k)
    PROVE  SyncInv'
<1>1. /\ reorgs < MaxReorgs /\ reorgs' = reorgs + 1 /\ k < Height(b)
      /\ Height(b) >= Height(nodeTip) /\ MoveTo(b, ReorgWrites(b, k))
  BY DEF NodeReorg, ForkAt
<1>2. TypeOK /\ k \in Nat /\ Height(b) \in Nat
  BY HeightsAreNat, HeightOfBlock DEF SyncInv
<1>3. reorgs' \in 0..MaxReorgs /\ reorgs' > 0
  BY <1>1, <1>2, SyncBoundsAssumption DEF TypeOK
<1>4. PICK n \in Nat : Height(b) = k + n /\ n > 0
  <2>1. Height(b) - k \in Nat /\ Height(b) = k + (Height(b) - k) /\ Height(b) - k > 0
    BY <1>1, <1>2
  <2>2. QED
    BY <2>1
<1>5. PICK q : q = ReorgWrites(b, k)
  OBVIOUS
<1>6. /\ q \in Seq([op : {"rewind", "connect", "pg", "summary", "info"}, block : Blocks])
      /\ Len(q) = 3 * n + 1
      /\ q[1] = [op |-> "rewind", block |-> Ancestor(b, k)]
      /\ \A i \in 2..(n + 1) : q[i] = [op |-> "connect", block |-> Ancestor(b, k + (i - 1))]
      /\ \A i \in (n + 2)..(3 * n + 1) :
            q[i] = [op |-> IF (i - n - 1) % 2 = 1 THEN "summary" ELSE "info",
                    block |-> Ancestor(b, k + (i - n) \div 2)]
  BY <1>2, <1>4, <1>5, ReorgQueue
<1>7. /\ TypeOK' /\ Whole(summary)' /\ Whole(stakeInfo)' /\ PgBounded' /\ InSync'
      /\ nodeTip' = b /\ tipHeight' = Height(b) /\ main' = main /\ stuck' = stuck
      /\ main = "run" /\ ~stuck => todo' = q /\ Resting
      /\ main = "run" /\ stuck => todo' = <<>>
      /\ UNCHANGED <<stakeTip, summary, stakeInfo, pgBlocks, sq, pq>>
  BY <1>1, <1>3, <1>5, <1>6, NodeMoved
<1>8. ASSUME main = "run", ~stuck PROVE AtReorg(k, 0)'
  <2>1. todo' = q /\ Reach(stakeHeight)'
    BY <1>7, <1>8 DEF Resting, Reach, stakeHeight
  <2>2. tipHeight' = k + n /\ tipHeight' - k = n
    BY <1>2, <1>4, <1>7
  <2>3. ASSUME NEW i \in 1..(3 * n + 1) PROVE q[i] = ReorgWrite(k, i)'
    <3>1. i = 1 \/ i \in 2..(n + 1) \/ i \in (n + 2)..(3 * n + 1)
      BY <1>4
    <3>2. CASE i = 1
      BY <1>6, <1>7, <3>2 DEF ReorgWrite, On
    <3>3. CASE i \in 2..(n + 1)
      <4>1. ~(i = 1) /\ i <= n + 1
        BY <3>3
      <4>2. QED
        BY <1>6, <1>7, <2>2, <3>3, <4>1 DEF ReorgWrite, On
    <3>4. CASE i \in (n + 2)..(3 * n + 1)
      <4>1. ~(i = 1) /\ ~(i <= n + 1)
        BY <3>4
      <4>2. q[i] = [op |-> IF (i - n - 1) % 2 = 1 THEN "summary" ELSE "info",
                    block |-> Ancestor(b, k + (i - n) \div 2)]
        BY <1>6, <3>4
      <4>3. QED
        BY <1>7, <2>2, <4>1, <4>2 DEF ReorgWrite, On
    <3>5. QED
      BY <3>1, <3>2, <3>3, <3>4
  <2>4. \A i \in 1..Len(todo') : todo'[i] = ReorgWrite(k, 0 + i)'
    BY <1>6, <2>1, <2>3
  <2>5. ReorgPlace(k, 0)'
    BY <1>4, <2>1, <2>2 DEF ReorgPlace
  <2>6. QED
    BY <1>2, <1>4, <1>6, <2>1, <2>2, <2>4, <2>5 DEF AtReorg
<1>9. InRun'
  BY <1>3, <1>7, <1>8 DEF InRun, InReorg
<1>10. QED
  BY <1>3, <1>7, <1>9 DEF SyncInv

-----------------------------------------------------------------------------
(***************************************************************************)
(* The theorems.                                                           *)
(***************************************************************************)

\* A stutter keeps the invariant.
LEMMA SyncUnchanged == SyncInv /\ UNCHANGED vars => SyncInv'
<1> SUFFICES ASSUME SyncInv, UNCHANGED vars PROVE SyncInv'
  OBVIOUS
<1>1. UNCHANGED <<nodeTip, moves, reorgs, stakeTip, summary, stakeInfo, pgBlocks, main,
                  stops, mustDelete, poolInfo, sq, pq, todo, stuck>>
  BY DEF vars
<1>2. TypeOK' /\ Whole(summary)' /\ Whole(stakeInfo)' /\ PgBounded'
  BY <1>1 DEF SyncInv, TypeOK, PgBounded, PgGreatest
<1>3. InSync'
  BY <1>1 DEF SyncInv, InSync, Begun, SqPlace, PqPlace, Reach, stakeHeight, tipHeight
<1>4. /\ (Resting <=> Resting') /\ (AtConnect <=> AtConnect') /\ (AtPg <=> AtPg')
      /\ (AtSummary <=> AtSummary') /\ (AtInfo <=> AtInfo')
  BY <1>1 DEF Resting, AtConnect, AtPg, AtSummary, AtInfo, AfterConnect, Write, Connected,
              Reach, stakeHeight, tipHeight
<1>5. ASSUME NEW k \in Heights, NEW m \in Nat, AtReorg(k, m) PROVE AtReorg(k, m)'
  <2>1. ReorgPlace(k, m)'
    BY <1>1, <1>5 DEF AtReorg, ReorgPlace, Reach, stakeHeight, tipHeight
  <2>2. \A i \in Nat : ReorgWrite(k, i)' = ReorgWrite(k, i)
    BY <1>1 DEF ReorgWrite, On, tipHeight
  <2>3. /\ k < tipHeight' /\ m < 3 * (tipHeight' - k) + 1
        /\ Len(todo') = 3 * (tipHeight' - k) + 1 - m
    BY <1>1, <1>5 DEF AtReorg, tipHeight
  <2>4. ASSUME NEW i \in 1..Len(todo') PROVE todo'[i] = ReorgWrite(k, m + i)'
    <3>1. i \in 1..Len(todo) /\ i \in Nat /\ m + i \in Nat
      BY <1>1
    <3>2. todo[i] = ReorgWrite(k, m + i)
      BY <1>5, <3>1 DEF AtReorg
    <3>3. QED
      BY <1>1, <2>2, <3>1, <3>2
  <2>5. QED
    BY <2>1, <2>3, <2>4 DEF AtReorg
<1>6. InReorg => InReorg'
  BY <1>1, <1>5 DEF InReorg
<1>7. InRun'
  BY <1>1, <1>4, <1>6 DEF SyncInv, InRun
<1>8. ASSUME reorgs = 0 PROVE Straight'
  <2>1. Straight
    BY <1>8 DEF SyncInv
  <2>2. DiskStraight'
    BY <1>1, <2>1 DEF Straight, DiskStraight, OnChain, PgUpTo, On, stakeHeight, tipHeight
  <2>3. main' = "sync" => SyncStraight'
    BY <1>1, <2>1, PgKept DEF Straight, SyncStraight, Begun
  <2>4. main' = "synced" => Level(stakeHeight, stakeHeight, stakeHeight)'
    BY <1>1, <2>1 DEF Straight, Level, PgUpTo, On, stakeHeight
  <2>5. main' = "run" => RunStraight'
    <3>1. ASSUME main = "run", ~stuck PROVE RunStraight'
      <4>1. Resting' \/ AtConnect' => Level(stakeHeight, stakeHeight, stakeHeight)'
        BY <1>1, <1>4, <2>1, <3>1 DEF Straight, RunStraight, Level, PgUpTo, On, stakeHeight
      <4>2. /\ AtPg' => Level(tipHeight - 1, tipHeight - 1, tipHeight - 1)'
            /\ AtSummary' => Level(tipHeight - 1, tipHeight - 1, tipHeight)'
            /\ AtInfo' => Level(tipHeight, tipHeight - 1, tipHeight)'
        BY <1>1, <1>4, <2>1, <3>1 DEF Straight, RunStraight, Level, PgUpTo, On, tipHeight
      <4>3. QED
        BY <4>1, <4>2 DEF RunStraight
    <3>2. QED
      BY <1>1, <3>1 DEF RunStraight
  <2>6. QED
    BY <2>2, <2>3, <2>4, <2>5 DEF Straight
<1>9. ASSUME reorgs = 0, ~MayMoveInGap PROVE Noticed'
  BY <1>1, <1>4, <1>9 DEF SyncInv, Noticed, Unnoticed, SameHeight, More, tipHeight
<1>10. QED
  BY <1>1, <1>2, <1>3, <1>7, <1>8, <1>9 DEF SyncInv

\* So does each step of the node, the program and its handlers.
LEMMA SyncStep == SyncInv /\ [Next]_vars => SyncInv'
<1> SUFFICES ASSUME SyncInv, [Next]_vars PROVE SyncInv'
  OBVIOUS
<1>1. CASE SyncSqlite
  BY <1>1, BeginStep, RewindStep, ConnectStep, StoreSummaryStep, StoreInfoStep,
     SqliteEndStep, Zenon DEF SyncSqlite
<1>2. CASE SyncPg
  BY <1>2, PgStep, Zenon
<1>3. CASE MainCore
  BY <1>3, StartProgramStep, DownStep, SyncAgainStep, EndSyncStep, RegisterStep, Zenon
     DEF MainCore
<1>4. CASE Handlers
  BY <1>4, RunRewindStep, RunConnectStep, RunPgStep, RunSummaryStep, RunInfoStep, Zenon
     DEF Handlers
<1>5. CASE Stop
  BY <1>5, DownStep, Zenon
<1>6. CASE \E b \in Blocks : NodeExtend(b)
  BY <1>6, NodeExtendStep, Zenon
<1>7. CASE \E b \in Blocks, k \in Heights : NodeReorg(b, k)
  BY <1>7, NodeReorgStep, Zenon
<1>8. CASE UNCHANGED vars
  BY <1>8, SyncUnchanged, Zenon
<1>9. QED
  BY <1>1, <1>2, <1>3, <1>4, <1>5, <1>6, <1>7, <1>8, Zenon DEF Next

\* However often the program is started, stopped, killed and started again, and whatever
\* the node does meanwhile: the invariant of this module.
THEOREM SyncInvariant == Spec => []SyncInv
BY SyncStart, SyncStep, PTL DEF Spec

\* The variables of the start-up synchronization have their types.
THEOREM SyncTypes == Spec => []TypeOK
<1>1. SyncInv => TypeOK
  BY DEF SyncInv
<1>2. QED
  BY <1>1, SyncInvariant, PTL

\* resyncDBWithPoolValue and the SQLite monitor never store a row above a missing one:
\* there is no stop after which a table of SQLite has a hole.
THEOREM TablesHaveNoHoles == Spec => []NoTableHasHoles
<1>1. ASSUME NEW t, Whole(t) PROVE NoHoles(t)
  <2>1. ASSUME NEW h \in 0..Top(t) PROVE t[h] # NoRow
    <3>1. Top(t) \in Int /\ Top(t) >= 0 /\ h <= Top(t) /\ h \in Int
      BY <1>1, TopIsInt
    <3>2. Top(t) \in Heights
      BY <1>1, <3>1 DEF Whole, HeightsFrom
    <3>3. h \in Heights
      BY <3>2, HeightsBelow
    <3>4. QED
      BY <1>1, <3>1, <3>3 DEF Whole, Filled
  <2>2. QED
    BY <2>1 DEF NoHoles
<1>2. SyncInv => NoTableHasHoles
  BY <1>1 DEF SyncInv, NoTableHasHoles
<1>3. QED
  BY <1>2, SyncInvariant, PTL

\* When mainCore ends the synchronization of a chain that has only grown, the stake
\* database, both tables of SQLite and PostgreSQL are all at one block of it.
THEOREM StoresEndTogether == Spec => []SyncedTogether
<1>1. SyncInv => SyncedTogether
  <2> SUFFICES ASSUME SyncInv, main = "synced", reorgs = 0
               PROVE  \E b \in AncestorsOf(nodeTip) :
                         /\ stakeTip = b
                         /\ summary = Rows(b) /\ stakeInfo = Rows(b)
                         /\ UsePG => pgBlocks = AncestorsOf(b)
    BY DEF SyncedTogether
  <2>1. DiskStraight /\ Level(stakeHeight, stakeHeight, stakeHeight) /\ TypeOK
    BY DEF SyncInv, Straight
  <2>2. /\ tipHeight \in Nat /\ stakeHeight \in Nat /\ stakeHeight <= tipHeight
        /\ stakeTip = On(stakeHeight) /\ nodeTip \in Blocks /\ stakeTip \in Blocks
    BY <2>1, MainChain, StakePlace DEF DiskStraight
  <2>3. stakeTip \in AncestorsOf(nodeTip)
    BY <2>2 DEF AncestorsOf, On, tipHeight
  <2>4. \A h \in 0..stakeHeight : Ancestor(stakeTip, h) = On(h)
    <3>1. stakeHeight \in 0..Height(nodeTip)
      BY <2>2 DEF tipHeight
    <3>2. QED
      BY <2>2, <3>1, Ancestors DEF On
  <2>5. ASSUME NEW t \in Table, Filled(t, stakeHeight), OnChain(t) PROVE t = Rows(stakeTip)
    <3>1. ASSUME NEW h \in Heights PROVE t[h] = Rows(stakeTip)[h]
      <4>1. h \in Nat
        BY HeightsAreNat
      <4>2. CASE h <= stakeHeight
        <5>1. t[h] = OwnRow(On(h)) /\ Ancestor(stakeTip, h) = On(h)
          BY <2>2, <2>4, <2>5, <4>1, <4>2 DEF Filled, OnChain
        <5>2. QED
          BY <4>2, <5>1 DEF Rows, OwnRow, stakeHeight
      <4>3. CASE ~(h <= stakeHeight)
        BY <2>5, <4>3 DEF Filled, Rows, stakeHeight
      <4>4. QED
        BY <4>2, <4>3
    <3>2. QED
      BY <3>1 DEF Table, Rows
  <2>6. summary = Rows(stakeTip) /\ stakeInfo = Rows(stakeTip)
    BY <2>1, <2>5, TablePlaces DEF SyncInv, Whole, Level, DiskStraight
  <2>7. UsePG => pgBlocks = AncestorsOf(stakeTip)
    BY <2>1, <2>4 DEF Level, PgUpTo, AncestorsOf, stakeHeight
  <2>8. QED
    BY <2>3, <2>6, <2>7
<1>2. QED
  BY <1>1, SyncInvariant, PTL

\* If the node's best block does not change between the synchronization's last look and the
\* registration, the blocks of a chain that only grows are all connected.
THEOREM ConnectsWhatIsNotified == ~MayMoveInGap => (Spec => []NeverStuck)
<1> SUFFICES ASSUME ~MayMoveInGap PROVE Spec => []NeverStuck
  OBVIOUS
<1>1. SyncInv => NeverStuck
  BY DEF SyncInv, Noticed, NeverStuck
<1>2. QED
  BY <1>1, SyncInvariant, PTL
=============================================================================
