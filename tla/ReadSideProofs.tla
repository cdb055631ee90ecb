--------------------------- MODULE ReadSideProofs ---------------------------
(***************************************************************************)
(* Proofs about ReadSide, for any symbols, capacity of the channel, number *)
(* of changes to the books and number of lives.                            *)
(*                                                                         *)
(* The argument: books only grow within a life.  Whatever a reader has     *)
(* read is therefore not newer than the book, and what it reads later is   *)
(* not older than what it read before (SnapInv, PersInv).  In the last     *)
(* round of the persister every book has still to be read, or is at hand,  *)
(* or is written with a state not older than the one when the context was  *)
(* done, or its Set failed (RoundInv).                                     *)
(* TypeInv is TypeOK with what a reader's program counter says about its   *)
(* hands; a book stays within its bound because no book has more changes   *)
(* than all of them together (ChangesBound), and orders are changes.       *)
(***************************************************************************)
EXTENDS ReadSide, Recursion

\* Books and what is read of them, without the bounds of model checking.
AnyBook == [life : Nat, changes : Nat, orders : Nat]
AnyStats == [life : Nat, orders : Nat]
AnySnapshot == [symbol : Symbols, data : AnyBook, version : AnyStats]

BookInv ==
  /\ life \in Nat /\ book \in [Symbols -> AnyBook]
  /\ \A s \in Symbols : book[s].life = life

\* A step within a life: no book shrinks.
BooksGrow ==
  /\ life' = life /\ BookInv'
  /\ \A s \in Symbols :
       book[s].changes <= book'[s].changes /\ book[s].orders <= book'[s].orders

\* A copy of a book's present life.
CopyOf(b, s) == b \in AnyBook /\ b.life = life /\ NotNewer(b, book[s])

SnapshotOf(sn) ==
  /\ CopyOf(sn.data, sn.symbol)
  /\ sn.version.life = life
  /\ sn.data.orders <= sn.version.orders
  /\ sn.version.orders <= book[sn.symbol].orders

\* The first snapshot was finished before the second one was begun.
Before(m, n) ==
  m.symbol = n.symbol =>
    m.version.orders <= n.data.orders /\ NotNewer(m.data, n.data)

SnapInv ==
  /\ snapshots \in Seq(AnySnapshot)
  /\ \A n \in 1 .. Len(snapshots) : SnapshotOf(snapshots[n])
  /\ \A m, n \in 1 .. Len(snapshots) : m < n => Before(snapshots[m], snapshots[n])
  /\ spc \in {"stats", "send"} =>
       /\ scur.symbol \in Symbols /\ CopyOf(scur.data, scur.symbol)
       /\ \A m \in 1 .. Len(snapshots) : Before(snapshots[m], scur)
  /\ spc = "stats" => scur = [symbol |-> scur.symbol, data |-> scur.data, version |-> NONE]
  /\ spc = "send" => scur \in AnySnapshot /\ SnapshotOf(scur)

StatsOlder(x, y) == x.life < y.life \/ x.orders <= y.orders

\* What Redis has, and what the persister is about to set.
PersInv ==
  /\ redis \in [Symbols -> AnyBook \cup {NIL}]
  /\ rstats \in [Symbols -> AnyStats \cup {NIL}]
  /\ \A s \in Symbols :
       /\ redis[s] # NIL => NotNewer(redis[s], book[s])
       /\ rstats[s] # NIL =>
            \/ rstats[s].life < life
            \/ rstats[s].life = life /\ rstats[s].orders <= book[s].orders
  /\ ppc \in {"set", "stats", "setStats"} => pcur \in Symbols
  /\ ppc = "set" =>
       CopyOf(pdata, pcur) /\ (redis[pcur] # NIL => NotNewer(redis[pcur], pdata))
  /\ ppc = "setStats" =>
       /\ pdata \in AnyStats /\ pdata.life = life /\ pdata.orders <= book[pcur].orders
       /\ rstats[pcur] # NIL => StatsOlder(rstats[pcur], pdata)

\* A book written after the context was done; its statistics as well.
Written(s) ==
  redis[s] \in AnyBook /\ redis[s].life = life /\ NotNewer(atDone[s], redis[s])

Covered(s) ==
  /\ Written(s)
  /\ rstats[s] \in AnyStats /\ rstats[s].life = life
  /\ redis[s].orders <= rstats[s].orders

\* The last round: where it is with each of the books.
RoundInv ==
  /\ atDone \in [Symbols -> AnyBook]
  /\ \A s \in Symbols : CopyOf(atDone[s], s)
  /\ final => pdone /\ ppc # "wait"
  /\ ppc = "off" => ptodo = {}
  /\ final => \A s \in Symbols \ failed :
       \/ s \in ptodo
       \/ s = pcur /\ ppc = "set" /\ NotNewer(atDone[s], pdata)
       \/ s = pcur /\ ppc = "stats" /\ Written(s)
       \/ s = pcur /\ ppc = "setStats" /\ Written(s) /\ redis[s].orders <= pdata.orders
       \/ Covered(s)

ReadInv == BookInv /\ SnapInv /\ PersInv /\ RoundInv

-----------------------------------------------------------------------------
(* Facts about copies                                                      *)

LEMMA NotNewerTrans ==
  ASSUME NEW b \in AnyBook, NEW c \in AnyBook, NEW d \in AnyBook,
         NotNewer(b, c), NotNewer(c, d)
  PROVE  NotNewer(b, d)
  BY DEF NotNewer, AnyBook

\* A copy remains one while its book grows.
LEMMA CopyStays ==
  ASSUME BookInv, BooksGrow, NEW s \in Symbols, NEW b, CopyOf(b, s)
  PROVE  CopyOf(b, s)'
  BY DEF BookInv, BooksGrow, CopyOf, NotNewer, AnyBook

LEMMA FreshCopy ==
  ASSUME BookInv, NEW s \in Symbols
  PROVE  CopyOf(GetSnapshot(s), s)
  BY DEF BookInv, CopyOf, GetSnapshot, NotNewer, AnyBook

\* What is not newer than the book is not newer than a fresh copy.
LEMMA FreshIsNewest ==
  ASSUME BookInv, NEW s \in Symbols, NEW b, CopyOf(b, s)
  PROVE  NotNewer(b, GetSnapshot(s))
  BY DEF CopyOf, GetSnapshot

LEMMA MatchCancelGrow == BookInv /\ BookStep => BooksGrow
<1> SUFFICES ASSUME BookInv, NEW s \in Symbols, Match(s) \/ Cancel(s), life' = life
             PROVE  BooksGrow
  BY DEF BookStep
<1>1. /\ book' \in [Symbols -> AnyBook]
      /\ \A t \in Symbols :
           /\ book'[t].life = book[t].life
           /\ book[t].changes <= book'[t].changes /\ book[t].orders <= book'[t].orders
  <2>1. CASE Match(s)
    BY <2>1 DEF Match, BookInv, AnyBook
  <2>2. CASE Cancel(s)
    BY <2>2 DEF Cancel, BookInv, AnyBook
  <2> QED
    BY <2>1, <2>2
<1> QED
  BY <1>1 DEF BooksGrow, BookInv

LEMMA StandStill ==
  ASSUME BookInv, UNCHANGED <<life, book>>
  PROVE  BooksGrow
  BY DEF BookInv, BooksGrow, AnyBook

-----------------------------------------------------------------------------
(* The snapshotter                                                         *)

\* What is in the channel stays right while the books grow.
LEMMA SnapshotStays ==
  ASSUME BookInv, BooksGrow, NEW sn \in AnySnapshot, SnapshotOf(sn)
  PROVE  SnapshotOf(sn)'
<1>1. CopyOf(sn.data, sn.symbol)'
  BY CopyStays DEF SnapshotOf, AnySnapshot
<1> QED
  BY <1>1 DEF SnapshotOf, BookInv, BooksGrow, AnySnapshot, AnyStats, AnyBook

LEMMA GrowthKeepsSnap ==
  ASSUME BookInv, SnapInv, BooksGrow, UNCHANGED <<spc, scur, snapshots>>
  PROVE  SnapInv'
<1>1. \A n \in 1 .. Len(snapshots) : SnapshotOf(snapshots[n])'
  BY SnapshotStays DEF SnapInv
<1>2. spc \in {"stats", "send"} => CopyOf(scur.data, scur.symbol)'
  BY CopyStays DEF SnapInv
<1>3. spc = "send" => SnapshotOf(scur)'
  BY SnapshotStays DEF SnapInv
<1> QED
  BY <1>1, <1>2, <1>3 DEF SnapInv, Before

LEMMA SnapStepKeeps ==
  ASSUME BookInv, SnapInv, SnapStep, UNCHANGED <<life, book>>
  PROVE  SnapInv'
<1>1. CASE Tick \/ SnapExit
  BY <1>1 DEF Tick, SnapExit, SnapInv, SnapshotOf, CopyOf, Before
<1>2. ASSUME NEW s \in Symbols, TakeData(s) PROVE SnapInv'
  <2>1. /\ spc' = "stats" /\ snapshots' = snapshots
        /\ scur' = [symbol |-> s, data |-> GetSnapshot(s), version |-> NONE]
    BY <1>2 DEF TakeData, SnapshotData
  <2>2. CopyOf(GetSnapshot(s), s)
    BY FreshCopy
  <2>3. \A m \in 1 .. Len(snapshots) : Before(snapshots[m], scur')
    <3> SUFFICES ASSUME NEW m \in 1 .. Len(snapshots), snapshots[m].symbol = s
                 PROVE  Before(snapshots[m], scur')
      BY <2>1 DEF Before
    <3>1. NotNewer(snapshots[m].data, GetSnapshot(s))
      BY FreshIsNewest DEF SnapInv, SnapshotOf
    <3>2. snapshots[m].version.orders <= GetSnapshot(s).orders
      BY DEF SnapInv, SnapshotOf, GetSnapshot
    <3> QED
      BY <2>1, <3>1, <3>2 DEF Before
  <2> QED
    BY <2>1, <2>2, <2>3 DEF SnapInv, SnapshotOf, CopyOf, Before
<1>3. CASE TakeVersion
  <2>1. /\ spc = "stats" /\ spc' = "send" /\ snapshots' = snapshots
        /\ scur' = [scur EXCEPT !.version = GetStats(scur.symbol)]
    BY <1>3 DEF TakeVersion, SnapshotVersion
  <2> DEFINE s == scur.symbol
             b == scur.data
             v == [life |-> book[s].life, orders |-> book[s].orders]
  <2>2. s \in Symbols /\ CopyOf(b, s)
    BY <2>1 DEF SnapInv
  <2>3. scur' = [symbol |-> s, data |-> b, version |-> v]
    BY <2>1 DEF SnapInv, GetStats
  <2>4. v \in AnyStats /\ v.life = life /\ v.orders = book[s].orders
    BY <2>2 DEF BookInv, AnyBook, AnyStats
  <2>5. b.orders <= book[s].orders
    BY <2>2 DEF CopyOf, NotNewer, BookInv, AnyBook
  <2>6. \A m \in 1 .. Len(snapshots) : Before(snapshots[m], scur')
    BY <2>1, <2>3 DEF SnapInv, Before
  <2>7. scur' \in AnySnapshot /\ SnapshotOf(scur)'
    <3>1. /\ scur' \in AnySnapshot /\ scur'.symbol = s /\ scur'.data = b
          /\ scur'.version = v
      BY <2>2, <2>3, <2>4 DEF AnySnapshot, CopyOf
    <3>2. CopyOf(scur'.data, scur'.symbol)
      BY <2>2, <3>1
    <3>3. /\ scur'.version.life = life
          /\ scur'.data.orders <= scur'.version.orders
          /\ scur'.version.orders <= book[scur'.symbol].orders
      <4> HIDE DEF s, b, v
      <4>1. book[s].orders \in Nat
        BY <2>2 DEF BookInv, AnyBook
      <4> QED
        BY <2>4, <2>5, <3>1, <4>1
    <3> QED
      BY <3>1, <3>2, <3>3 DEF SnapshotOf, CopyOf, NotNewer
  <2> QED
    BY <2>1, <2>2, <2>3, <2>6, <2>7 DEF SnapInv, SnapshotOf, CopyOf, Before
<1>4. CASE Send
  <2>1. CASE HasSpace
    <3>1. /\ spc = "send" /\ spc' \in {"wait", "read"}
          /\ snapshots' = Append(snapshots, scur)
      BY <1>4, <2>1 DEF Send
    <3>2. snapshots \in Seq(AnySnapshot) /\ scur \in AnySnapshot /\ SnapshotOf(scur)
      BY <3>1 DEF SnapInv
    <3>3. /\ Len(snapshots') = Len(snapshots) + 1 /\ snapshots' \in Seq(AnySnapshot)
          /\ snapshots'[Len(snapshots) + 1] = scur
          /\ \A n \in 1 .. Len(snapshots) : snapshots'[n] = snapshots[n]
      BY <3>1, <3>2
    <3>4. \A n \in 1 .. Len(snapshots') : SnapshotOf(snapshots'[n])
      BY <3>2, <3>3 DEF SnapInv
    <3>5. \A m, n \in 1 .. Len(snapshots') : m < n => Before(snapshots'[m], snapshots'[n])
      BY <3>1, <3>2, <3>3 DEF SnapInv
    <3>6. \A n \in 1 .. Len(snapshots') : SnapshotOf(snapshots[n])'
      BY <3>4 DEF SnapshotOf, CopyOf
    <3> QED
      BY <3>1, <3>3, <3>5, <3>6 DEF SnapInv, Before
  <2>2. CASE ~HasSpace
    BY <1>4, <2>2 DEF Send, SnapInv, SnapshotOf, CopyOf, Before
  <2> QED
    BY <2>1, <2>2
<1> QED
  BY <1>1, <1>2, <1>3, <1>4 DEF SnapStep, SnapRound

-----------------------------------------------------------------------------
(* The persister                                                           *)

\* What RedisForward says of a step.
Forward ==
  \A s \in Symbols :
    /\ redis[s] # NIL => NotNewer(redis[s], redis'[s])
    /\ rstats[s] # NIL => StatsOlder(rstats[s], rstats'[s])

LEMMA KeptIsForward == PersInv /\ UNCHANGED <<redis, rstats>> => Forward
  BY DEF PersInv, Forward, NotNewer, StatsOlder, AnyBook, AnyStats

LEMMA GrowthKeepsPers ==
  ASSUME BookInv, PersInv, RoundInv, BooksGrow, UNCHANGED persVars
  PROVE  PersInv' /\ RoundInv'
<1>1. \A s \in Symbols : atDone[s].life = life' /\ NotNewer(atDone[s], book'[s])
  BY DEF RoundInv, CopyOf, BookInv, BooksGrow, NotNewer, AnyBook
<1>2. ppc = "set" => pdata.life = life' /\ NotNewer(pdata, book'[pcur])
  BY DEF PersInv, CopyOf, BookInv, BooksGrow, NotNewer, AnyBook
<1>3. \A s \in Symbols : redis[s] # NIL => NotNewer(redis[s], book'[s])
  BY DEF PersInv, BookInv, BooksGrow, NotNewer, AnyBook
<1>4. \A s \in Symbols : rstats[s] # NIL =>
         \/ rstats[s].life < life'
         \/ rstats[s].life = life' /\ rstats[s].orders <= book'[s].orders
  BY DEF PersInv, BookInv, BooksGrow, AnyBook, AnyStats
<1>5. ppc = "setStats" => pdata.orders <= book'[pcur].orders
  BY DEF PersInv, BookInv, BooksGrow, AnyBook, AnyStats
<1>6. PersInv'
  BY <1>2, <1>3, <1>4, <1>5 DEF PersInv, CopyOf, BooksGrow, persVars, NotNewer, StatsOlder
<1>7. RoundInv'
  BY <1>1 DEF RoundInv, CopyOf, BooksGrow, persVars, Covered, Written, NotNewer
<1> QED
  BY <1>6, <1>7

LEMMA RoundKeeps ==
  ASSUME BookInv, PersInv, RoundInv, UNCHANGED <<life, book>>,
         Round(FALSE) \/ LastRound
  PROVE  PersInv' /\ RoundInv' /\ Forward
<1>1. /\ ppc = "wait" /\ ppc' = "read" /\ ptodo' = Symbols
      /\ final' => pdone
      /\ UNCHANGED <<pcur, pdata, redis, rstats, pdone, failed, atDone>>
  BY DEF Round, LastRound, LastRoundEnds
<1>2. Forward
  BY <1>1, KeptIsForward
<1>3. PersInv'
  BY <1>1 DEF PersInv, CopyOf
<1>4. RoundInv'
  BY <1>1 DEF RoundInv, CopyOf
<1> QED
  BY <1>2, <1>3, <1>4

LEMMA ReadBookKeeps ==
  ASSUME BookInv, PersInv, RoundInv, UNCHANGED <<life, book>>,
         NEW s \in Symbols, ReadBook(s)
  PROVE  PersInv' /\ RoundInv' /\ Forward
<1>1. /\ ppc = "read" /\ ppc' = "set" /\ pcur' = s /\ ptodo' = ptodo \ {s}
      /\ pdata' = book[s]
      /\ UNCHANGED <<final, redis, rstats, pdone, failed, atDone>>
  BY DEF ReadBook, GetSnapshot
<1>2. CopyOf(book[s], s)
  BY FreshCopy DEF GetSnapshot
<1>3. PersInv'
  BY <1>1, <1>2 DEF PersInv, CopyOf, NotNewer
<1>4. NotNewer(atDone[s], book[s])
  BY DEF RoundInv, CopyOf
<1>5. RoundInv'
  BY <1>1, <1>4 DEF RoundInv, CopyOf, Covered, Written, NotNewer
<1> QED
  BY <1>1, <1>3, <1>5, KeptIsForward

LEMMA SetBookKeeps ==
  ASSUME BookInv, PersInv, RoundInv, UNCHANGED <<life, book>>,
         NEW applied \in BOOLEAN, NEW ok \in BOOLEAN, ok => applied, SetBook(applied, ok)
  PROVE  PersInv' /\ RoundInv' /\ Forward
<1>1. /\ ppc = "set" /\ pcur \in Symbols
      /\ redis' = IF applied THEN [redis EXCEPT ![pcur] = pdata] ELSE redis
      /\ ok => ppc' = "stats" /\ pcur' = pcur /\ failed' = failed
      /\ ~ok => /\ ppc' = IF ptodo # {} THEN "read" ELSE IF final THEN "off" ELSE "wait"
                /\ failed' = IF final THEN failed \cup {pcur} ELSE failed
      /\ UNCHANGED <<final, ptodo, rstats, pdone, atDone>>
  BY DEF SetBook, Note, AfterError, AfterBook, PersInv
<1>2. /\ CopyOf(pdata, pcur) /\ pdata # NIL
      /\ redis[pcur] # NIL => NotNewer(redis[pcur], pdata)
  BY <1>1, PersisterAssumption DEF PersInv, CopyOf, AnyBook
<1>3. Forward
  BY <1>1, <1>2 DEF PersInv, Forward, NotNewer, StatsOlder, AnyBook, AnyStats
<1>4. /\ redis' \in [Symbols -> AnyBook \cup {NIL}]
      /\ \A s \in Symbols : redis'[s] # NIL => NotNewer(redis'[s], book[s])
  BY <1>1, <1>2 DEF PersInv, CopyOf
<1>5. PersInv'
  BY <1>1, <1>4 DEF PersInv
<1>6. \A s \in Symbols \ {pcur} : redis'[s] = redis[s]
  BY <1>1 DEF PersInv
<1>7. CASE ok
  <2>1. redis'[pcur] = pdata
    BY <1>1, <1>7 DEF PersInv
  <2>2. final => \A s \in Symbols \ failed' :
          \/ s \in ptodo'
          \/ s = pcur' /\ ppc' = "stats" /\ Written(s)'
          \/ Covered(s)'
    <3> SUFFICES ASSUME final, NEW s \in Symbols \ failed
                 PROVE  \/ s \in ptodo'
                        \/ s = pcur' /\ ppc' = "stats" /\ Written(s)'
                        \/ Covered(s)'
      BY <1>1, <1>7
    <3>1. CASE s # pcur
      BY <1>1, <1>6, <3>1 DEF RoundInv, Covered, Written, NotNewer
    <3>2. CASE s = pcur /\ s \notin ptodo
      <4>1. NotNewer(atDone[s], pdata)
        <5>1. CASE Covered(s)
          BY <1>2, <3>2, <5>1, NotNewerTrans, PersisterAssumption
             DEF Covered, Written, CopyOf, RoundInv, AnyBook
        <5> QED
          BY <1>1, <3>2, <5>1 DEF RoundInv
      <4>2. Written(s)'
        BY <1>1, <1>2, <2>1, <3>2, <4>1 DEF Written, CopyOf, NotNewer
      <4> QED
        BY <1>1, <1>7, <3>2, <4>2
    <3> QED
      BY <1>1, <3>1, <3>2
  <2>3. RoundInv'
    BY <1>1, <1>7, <2>2 DEF RoundInv, CopyOf, NotNewer
  <2> QED
    BY <1>3, <1>5, <2>3
<1>8. CASE ~ok
  <2>1. final => \A s \in Symbols \ failed' : s \in ptodo' \/ Covered(s)'
    BY <1>1, <1>6, <1>8 DEF RoundInv, Covered, Written, NotNewer
  <2>2. RoundInv'
    BY <1>1, <1>8, <2>1 DEF RoundInv, CopyOf, NotNewer
  <2> QED
    BY <1>3, <1>5, <2>2
<1> QED
  BY <1>7, <1>8

LEMMA ReadStatsKeeps ==
  ASSUME BookInv, PersInv, RoundInv, UNCHANGED <<life, book>>, ReadStats
  PROVE  PersInv' /\ RoundInv' /\ Forward
<1>1. /\ ppc = "stats" /\ ppc' = "setStats" /\ pcur \in Symbols
      /\ pdata' = [life |-> book[pcur].life, orders |-> book[pcur].orders]
      /\ UNCHANGED <<final, ptodo, pcur, redis, rstats, pdone, failed, atDone>>
  BY DEF ReadStats, StatsNow, GetStats, PersInv
<1>2. pdata' \in AnyStats /\ pdata'.life = life /\ pdata'.orders = book[pcur].orders
  BY <1>1 DEF BookInv, AnyBook, AnyStats
<1>3. rstats[pcur] # NIL => StatsOlder(rstats[pcur], pdata')
  BY <1>1, <1>2 DEF PersInv, StatsOlder
<1>4. PersInv'
  BY <1>1, <1>2, <1>3 DEF PersInv, StatsOlder, BookInv, AnyBook
<1>5. Written(pcur) => redis[pcur].orders <= pdata'.orders
  <2>1. book[pcur] \in AnyBook /\ book[pcur].life = life
    BY <1>1 DEF BookInv
  <2> QED
    BY <1>1, <1>2, <2>1, PersisterAssumption
       DEF Written, PersInv, NotNewer, AnyBook
<1>6. RoundInv'
  BY <1>1, <1>5 DEF RoundInv, CopyOf, Covered, Written, NotNewer
<1> QED
  BY <1>1, <1>4, <1>6, KeptIsForward

LEMMA SetStatsKeeps ==
  ASSUME BookInv, PersInv, RoundInv, UNCHANGED <<life, book>>,
         NEW applied \in BOOLEAN, NEW ok \in BOOLEAN, ok => applied, SetStats(applied, ok)
  PROVE  PersInv' /\ RoundInv' /\ Forward
<1>1. /\ ppc = "setStats" /\ pcur \in Symbols
      /\ rstats' = IF applied THEN [rstats EXCEPT ![pcur] = pdata] ELSE rstats
      /\ ppc' = IF ptodo # {} THEN "read" ELSE IF final THEN "off" ELSE "wait"
      /\ failed' = IF ok \/ ~final THEN failed ELSE failed \cup {pcur}
      /\ UNCHANGED <<final, ptodo, redis, pdone, atDone>>
  BY DEF SetStats, Note, AfterBook, PersInv
<1>2. /\ pdata \in AnyStats /\ pdata # NIL /\ pdata.life = life
      /\ pdata.orders <= book[pcur].orders
      /\ rstats[pcur] # NIL => StatsOlder(rstats[pcur], pdata)
  BY <1>1, PersisterAssumption DEF PersInv, AnyStats
<1>3. Forward
  BY <1>1, <1>2 DEF PersInv, Forward, NotNewer, StatsOlder, AnyBook, AnyStats
<1>4. /\ rstats' \in [Symbols -> AnyStats \cup {NIL}]
      /\ \A s \in Symbols : rstats'[s] # NIL =>
           \/ rstats'[s].life < life
           \/ rstats'[s].life = life /\ rstats'[s].orders <= book[s].orders
  BY <1>1, <1>2 DEF PersInv
<1>5. PersInv'
  BY <1>1, <1>4 DEF PersInv
<1>6. final => \A s \in Symbols \ failed' : s \in ptodo' \/ Covered(s)'
  <2> SUFFICES ASSUME final, NEW s \in Symbols \ failed', s \notin ptodo
               PROVE  Covered(s)'
    BY <1>1
  <2>1. CASE s # pcur
    <3>1. rstats'[s] = rstats[s]
      BY <1>1, <2>1 DEF PersInv
    <3> QED
      BY <1>1, <2>1, <3>1 DEF RoundInv, Covered, Written, NotNewer
  <2>2. CASE s = pcur
    <3>1. applied /\ rstats'[s] = pdata
      BY <1>1, <2>2 DEF PersInv
    <3>2. Written(s) /\ redis[s].orders <= pdata.orders
      <4>1. CASE Covered(s)
        <5>1. rstats[s] \in AnyStats /\ rstats[s].life = life /\ rstats[s] # NIL
          BY <4>1, PersisterAssumption DEF Covered, AnyStats
        <5>2. rstats[s].orders <= pdata.orders
          BY <1>2, <2>2, <5>1 DEF StatsOlder, BookInv
        <5> QED
          BY <1>2, <4>1, <5>1, <5>2 DEF Covered, Written, AnyBook, AnyStats
      <4> QED
        BY <1>1, <2>2, <4>1 DEF RoundInv
    <3> QED
      BY <1>1, <1>2, <3>1, <3>2 DEF Covered, Written, NotNewer
  <2> QED
    BY <2>1, <2>2
<1>7. RoundInv'
  BY <1>1, <1>6 DEF RoundInv, CopyOf, NotNewer
<1> QED
  BY <1>3, <1>5, <1>7

LEMMA PersistStepKeeps ==
  ASSUME BookInv, PersInv, RoundInv, UNCHANGED <<life, book>>, PersistStep
  PROVE  PersInv' /\ RoundInv' /\ Forward
<1>1. CASE Round(FALSE) \/ LastRound
  BY <1>1, RoundKeeps
<1>2. ASSUME NEW s \in Symbols, ReadBook(s) PROVE PersInv' /\ RoundInv' /\ Forward
  BY <1>2, ReadBookKeeps
<1>3. CASE ReadStats
  BY <1>3, ReadStatsKeeps
<1>4. ASSUME NEW applied \in BOOLEAN, NEW ok \in BOOLEAN, ok => applied,
             SetBook(applied, ok) \/ SetStats(applied, ok)
      PROVE  PersInv' /\ RoundInv' /\ Forward
  BY <1>4, SetBookKeeps, SetStatsKeeps
<1> QED
  BY <1>1, <1>2, <1>3, <1>4 DEF PersistStep, PersistRound, PersistTick, Possible

-----------------------------------------------------------------------------
(* The engine's Stop and Start, the persister's context, a new process     *)

LEMMA InitReadInv == Init => ReadInv
<1> SUFFICES ASSUME Init PROVE ReadInv
  OBVIOUS
<1>1. BookInv /\ (\A s \in Symbols : book[s] = EmptyBook(1))
  BY DEF Init, Empty, EmptyBook, BookInv, AnyBook
<1>2. SnapInv
  BY DEF Init, SnapInv
<1>3. PersInv
  BY DEF Init, PersInv
<1>4. RoundInv
  BY <1>1 DEF Init, RoundInv, CopyOf, Empty, EmptyBook, NotNewer, AnyBook
<1> QED
  BY <1>1, <1>2, <1>3, <1>4 DEF ReadInv

\* A step that leaves the persister alone.
LEMMA SnapshotterKeeps ==
  ASSUME ReadInv, SnapshotterStep \/ Stop \/ StartAgain
  PROVE  ReadInv' /\ Forward
<1>1. UNCHANGED <<life, book, persVars>> /\ BooksGrow
  BY StandStill DEF ReadInv, SnapshotterStep, Stop, StartAgain, persVars
<1>2. PersInv' /\ RoundInv' /\ Forward
  BY <1>1, GrowthKeepsPers, KeptIsForward DEF ReadInv, persVars
<1>3. SnapInv'
  <2>1. CASE SnapshotterStep
    BY <2>1, SnapStepKeeps DEF ReadInv, SnapshotterStep
  <2>2. CASE Stop
    BY <1>1, <2>2, GrowthKeepsSnap DEF ReadInv, Stop
  <2>3. CASE StartAgain
    BY <2>3 DEF StartAgain, SnapInv
  <2> QED
    BY <2>1, <2>2, <2>3
<1> QED
  BY <1>1, <1>2, <1>3 DEF ReadInv, BooksGrow

\* A step of the persister, or the end of its context.
LEMMA PersisterKeeps ==
  ASSUME ReadInv, PersisterStep \/ Done
  PROVE  ReadInv' /\ Forward
<1>1. UNCHANGED <<life, book, snapVars>> /\ BooksGrow
  BY StandStill DEF ReadInv, PersisterStep, Done, snapVars
<1>2. SnapInv'
  BY <1>1, GrowthKeepsSnap DEF ReadInv, snapVars
<1>3. PersInv' /\ RoundInv' /\ Forward
  <2>1. CASE PersisterStep
    BY <2>1, PersistStepKeeps DEF ReadInv, PersisterStep
  <2>2. CASE Done
    <3>1. /\ ~pdone /\ pdone' /\ atDone' = book /\ ~final
          /\ UNCHANGED <<life, book, ppc, final, ptodo, pcur, pdata, redis, rstats, failed>>
      BY <2>2 DEF Done, ReadInv, RoundInv
    <3>2. \A s \in Symbols : CopyOf(book[s], s)
      BY FreshCopy DEF ReadInv, GetSnapshot
    <3>3. PersInv'
      BY <3>1 DEF ReadInv, PersInv, CopyOf
    <3>4. RoundInv'
      BY <3>1, <3>2 DEF ReadInv, BookInv, RoundInv, CopyOf
    <3> QED
      BY <3>1, <3>3, <3>4, KeptIsForward DEF ReadInv
  <2> QED
    BY <2>1, <2>2
<1> QED
  BY <1>1, <1>2, <1>3 DEF ReadInv, BooksGrow

\* The successor's books are newer than all that the dead process wrote.
LEMMA RestartKeeps ==
  ASSUME ReadInv, Restart
  PROVE  ReadInv' /\ Forward
<1>1. /\ life \in Nat /\ life' = life + 1
      /\ book' = Empty(life + 1) /\ atDone' = Empty(life + 1)
      /\ spc' = "wait" /\ snapshots' = <<>>
      /\ ppc' = "wait" /\ ~final' /\ UNCHANGED <<redis, rstats>>
  BY DEF Restart, ReadInv, BookInv
<1>2. \A s \in Symbols : book'[s] \in AnyBook /\ book'[s].life = life' /\ atDone'[s] = book'[s]
  BY <1>1 DEF Empty, EmptyBook, AnyBook
<1>3. BookInv'
  BY <1>1, <1>2 DEF BookInv, Empty
<1>4. SnapInv'
  BY <1>1 DEF SnapInv
<1>5. \A s \in Symbols : redis[s] # NIL => NotNewer(redis[s], book'[s])
  <2> SUFFICES ASSUME NEW s \in Symbols, redis[s] # NIL
               PROVE  NotNewer(redis[s], book'[s])
    OBVIOUS
  <2>1. redis[s] \in AnyBook /\ book[s] \in AnyBook /\ book[s].life = life
    BY DEF ReadInv, BookInv, PersInv
  <2>2. NotNewer(redis[s], book[s])
    BY DEF ReadInv, PersInv
  <2>3. redis[s].life <= life
    BY <2>1, <2>2 DEF NotNewer, AnyBook
  <2>4. redis[s].life \in Nat
    BY <2>1 DEF AnyBook
  <2>5. redis[s].life < book'[s].life
    BY <1>1, <1>2, <2>3, <2>4
  <2> QED
    BY <2>5 DEF NotNewer
<1>6. \A s \in Symbols : rstats[s] # NIL => rstats[s].life < life'
  BY <1>1 DEF ReadInv, BookInv, PersInv, AnyStats
<1>7. PersInv'
  BY <1>1, <1>5, <1>6 DEF ReadInv, PersInv
<1>8. RoundInv'
  BY <1>1, <1>2 DEF RoundInv, CopyOf, NotNewer, AnyBook, Empty
<1> QED
  BY <1>1, <1>3, <1>4, <1>7, <1>8, KeptIsForward DEF ReadInv

LEMMA ReadNext == ReadInv /\ [Next]_vars => ReadInv' /\ Forward
<1> SUFFICES ASSUME ReadInv, [Next]_vars PROVE ReadInv' /\ Forward
  OBVIOUS
<1>1. CASE BookStep
  <2>1. BooksGrow /\ UNCHANGED <<snapVars, persVars>>
    BY <1>1, MatchCancelGrow DEF ReadInv, BookStep
  <2> QED
    BY <2>1, GrowthKeepsSnap, GrowthKeepsPers, KeptIsForward
       DEF ReadInv, BooksGrow, snapVars, persVars
<1>2. CASE SnapshotterStep \/ Stop \/ StartAgain
  BY <1>2, SnapshotterKeeps
<1>3. CASE PersisterStep \/ Done
  BY <1>3, PersisterKeeps
<1>4. CASE Restart
  BY <1>4, RestartKeeps
<1>5. CASE UNCHANGED vars
  <2>1. BooksGrow /\ UNCHANGED <<snapVars, persVars>>
    BY <1>5, StandStill DEF ReadInv, vars
  <2> QED
    BY <2>1, GrowthKeepsSnap, GrowthKeepsPers, KeptIsForward
       DEF ReadInv, BooksGrow, snapVars, persVars
<1> QED
  BY <1>1, <1>2, <1>3, <1>4, <1>5 DEF Next

LEMMA ReadInvariant == Spec => []ReadInv
  BY InitReadInv, ReadNext, PTL DEF Spec

-----------------------------------------------------------------------------
(* Theorems                                                                *)

\* takeSnapshot reads a book's levels and its number of orders in two lock
\* sections; the snapshots in the channel are ordered in time all the same.
THEOREM SnapshotsInOrder == Spec => []SnapshotsOrdered
<1>1. ReadInv => SnapshotsOrdered
  BY DEF ReadInv, SnapInv, SnapshotOf, CopyOf, Before, SnapshotsOrdered
<1> QED
  BY <1>1, ReadInvariant, PTL

\* Run's last persistAll, whatever Redis fails at and however often the books
\* change under it, leaves every book whose Sets worked restorable with all that
\* was in it when the context was done.
THEOREM PersisterCovers == Spec => []LastPersistCovers
<1>1. ReadInv => LastPersistCovers
  <2> SUFFICES ASSUME ReadInv, ppc = "off", final, NEW s \in Symbols \ failed
               PROVE  /\ redis[s] # NIL /\ NotNewer(atDone[s], RestoreOrderBook(s))
                      /\ rstats[s] # NIL /\ rstats[s].life = life
                      /\ RestoreOrderBook(s).life = life
                      /\ RestoreOrderBook(s).orders <= rstats[s].orders
    BY DEF LastPersistCovers
  <2>1. Covered(s)
    BY DEF ReadInv, RoundInv
  <2>2. redis[s] # NIL /\ rstats[s] # NIL
    BY <2>1, PersisterAssumption DEF Covered, Written, AnyBook, AnyStats
  <2> QED
    BY <2>1, <2>2 DEF Covered, Written, RestoreOrderBook
<1> QED
  BY <1>1, ReadInvariant, PTL

\* The ticker's rounds, Sets that fail after they took effect and restarts of
\* the process never put an older snapshot, or an older number of orders, over a
\* newer one of the same process.
THEOREM PersisterForward == Spec => RedisForward
<1>1. ReadInv /\ [Next]_vars =>
        [\A s \in Symbols :
           /\ redis[s] # NIL => NotNewer(redis[s], redis'[s])
           /\ rstats[s] # NIL =>
                rstats[s].life < rstats'[s].life \/ rstats[s].orders <= rstats'[s].orders]_persVars
  BY ReadNext DEF Forward, StatsOlder
<1> QED
  BY <1>1, ReadInvariant, PTL DEF Spec, RedisForward

-----------------------------------------------------------------------------
(* The types                                                               *)

\* The types of the books, and what keeps them: an order is a change.
BookTypes ==
  /\ life \in 1 .. MaxLives /\ book \in [Symbols -> Book]
  /\ \A s \in Symbols : book[s].orders <= book[s].changes

\* What the snapshotter has in hand is a snapshot until it is sent.
SnapTypes ==
  /\ spc \in {"wait", "read", "stats", "send", "off"} /\ stodo \subseteq Symbols
  /\ scur \in Snapshots \cup {NONE}
  /\ spc \in {"stats", "send"} => scur \in Snapshots
  /\ snapshots \in Seq(Snapshots) /\ Len(snapshots) <= ChanCap
  /\ stopping \in BOOLEAN

\* What the persister has in hand is of the kind it is about to set.
PersTypes ==
  /\ ppc \in {"wait", "read", "set", "stats", "setStats", "off"}
  /\ final \in BOOLEAN /\ ptodo \subseteq Symbols
  /\ pcur \in Symbols \cup {NIL} /\ pdata \in Book \cup Stats \cup {NIL}
  /\ ppc \in {"set", "stats", "setStats"} => pcur \in Symbols
  /\ ppc = "set" => pdata \in Book
  /\ ppc = "setStats" => pdata \in Stats
  /\ redis \in [Symbols -> Book \cup {NIL}] /\ rstats \in [Symbols -> Stats \cup {NIL}]
  /\ pdone \in BOOLEAN /\ failed \subseteq Symbols
  /\ atDone \in [Symbols -> Book]

TypeInv ==
  BookTypes /\ SnapTypes /\ PersTypes /\ reader \in {"snapshotter", "persister"}

\* No book has more changes than all have.
LEMMA ChangesBound ==
  ASSUME BookTypes, NEW s \in Symbols
  PROVE  book[s].changes <= Changes /\ Changes \in Nat
<1> DEFINE f == [t \in Symbols |-> book[t].changes]
<1>1. IsFiniteSet(Symbols) /\ s \in Symbols
  BY ViewAssumption
<1>2. \A t \in Symbols : f[t] \in Nat
  BY DEF BookTypes, Book
<1>3. f[s] = book[s].changes /\ DOMAIN f = Symbols
  OBVIOUS
<1>4. Changes = SumFunctionOnSet(f, Symbols)
  BY DEF Changes, SumFunction
<1> HIDE DEF f
<1>5. IsFiniteSet(Symbols \ {s}) /\ \A t \in Symbols \ {s} : f[t] \in Nat
  BY <1>1, <1>2, FS_RemoveElement
<1>6. \A t \in Symbols : f[t] \in Int
  BY <1>2
<1>7. SumFunctionOnSet(f, Symbols) = f[s] + SumFunctionOnSet(f, Symbols \ {s})
  BY <1>1, <1>6, SumElement
<1>8. SumFunctionOnSet(f, Symbols \ {s}) \in Nat /\ f[s] \in Nat
  BY <1>2, <1>5, SumNat
<1> QED
  BY <1>3, <1>4, <1>7, <1>8

\* A change to a book: there is room for one more, and for one more order.
LEMMA BookKeepsTypes ==
  ASSUME TypeInv, BookStep
  PROVE  TypeInv'
<1>1. PICK s \in Symbols : Match(s) \/ Cancel(s)
  BY DEF BookStep
<1>2. book[s].changes <= Changes /\ Changes \in Nat /\ Changes < MaxChanges
  BY <1>1, ChangesBound DEF TypeInv, Match, Cancel
<1>3. book[s] \in Book /\ book[s].orders <= book[s].changes
  BY DEF TypeInv, BookTypes
<1>4. PICK b \in Book : book' = [book EXCEPT ![s] = b] /\ b.orders <= b.changes
  <2> DEFINE k == book[s].life
             c == book[s].changes
             d == book[s].orders
             Book2(x) == [life |-> k, changes |-> c + 1, orders |-> x]
  <2>1. /\ book[s] = [life |-> k, changes |-> c, orders |-> d]
        /\ k \in 1 .. MaxLives /\ c \in 0 .. MaxChanges - 1 /\ d \in 0 .. MaxChanges /\ d <= c
    BY <1>2, <1>3, ViewAssumption DEF Book
  <2>2. CASE Match(s)
    <3>1. book' = [book EXCEPT ![s] = Book2(d + 1)]
      BY <2>1, <2>2 DEF Match, TypeInv, BookTypes
    <3> HIDE DEF k, c, d
    <3>2. Book2(d + 1) \in Book /\ Book2(d + 1).orders <= Book2(d + 1).changes
      BY <2>1, ViewAssumption DEF Book
    <3> QED
      BY <3>1, <3>2
  <2>3. CASE Cancel(s)
    <3>1. book' = [book EXCEPT ![s] = Book2(d)]
      <4>1. [book[s] EXCEPT !.changes = @ + 1] = Book2(d)
        BY <2>1
      <4>2. book' = [book EXCEPT ![s] = [book[s] EXCEPT !.changes = @ + 1]]
        BY <2>3 DEF Cancel, TypeInv, BookTypes
      <4> QED
        BY <4>1, <4>2
    <3> HIDE DEF k, c, d
    <3>2. Book2(d) \in Book /\ Book2(d).orders <= Book2(d).changes
      BY <2>1, ViewAssumption DEF Book
    <3> QED
      BY <3>1, <3>2
  <2> QED
    BY <1>1, <2>2, <2>3
<1>5. BookTypes'
  BY <1>4 DEF TypeInv, BookTypes, BookStep
<1>6. SnapTypes' /\ PersTypes' /\ reader' = reader
  BY DEF BookStep, TypeInv, SnapTypes, PersTypes, snapVars, persVars
<1> QED
  BY <1>5, <1>6 DEF TypeInv

\* What is read of a book.
LEMMA StatsTyped ==
  ASSUME BookTypes, NEW s \in Symbols
  PROVE  GetSnapshot(s) \in Book /\ GetStats(s) \in Stats
BY DEF BookTypes, GetSnapshot, GetStats, Book, Stats

\* The steps of the readers.
LEMMA SnapKeepsTypes ==
  ASSUME BookTypes, SnapTypes, SnapStep
  PROVE  SnapTypes'
<1>1. CASE Tick \/ SnapExit
  BY <1>1 DEF Tick, SnapExit, SnapTypes
<1>2. ASSUME NEW s \in Symbols, TakeData(s) PROVE SnapTypes'
  <2>1. scur' \in Snapshots
    BY <1>2, StatsTyped DEF TakeData, SnapshotData, Snapshots
  <2> QED
    BY <1>2, <2>1 DEF TakeData, SnapTypes
<1>3. CASE TakeVersion
  <2>1. scur \in Snapshots /\ scur.symbol \in Symbols
    BY <1>3 DEF TakeVersion, SnapTypes, Snapshots
  <2>2. scur' \in Snapshots
    BY <1>3, <2>1, StatsTyped DEF TakeVersion, SnapshotVersion, Snapshots
  <2> QED
    BY <1>3, <2>2 DEF TakeVersion, SnapTypes
<1>4. CASE Send
  <2>1. scur \in Snapshots
    BY <1>4 DEF Send, SnapTypes
  <2>2. snapshots' \in Seq(Snapshots) /\ Len(snapshots') <= ChanCap
    BY <1>4, <2>1, SnapshotterAssumption DEF Send, HasSpace, SnapTypes
  <2> QED
    BY <1>4, <2>2 DEF Send, SnapTypes
<1> QED
  BY <1>1, <1>2, <1>3, <1>4 DEF SnapStep, SnapRound

LEMMA PersKeepsTypes ==
  ASSUME BookTypes, PersTypes, PersistStep
  PROVE  PersTypes'
<1>1. CASE PersistTick \/ LastRound
  BY <1>1 DEF PersistTick, LastRound, LastRoundEnds, Round, PersTypes
<1>2. ASSUME NEW s \in Symbols, ReadBook(s) PROVE PersTypes'
  BY <1>2, StatsTyped DEF ReadBook, PersTypes
<1>3. CASE ReadStats
  <2>1. pcur \in Symbols
    BY <1>3 DEF ReadStats, PersTypes
  <2> QED
    BY <1>3, <2>1, StatsTyped DEF ReadStats, StatsNow, PersTypes
<1>4. ASSUME NEW applied \in BOOLEAN, NEW ok \in BOOLEAN, SetBook(applied, ok)
      PROVE  PersTypes'
  <2>1. pcur \in Symbols /\ pdata \in Book
    BY <1>4 DEF SetBook, PersTypes
  <2>2. redis' \in [Symbols -> Book \cup {NIL}]
    BY <1>4, <2>1 DEF SetBook, PersTypes
  <2>3. failed' \subseteq Symbols
    BY <1>4, <2>1 DEF SetBook, Note, PersTypes
  <2> QED
    BY <1>4, <2>1, <2>2, <2>3 DEF SetBook, AfterError, AfterBook, PersTypes
<1>5. ASSUME NEW applied \in BOOLEAN, NEW ok \in BOOLEAN, SetStats(applied, ok)
      PROVE  PersTypes'
  <2>1. pcur \in Symbols /\ pdata \in Stats
    BY <1>5 DEF SetStats, PersTypes
  <2>2. rstats' \in [Symbols -> Stats \cup {NIL}]
    BY <1>5, <2>1 DEF SetStats, PersTypes
  <2>3. failed' \subseteq Symbols
    BY <1>5, <2>1 DEF SetStats, Note, PersTypes
  <2> QED
    BY <1>5, <2>1, <2>2, <2>3 DEF SetStats, AfterBook, PersTypes
<1> QED
  BY <1>1, <1>2, <1>3, <1>4, <1>5 DEF PersistStep, PersistRound

\* The channel never holds more snapshots than it has room for, what is sent or
\* set is complete, and no life counts more than its changes.
THEOREM ReadTypes == Spec => []TypeOK
<1>0. \A k \in 1 .. MaxLives : Empty(k) \in [Symbols -> Book]
                            /\ \A s \in Symbols : Empty(k)[s].orders <= Empty(k)[s].changes
  BY ViewAssumption DEF Empty, EmptyBook, Book
<1>e. <<>> \in Seq(Snapshots) /\ Len(<<>>) <= ChanCap
  BY SnapshotterAssumption
<1>1. Init => TypeInv
  <2> SUFFICES ASSUME Init PROVE TypeInv
    OBVIOUS
  <2>1. BookTypes
    BY <1>0, ViewAssumption DEF Init, BookTypes
  <2>2. SnapTypes
    BY <1>e DEF Init, SnapTypes
  <2>3. PersTypes
    <3>1. atDone \in [Symbols -> Book]
      BY <1>0, ViewAssumption DEF Init
    <3> QED
      BY <3>1 DEF Init, PersTypes
  <2> QED
    BY <2>1, <2>2, <2>3 DEF Init, TypeInv
<1>2. TypeInv /\ [Next]_vars => TypeInv'
  <2> SUFFICES ASSUME TypeInv, [Next]_vars PROVE TypeInv'
    OBVIOUS
  <2>1. CASE UNCHANGED vars
    BY <2>1 DEF vars, snapVars, persVars, TypeInv, BookTypes, SnapTypes, PersTypes
  <2>2. CASE BookStep
    BY <2>2, BookKeepsTypes
  <2>3. CASE SnapshotterStep
    <3>1. SnapTypes'
      BY <2>3, SnapKeepsTypes DEF SnapshotterStep, TypeInv
    <3> QED
      BY <2>3, <3>1 DEF SnapshotterStep, persVars, TypeInv, BookTypes, PersTypes
  <2>4. CASE PersisterStep
    <3>1. PersTypes'
      BY <2>4, PersKeepsTypes DEF PersisterStep, TypeInv
    <3> QED
      BY <2>4, <3>1 DEF PersisterStep, snapVars, TypeInv, BookTypes, SnapTypes
  <2>5. CASE Stop
    BY <2>5 DEF Stop, persVars, TypeInv, BookTypes, SnapTypes, PersTypes
  <2>6. CASE StartAgain
    <3>1. SnapTypes'
      BY <1>e, <2>6 DEF StartAgain, TypeInv, SnapTypes
    <3> QED
      BY <2>6, <3>1 DEF StartAgain, persVars, TypeInv, BookTypes, PersTypes
  <2>7. CASE Done
    BY <2>7 DEF Done, snapVars, TypeInv, BookTypes, SnapTypes, PersTypes
  <2>8. CASE Restart
    <3>1. life' \in 1 .. MaxLives /\ book' = Empty(life') /\ atDone' = Empty(life')
      BY <2>8, ViewAssumption DEF Restart, TypeInv, BookTypes
    <3>2. BookTypes'
      BY <1>0, <3>1 DEF BookTypes
    <3>3. SnapTypes'
      BY <1>e, <2>8 DEF Restart, SnapTypes
    <3>4. PersTypes'
      BY <1>0, <2>8, <3>1 DEF Restart, TypeInv, PersTypes
    <3> QED
      BY <2>8, <3>2, <3>3, <3>4 DEF Restart, TypeInv
  <2> QED
    BY <2>1, <2>2, <2>3, <2>4, <2>5, <2>6, <2>7, <2>8 DEF Next
<1>3. TypeInv => TypeOK
  BY DEF TypeInv, BookTypes, SnapTypes, PersTypes, TypeOK
<1> QED
  BY <1>1, <1>2, <1>3, PTL DEF Spec
=============================================================================
