----------------------------- MODULE Snapshotter -----------------------------
(***************************************************************************)
(* Snapshotter of engin/snapshotter.go: a goroutine of the engine that     *)
(* wakes up by a ticker, takes a snapshot of every book and offers it to a *)
(* channel that nothing in the program reads.  SaveSnapshot and            *)
(* RestoreFromSnapshot only log.                                           *)
(***************************************************************************)
EXTENDS BookView

CONSTANTS
  ChanCap,  \* capacity of snapshotChan (1000)
  NONE      \* no symbol, no snapshot

ASSUME SnapshotterAssumption == ChanCap \in Nat

VARIABLES
  spc,       \* next step of the goroutine; "off" when it does not run
  stodo,     \* the books it has not visited in this round
  scur,      \* the snapshot it has in hand
  snapshots, \* snapshotChan
  stopping   \* its context is done

snapVars == <<spc, stodo, scur, snapshots, stopping>>

\* select: a tick that is ready is taken even if the context is done as well.
Tick ==
  /\ spc = "wait"
  /\ spc' = "read" /\ stodo' = Symbols
  /\ UNCHANGED <<scur, snapshots, stopping>>

SnapExit ==
  /\ spc = "wait" /\ stopping
  /\ spc' = "off"
  /\ UNCHANGED <<stodo, scur, snapshots, stopping>>

\* The levels of the snapshot that was sent before, if there is one.
DataCached(s) ==
  LET sent == {n \in 1 .. Len(snapshots) : snapshots[n].symbol = s}
  IN  IF sent = {} THEN GetSnapshot(s) ELSE snapshots[CHOOSE n \in sent : TRUE].data

SnapshotData(s) == GetSnapshot(s)

\* takeSnapshot, first read lock: the levels.
TakeData(s) ==
  /\ spc = "read" /\ s \in stodo
  /\ scur' = [symbol |-> s, data |-> SnapshotData(s), version |-> NONE]
  /\ stodo' = stodo \ {s}
  /\ spc' = "stats"
  /\ UNCHANGED <<snapshots, stopping>>

\* Version = stats.OrdersProcessed.
SnapshotVersion == GetStats(scur.symbol)

\* takeSnapshot, second read lock: the number of orders becomes the version.
TakeVersion ==
  /\ spc = "stats"
  /\ scur' = [scur EXCEPT !.version = SnapshotVersion]
  /\ spc' = "send"
  /\ UNCHANGED <<stodo, snapshots, stopping>>

\* A channel of one more.
HasSpaceLate == Len(snapshots) <= ChanCap

HasSpace == Len(snapshots) < ChanCap

\* A send without a default branch.
SendsBlocking == HasSpace

\* The default branch makes the send always possible.
Sends == TRUE

\* A full channel drops the snapshot.
Send ==
  /\ spc = "send" /\ Sends
  /\ snapshots' = IF HasSpace THEN Append(snapshots, scur) ELSE snapshots
  /\ scur' = NONE
  /\ spc' = IF stodo = {} THEN "wait" ELSE "read"
  /\ UNCHANGED <<stodo, stopping>>

SnapRound == Tick \/ (\E s \in Symbols : TakeData(s)) \/ TakeVersion \/ Send

SnapStep == SnapRound \/ SnapExit

-----------------------------------------------------------------------------
(* Properties                                                              *)

\* Snapshots are consistent in time, although data and version come from two
\* lock sections and any number of orders and cancellations come between: a
\* version counts at least the orders in its data, and no later snapshot of
\* that book holds fewer orders than an earlier version counts.
SnapshotsOrdered ==
  /\ \A n \in 1 .. Len(snapshots) :
       /\ snapshots[n].data.life = life /\ snapshots[n].version.life = life
       /\ snapshots[n].data.orders <= snapshots[n].version.orders
  /\ \A m, n \in 1 .. Len(snapshots) :
       m < n /\ snapshots[m].symbol = snapshots[n].symbol =>
         /\ snapshots[m].version.orders <= snapshots[n].data.orders
         /\ NotNewer(snapshots[m].data, snapshots[n].data)
=============================================================================
