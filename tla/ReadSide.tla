------------------------------ MODULE ReadSide ------------------------------
(***************************************************************************)
(* The readers of the order books, the snapshotter, which the engine       *)
(* starts and stops, and the persister, each beside the workers that       *)
(* change the books, in a process that may die and be started again.       *)
(* Books, channel and goroutines die with it; Redis stays.  A reader       *)
(* changes neither the books nor anything of the other, so a behaviour     *)
(* follows one of the two.                                                 *)
(***************************************************************************)
EXTENDS Snapshotter, Persister

VARIABLE reader  \* the one that is followed

vars == <<life, book, snapVars, persVars, reader>>

Empty(k) == [s \in Symbols |-> EmptyBook(k)]

Init ==
  /\ life = 1 /\ book = Empty(1)
  /\ spc = "wait" /\ stodo = {} /\ scur = NONE /\ snapshots = <<>>
  /\ stopping = FALSE
  /\ ppc = "wait" /\ final = FALSE /\ ptodo = {} /\ pcur = NIL /\ pdata = NIL
  /\ pdone = FALSE /\ failed = {} /\ atDone = Empty(1)
  /\ redis = [s \in Symbols |-> NIL] /\ rstats = [s \in Symbols |-> NIL]
  /\ reader \in {"snapshotter", "persister"}

BookStep ==
  /\ \E s \in Symbols : Match(s) \/ Cancel(s)
  /\ UNCHANGED <<life, snapVars, persVars, reader>>

SnapshotterStep ==
  reader = "snapshotter" /\ SnapStep /\ UNCHANGED <<life, book, persVars, reader>>

PersisterStep ==
  reader = "persister" /\ PersistStep /\ UNCHANGED <<life, book, snapVars, reader>>

\* The engine's Stop, and its Start after that: the same books, a new
\* snapshotter with a new channel.
Stop ==
  /\ reader = "snapshotter" /\ ~stopping
  /\ stopping' = TRUE
  /\ UNCHANGED <<life, book, spc, stodo, scur, snapshots, persVars, reader>>

StartAgain ==
  /\ stopping /\ spc = "off"
  /\ stopping' = FALSE /\ spc' = "wait" /\ snapshots' = <<>>
  /\ UNCHANGED <<life, book, stodo, scur, persVars, reader>>

\* The context of the persister's Run is done.
Done ==
  /\ reader = "persister" /\ ~pdone
  /\ pdone' = TRUE /\ atDone' = book
  /\ UNCHANGED <<life, book, ppc, final, ptodo, pcur, pdata, redis, rstats, failed,
                 snapVars, reader>>

\* The process dies and its successor starts with empty books: nothing calls
\* RestoreOrderBook.
Restart ==
  /\ life < MaxLives
  /\ life' = life + 1 /\ book' = Empty(life + 1)
  /\ spc' = "wait" /\ stodo' = {} /\ scur' = NONE /\ snapshots' = <<>>
  /\ stopping' = FALSE
  /\ ppc' = "wait" /\ final' = FALSE /\ ptodo' = {} /\ pcur' = NIL /\ pdata' = NIL
  /\ pdone' = FALSE /\ failed' = {} /\ atDone' = Empty(life + 1)
  /\ UNCHANGED <<redis, rstats, reader>>

Next ==
  \/ BookStep \/ SnapshotterStep \/ PersisterStep
  \/ Stop \/ StartAgain \/ Done \/ Restart

Spec == Init /\ [][Next]_vars

\* Both goroutines keep running.  Go's select picks at random among the cases
\* that are ready, so a done context is not missed for ever: strong fairness.
Fairness ==
  /\ WF_vars(SnapshotterStep) /\ SF_vars(SnapshotterStep /\ SnapExit)
  /\ WF_vars(PersisterStep) /\ SF_vars(PersisterStep /\ LastRound)

FairSpec == Spec /\ Fairness

-----------------------------------------------------------------------------
(* Properties                                                              *)

Stats == [life : 1 .. MaxLives, orders : 0 .. MaxChanges]

Snapshots == [symbol : Symbols, data : Book, version : Stats \cup {NONE}]

\* The type of every variable, and the capacity of the channel.
TypeOK ==
  /\ life \in 1 .. MaxLives /\ book \in [Symbols -> Book]
  /\ spc \in {"wait", "read", "stats", "send", "off"} /\ stodo \subseteq Symbols
  /\ scur \in Snapshots \cup {NONE}
  /\ snapshots \in Seq(Snapshots) /\ Len(snapshots) <= ChanCap
  /\ stopping \in BOOLEAN
  /\ ppc \in {"wait", "read", "set", "stats", "setStats", "off"}
  /\ final \in BOOLEAN /\ ptodo \subseteq Symbols
  /\ pcur \in Symbols \cup {NIL} /\ pdata \in Book \cup Stats \cup {NIL}
  /\ redis \in [Symbols -> Book \cup {NIL}] /\ rstats \in [Symbols -> Stats \cup {NIL}]
  /\ pdone \in BOOLEAN /\ failed \subseteq Symbols
  /\ atDone \in [Symbols -> Book]
  /\ reader \in {"snapshotter", "persister"}

\* A goroutine whose context is done ends, unless its process dies first: the
\* snapshotter although nobody reads its channel (the engine's Stop waits for it
\* under the engine's mutex), the persister also when Redis fails.
ReadersStop ==
  /\ stopping ~> spc = "off" \/ ~stopping
  /\ pdone ~> ppc = "off" \/ ~pdone
=============================================================================
