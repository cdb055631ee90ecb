------------------------------ MODULE Persister ------------------------------
(***************************************************************************)
(* RedisPersister of engin/persister.go: Run writes every book and its     *)
(* statistics to Redis, at each tick and once more when its context is     *)
(* done.  Redis is external: a Set may fail, and may fail after it took    *)
(* effect.  NewServiceContext creates the persister; the caller of Run is  *)
(* part of this model's environment, as the shipped program has none.      *)
(* SaveOrder, SaveTrade and their like have no caller either and write     *)
(* keys of their own; they are left out.                                   *)
(***************************************************************************)
EXTENDS BookView

CONSTANT NIL  \* no symbol, no value of a key

\* NIL is no symbol and none of the values kept in Redis.
ASSUME PersisterAssumption ==
  /\ NIL \notin Symbols
  /\ NIL \notin [life : Nat, changes : Nat, orders : Nat] \cup [life : Nat, orders : Nat]

VARIABLES
  ppc,     \* next step of the goroutine; "off" when it does not run
  final,   \* it is in, or has made, its last round
  ptodo,   \* the books it has not visited in this round
  pcur,    \* the book it is at
  pdata,   \* the value it is about to set
  redis,   \* the keys "matching:orderbook:<symbol>"
  rstats,  \* the keys "matching:orderbook:<symbol>:stats"
  pdone,   \* its context is done
  failed,  \* history: books with a failed Set in the last round
  atDone   \* history: the books when the context was done

persVars == <<ppc, final, ptodo, pcur, pdata, redis, rstats, pdone, failed, atDone>>

Round(last) ==
  /\ ppc = "wait"
  /\ final' = last /\ ptodo' = Symbols
  /\ ppc' = "read"
  /\ UNCHANGED <<pcur, pdata, redis, rstats, pdone, failed, atDone>>

PersistTick == Round(FALSE)

\* A last round that returns to the loop.
LastRoundReturns == FALSE

LastRoundEnds == TRUE

\* persistAll once more, and then the end.
LastRound == pdone /\ Round(LastRoundEnds)

\* A failed Set of the last round is remembered.
Note(ok) == failed' = IF ok \/ ~final THEN failed ELSE failed \cup {pcur}

\* The round after the book at hand.
AfterBook ==
  /\ pcur' = NIL /\ pdata' = NIL
  /\ ppc' = IF ptodo # {} THEN "read" ELSE IF final THEN "off" ELSE "wait"

\* A round that ends at the first error.
AfterErrorReturn ==
  /\ pcur' = NIL /\ pdata' = NIL
  /\ ppc' = IF final THEN "off" ELSE "wait"

\* The error of one book is logged, the round goes on.
AfterError == AfterBook

\* persistOrderBook: GetSnapshot under a read lock of its own.
ReadBook(s) ==
  /\ ppc = "read" /\ s \in ptodo
  /\ ptodo' = ptodo \ {s} /\ pcur' = s
  /\ pdata' = GetSnapshot(s)
  /\ ppc' = "set"
  /\ UNCHANGED <<final, redis, rstats, pdone, failed, atDone>>

\* A Set that fails gives up this book, statistics included.
SetBook(applied, ok) ==
  /\ ppc = "set"
  /\ redis' = IF applied THEN [redis EXCEPT ![pcur] = pdata] ELSE redis
  /\ IF ok THEN ppc' = "stats" /\ UNCHANGED <<pcur, pdata>> ELSE AfterError
  /\ Note(ok)
  /\ UNCHANGED <<final, ptodo, rstats, pdone, atDone>>

\* The orders since the statistics were last set.
StatsSince ==
  [GetStats(pcur) EXCEPT
     !.orders = @ - (IF rstats[pcur] = NIL THEN 0 ELSE rstats[pcur].orders)]

\* The statistics are read after the snapshot was set.
StatsNow == GetStats(pcur)

ReadStats ==
  /\ ppc = "stats"
  /\ pdata' = StatsNow
  /\ ppc' = "setStats"
  /\ UNCHANGED <<final, ptodo, pcur, redis, rstats, pdone, failed, atDone>>

\* The error of this Set is ignored.
SetStats(applied, ok) ==
  /\ ppc = "setStats"
  /\ rstats' = IF applied THEN [rstats EXCEPT ![pcur] = pdata] ELSE rstats
  /\ AfterBook
  /\ Note(ok)
  /\ UNCHANGED <<final, ptodo, redis, pdone, atDone>>

\* What Redis may do with a Set: one that is reported as done took effect, one
\* that is reported as failed may have.
Possible(applied, ok) == ok => applied

PersistRound ==
  \/ PersistTick
  \/ \E s \in Symbols : ReadBook(s)
  \/ ReadStats
  \/ \E applied, ok \in BOOLEAN :
       Possible(applied, ok) /\ (SetBook(applied, ok) \/ SetStats(applied, ok))

PersistStep == PersistRound \/ LastRound

\* RestoreOrderBook: the value under the key; nothing but the caller would
\* make a book of it.
RestoreOrderBook(s) == redis[s]

-----------------------------------------------------------------------------
(* Properties                                                              *)

\* A graceful end leaves Redis up to date: unless a Set of this book failed in
\* the last round (whatever failed for other books or in earlier rounds), what
\* can be restored, with its statistics, holds every change made before the
\* context was done.
LastPersistCovers ==
  ppc = "off" /\ final =>
    \A s \in Symbols \ failed :
      /\ redis[s] # NIL /\ NotNewer(atDone[s], RestoreOrderBook(s))
      /\ rstats[s] # NIL /\ rstats[s].life = life
      /\ RestoreOrderBook(s).life = life
      /\ RestoreOrderBook(s).orders <= rstats[s].orders

\* Redis never goes back within a life: no failed or
\* repeated Set replaces a snapshot, or statistics, by older ones.
RedisForward ==
  [][\A s \in Symbols :
       /\ redis[s] # NIL => NotNewer(redis[s], redis'[s])
       /\ rstats[s] # NIL =>
            rstats[s].life < rstats'[s].life \/ rstats[s].orders <= rstats'[s].orders]_persVars
=============================================================================
