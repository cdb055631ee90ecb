# Verification of tradeengin

TLA+ models, TLC runs and TLAPS proofs for `tradeengin`, a trading system in Go:
an HTTP gateway, an order service and a matching service that talk gRPC. Paths
below are relative to the repository; `app/...` stands for the Go packages, and
line numbers are those of the modelled commit.

## 1. Inventory

| Component | State | Operations | What makes it correct | Module |
|---|---|---|---|---|
| Lock-free ring (`app/pkg/lockfree/ringbuffer.go`) | `head`, `tail`, slots | `Push`, `Pop`, `BatchPop` by any number of goroutines | exclusive ownership of positions; nothing lost, nothing delivered twice; FIFO for one producer and one consumer; no one spins for ever | `RingBuffer` |
| Skip tree (`app/matching/internal/orderbook/skip_tree.go`) | towers of forward pointers, `level`, `size` | `Insert`, `Remove`, `Clear`, look-ups, range walks | well linked on every floor; a map from prices; look-ups and ranges find what the map has, in both directions | `SkipTree` |
| Order book (`.../orderbook/hybird.go`) | two trees of levels (`TotalQty`, `Orders`), `orderMap`, `seqMaps` | `Match`, `CancelOrder`, snapshot, best prices | price priority, conservation of quantity, agreement of the redundant structures, never crossed, an honest snapshot | `OrderBook` |
| Price level manager, order queue (`.../orderbook/price_level.go`) | levels, maps, counters, a growing circular queue | add, remove, earliest | levels, maps, queues and counters agree; the queue is a list | `PriceLevels`, `OrderQueue` |
| Engine and workers (`app/matching/internal/engin/engin.go`, `worker.go`) | marks `processed`, `orderStates`, input queue per symbol, output queue, pooled order objects | `ProcessOrder`, worker loop, result loop, `CancelOrder`, `Start`, `Stop` | idempotency, one holder per object, accepted orders are matched once and, from one caller, all and in order; `Stop` returns | `Engine` |
| Pools and types (`app/pkg/types/types.go`) | `sync.Pool`s | get, put with `Reset` | an object in the pool has no other user | `Engine` |
| Snapshotter (`engin/snapshotter.go`) | a channel of 1000 | ticker, snapshot of every book, drop when full | snapshots and versions are ordered in time; a channel nobody reads does not keep `Stop` waiting | `Snapshotter` |
| Redis persister (`engin/persister.go`) | Redis keys | persist each tick and once at the end, restore | the last round covers the books; Redis never goes back | `Persister` |
| Matching service shell (`app/matching/internal/{svc,logic,server}`) | engine | `ProcessOrder`, `GetOrderBook` RPC | what the caller is told is true | `OrderFlow`, `OrderBook` |
| Order service (`app/order`) | none; ids from the clock | `CreateOrder`, `CreateBatchOrder` (a stub) | a success is the request's own | `OrderFlow` |
| Gateway (`app/gateway`) | none | validation, forwarding, order status | only valid orders pass, every request is answered | `OrderFlow`, `OrderBook` |
| Middleware, interceptors, metrics, errors, generated code, unused model, deployment | | | not modelled, section 5 | |

How they interact. A gateway request becomes a `CreateOrder` RPC to the order
service, which takes an id from the clock and calls `ProcessOrder` of the matching
service. `MatchingEngine.ProcessOrder` marks the id, copies the order into a pooled
object and pushes the pointer into the ring of its symbol, then answers with an
empty result. 32 workers poll all rings with `BatchPop`, call `Match` of the
symbol's book (one mutex per book), push the result into the output ring and return
the object to the pool. One goroutine drains the output ring for metrics. The book
finds the best level through a skip tree and the maker through a ring per price.
Beside them a snapshotter (and, if somebody ran it, the persister) reads the books
under their read locks, and `GetOrderBook` answers the gateway from a snapshot.

Hard behaviours: the unlocked interleavings in the ring and its laps; pooled objects
that are still referenced; rollback in two steps racing with a retry; the double
bookkeeping of quantities at a level; stop in the middle of a batch; two reads of a
book under two locks; failing Redis calls; restart with all state in memory; timeouts
and retries over two RPC hops. `PROJECT.json` lists each one at its line ("hazards")
with the property that watches it.

## 2. Modules

| Module | Models | Checked by | Proofs |
|---|---|---|---|
| `RingBuffer` | `ringbuffer.go`, one atomic memory operation per action | `MCRingBuffer` | `RingBufferProofs` |
| `DeliveryBag`, `FifoQueue` | abstract: what a queue without, or with, order promises | refined by `RingBuffer` | `RingBufferProofs` |
| `SkipTree` | `skip_tree.go`, one action per locked operation, with the pointers | `MCSkipTree` | `SkipTreeProofs` |
| `PriceMap` | abstract: a map from prices to levels | refined by `SkipTree` | `SkipTreeProofs` |
| `OrderBook` | `hybird.go`: `Match` step by step under the book's mutex, `CancelOrder`, the queries and the RPC answers made of them | `MCOrderBook` | `OrderBookProofs` |
| `Engine` | `engin.go`, `worker.go` and the order pool of `types.go` | `MCEngine` | `EngineProofs` |
| `OrderFlow` | the way of a request through gateway, order service and matching service | `MCOrderFlow` | `OrderFlowProofs` |
| `BookView` | the books as their readers meet them | | |
| `Snapshotter`, `Persister` | `snapshotter.go`, `persister.go` over `BookView` | | |
| `ReadSide` | composition of the two with changing books, stop, restart | `MCReadSide` | `ReadSideProofs` |
| `OrderQueue` | the circular queue of `price_level.go`, as operators on a queue | | |
| `OrderList` | abstract: a list with removal anywhere | refined by `OrderQueue` | `PriceLevelsProofs` |
| `PriceLevels` | `PriceLevelManager` over `OrderQueue`, and a queue by itself | `MCPriceLevels` | `PriceLevelsProofs` |
| `Recursion` | nothing: lemmas on sums over sets, ranks and walks along pointers | | used by the proof modules |

The composition is by abstraction. `Engine` takes a ring as a sequence that a `Push` or a
`BatchPop` changes in one step. With one producer it is a bounded FIFO queue, which `RingBuffer`
implements for one consumer (proved; for several consumers it is a bag, proved as well). With
several producers the order of the slots is that of the claims and not that of the stores, a
store a lap later may take the place of an item (`RingLapLoss`), and stale counters may look full:
there a `Push` of `Engine` puts its item at any place (`Entered`), in the place of another
(`Lapped`), or is refused (`MayRefuse`). What this leaves out: a consumer that has claimed
the position of an overwritten item waits until the next lap fills it. The properties that such a wait would touch,
`AcceptedMatched`, `StopReturns` and `MatchedInOrder`, are therefore stated or checked for one
caller and one worker; what a waiting consumer has taken already counts as queued, and the
others are not about progress. `Engine` takes `Match` as one step with any outcome; `OrderBook` is its
inside. `OrderBook` takes a tree as a set of levels, which is what `PriceMap` promises.
`OrderBook` names each order object by its order, as in the tests that call the book
directly; what happens when the engine recycles those objects is modelled in `Engine`.
`OrderFlow` has the matching service as marks, one queue and a `Match` of an order; the
separate maps and objects are those of `Engine`. `BookView` has a book as counters of what
was done to it; the levels are those of `OrderBook`.

### How the state corresponds

* `RingBuffer`. `head`, `tail`, `buffer` are the fields. `pc[t]` is the atomic operation
  a goroutine does next (`pushHead` = line 54, `pushTail` 55, `pushCas` 62, `pushWait`
  65, `pushStore` 68; `takeHead` 113, `takeTail` 114, `takeCas` 127, `takeSlot` 133 or
  94, `popClear` 96), `rh` and `rt` its local copies. `out`, `pushed`, `offered` are
  histories. Go's atomics are sequentially consistent, so interleaving these operations
  is exact. `LooksFull` keeps the unsigned wrap of `head-tail`.
* `SkipTree`. A node is named by its key, `forward[n][i]` are its pointers, `height` its
  tower (chosen freely, `randomLevel`), `value[n]` its level object. `reverse` is chosen
  at the start, so both kinds of tree are in every run. `Eps` is the epsilon of `compare`.
* `OrderBook`. `tree`, `total`, `resting` are levels with `TotalQty` and `Orders`, `seq` is
  `seqMaps` (one queue per price for both sides, as in the code), `taker # 0` means the
  mutex is held by a `Match`, whose loop is `MatchTrade` and whose rest is `MatchEnd`.
  `rested` and `traded` are histories of what entered and left each level.
  `AddOrderToBook` and the removal of a level (tree and queue) happen in the same step
  as in the code. Cancelled objects are `Blank`, as `Order.Reset` leaves them.
  `OrderBookSnapshot` is `GetSnapshot`, `OrderBookResp` what the RPC handler and the
  gateway cut out of it, `GetBestBid` and `GetBestAsk` sets with at most one level.
* `Engine`. `processed` and `states` are the two `sync.Map`s, `obj[p]` the id in order
  object `p`, `pool[p]` how often the pool holds it (a double put makes it 2), `resting`
  the pointer the book keeps, `batch[w]` what a worker popped and has not returned. Each
  access to a map, a queue or the pool is a step of its own. A rejected duplicate
  changes nothing and has no action. `overwritten` remembers the ids that a push a lap later
  took out of an input queue, `dropped` those a worker held when a stop ended it, `raced` that `CancelOrder` returned an object a worker was holding.
* `OrderFlow`. `gpc`, `opc`, `mpc` are the handlers of one request in the three services,
  `oid` its id (a reading of `Clock`, which two requests may share), `answer` what the
  client is told. `GatewayGivesUp` and `OrderGivesUp` are the failing calls: a timeout, a lost
  connection, a dead peer; the handler called goes on. `Restart` is a new process of the matching
  service: marks and queue are gone and its handlers in progress never answer (`"lost"`).
* `ReadSide`. `book[s]` counts the changes (`version`) and the orders (`stats.OrdersProcessed`)
  of a book in the process `life`. `spc`, `scur`, `snapshots` are the snapshotter's step,
  the snapshot in hand and `snapshotChan`; `ppc`, `pdata`, `redis`, `rstats` the persister's step,
  the value it is about to set and the two keys of each symbol. Snapshot and version, and
  snapshot and statistics, are read in steps of their own, as the code takes the read
  lock for each. A Redis `Set` may fail with or without effect; one that takes effect long after
  it was reported as failed is not modelled. The two readers change nothing of each
  other, so a behaviour follows one of them (`reader`).
* `OrderQueue`. A queue is the record of `orders`, `head`, `tail`, `size`; growth is
  `Grown`, the shift of `Remove` is `Shifted`. `PriceLevels` runs a manager, whose two atomic
  counters change after the maps and are read without the mutex, or a queue by itself
  (`subject`). `levels`, `orderMap` and `seqMap` are functions on the keys the Go maps have.

Names ending in `Always`, `Late`, `Keeps`, `Kept`, `Skips` and the like are plausible
wrong variants of the operator that follows them; the specifications do not use them.
Replacing the right operator by its variant makes the property named in
`PROJECT.json` ("mutants") fail, which shows that the property depends on that code.

## 3. Runs

| Run | Instance | Shows |
|---|---|---|
| `RingPop` | 1 producer, 1 `Pop`, 4 items, capacity 2 | implements `FifoQueue`; `Push` fails only when full; everything accepted is delivered |
| `RingNoLap` | 2 producers, 2 `BatchPop`, 2 items, capacity 2 | exclusive claims; implements `DeliveryBag`; no double delivery; no consumer spins for ever |
| `TreeCore` | 5 prices (two of them equal within `Eps`), 3 floors, both directions | well linked, look-ups and ranges right, implements `PriceMap` |
| `BookCore` | 2 prices, quantities 1 and 2, 4 orders, queue of 2 | no oversell, indexes agree, crossed only at a used-up level, honest snapshots, takers served in price order, `Match` ends |
| `EngineCore` | 2 callers, 2 workers, 2 ids, 3 objects, queues of 1 that overwrite and refuse, cancellations, stops | idempotency, one holder per object, matched once |
| `EngineStop` | 1 caller, 1 worker, 3 ids, 2 objects, input queue and batch of 2, stops | nothing accepted disappears, matched in order of acceptance; every accepted order is matched; `Stop` returns |
| `OrderFlow` | 2 requests, 2 clock readings, queue of 1, 2 lives | accepted once, a success is one's own, marks are owned, every handler ends |
| `ReadSide` | 2 symbols, 2 changes per life, 2 lives, channel of 3 | snapshots ordered, last round complete, Redis moves forward, readers stop |
| `Levels` | 4 ids, queue of 2 that grows, 2 prices, quantities 1 and 2 | the manager's structures agree; the queue implements `OrderList` |

Three more runs are ones that TLC finds violated, disagreements between the code and
what its comments say (section 6): `RingLapLoss`, `BookMaker`, `EngineResting`.

Bounds. A ring of capacity 2 with 4 items laps, is full, is empty, and has
positions in both slots; larger capacities (1024, 65536, 2^20 in the code) add no new
relation between positions, and the theorems hold for every capacity and any number of
laps. `RingNoLap` keeps within a lap because two producers beyond it do lose items
(`RingLapLoss`). `MaxOrders` bounds the orders of a book: four give a partial fill, a
second maker, a cancellation and a taker after it. Three floors give nodes below, at
and above the search path. Two ids with two callers give a duplicate, a rollback
and a retry in parallel; three objects give one that is reused while another rests.
`EngineStop` needs three ids: with a batch of two a stop drops the rest of a batch
while the next order waits in the queue. Input and output queues of 1 take both the full and
the free path; in `EngineCore` a queue of 1 can be overwritten and refused but not reordered, which no
property of that run is about. Two requests are a duplicate id, a full queue and a late answer of one
while the other is on its way; a second life is a restart, with marks and queue gone. Two changes of a
book put one before, between or after any two reads of a round; a channel of 3 holds
two snapshots of one book, taken in two rounds, and drops the fourth snapshot. A queue of 2 with four ids grows once, with
a head at either slot. Items, threads, objects, ids of `Levels` are interchangeable and the
safety runs use this symmetry; runs with liveness do not.

`CHECK_DEADLOCK FALSE` is in the runs that come to an end: all `MaxOrders` orders of a
book are submitted and none can be cancelled (`BookCore`, `BookMaker`); all ids of an engine
are accepted and matched, and no worker has anything to pop (`Engine*`: an empty poll is a stutter);
all requests have their answers (`OrderFlow`); both bounds of the books are reached and the
reader has stopped (`ReadSide`). A ring, a tree or the levels cannot stop.

Fairness. A goroutine inside a call, a worker, a result loop, a handler keeps taking its
steps (Go's scheduler is preemptive, and the ring's waits are spins with `Gosched`, not locks), and
`NewServiceContext` starts the engine. Nothing obliges anybody to push, submit,
cancel, stop or restart. This is weak fairness per goroutine. Two cases need a word:
in `OrderFlow` a handler that waits for a service which has died gets an error in the end,
because its call has a deadline (`Timeout` in `gateway.yaml`, and the default of
go-zero's RPC clients), which is a step of the handler and covered by its weak fairness; in `ReadSide` a
done context must win against a ticker that may always be ready as well, and Go's `select` picks
at random among ready cases, hence strong fairness for the exit (`SnapExit`, `LastRound`).

## 4. Theorems

Proved by TLAPS for all values of the constants, under the named assumptions that
the modules declare and those a theorem names. The declared ones are what the code's
constants and types give: positive capacities and quantities, disjoint roles of threads,
finitely many prices (`TreeAssumption`: they are floats) and symbols (`ViewAssumption`), an
epsilon that is an equivalence on the prices tried (`TreeAssumption`).

The ring (`RingBufferProofs`):

* `TypeCorrect`: `TypeOK` is inductive. `BatchSwap` delivers an item and never nil, because it
  waits for a full slot.
* `ClaimsExclusive`: `Bounded` and `ClaimsDisjoint` for any number of producers and consumers.
  They are not inductive alone: that a claim lies below `tail` depends on copies loaded
  earlier. `Ownership` adds that copies are old values of the counters, that a producer
  about to claim saw fewer than `Cap` items, and that the claims of consumers are
  intervals in some order; counters only grow, so a won compare-and-swap turns a stale
  observation into a current one.
* `ConsumedOnce`: with `BatchPop` only, no pointer is delivered twice, laps and overwrites
  included. `OnePlace` is the inductive form: a pointer is with the producer that pushes
  it, in one slot, or at one place of the history. The assumption `Poppers = {}` is
  needed: two calls of `Pop` a lap apart can return one pointer (section 6).
* `RingIsFifo`: one producer and one consumer implement `FifoQueue`, for every capacity. The
  queue is the content of the slots from the consumer's next position to the last one
  stored. `Alone` is the inductive invariant: slots within that window hold items, all others
  are nil; that two positions of the window have different slots is arithmetic modulo
  `Cap`, in lemmas of their own.
* `RingIsBag`, `SoleProducerLosesNothing`: one producer and any number of `BatchPop` callers
  implement `DeliveryBag`, and nothing accepted is lost, laps included: a sole producer waits
  for its slot to be nil and nobody else can fill it. With two producers `RingLapLoss` refutes it.
* `SoleProducerRejectsWhenFull`: one producer and any consumers. `Push` compares a copy of `head` with a
  `tail` loaded later; the sole producer's copy is still the `head` of that moment
  (`Current`), `tail` is not beyond it, and so the difference is what it looks like.

The book (`OrderBookProofs`):

* `BookTypeCorrect`, `BookNeverOversells`: `NoOversell` is inductive with `TypeOK`; the double
  decrement and the cancellation only ever lower `TotalQty`.
* `BookIndexed`: `RestingIndexed`, with `Fresh` (what is listed was submitted before and is not the
  taker) as its strengthening.
* `BookWalksPrices`, `BookServesTaker`: `PriceWalk` is the half of `TakerServed` about prices. `Ahead` is its
  strengthening: every level left in the tree opposite is worse than the last trade.
  The other half is a sum over the trades, which grows by what the last of them takes off the rest.
* `BookNeverCrosses`: `CrossedOnlyAtSpent`. `CrossBlocked` is its form for all pairs of levels: a
  bid at or above an ask has a used-up level at or before it in the order of its side;
  `Limited` says that the prices in the trees have a bound. With it a best level exists in a
  non-empty tree, by well-founded induction on the prices, so a taker that rests met the
  best level opposite before.
* `BookSnapshotHonest`: `Honest` is the inductive part. A level's total is at most the sum of what its
  listed orders came with, and below 0 once none is listed: the cancellation takes off the whole
  order, the double decrement only more than was filled. What is shown is the `Nth` best level of a
  side, for the first numbers; as a side is finite and its order total, each number has exactly
  one level (the ranks of `Recursion`). The depth is the whole book; less is a prefix of it.

The engine (`EngineProofs`):

* `EngineIdempotent`: `OneMark` is the inductive form of `AcceptedOnce`: the mark of an id belongs
  to one call in progress or to an accepted order, so `LoadOrStore` succeeds only for an
  id that was never accepted, and a rollback gives up only the caller's own mark.
* `EngineTypeCorrect`, `EngineOneHolder`, `EngineMatchesOnce`, `EngineKeepsAccepted`: all from one
  invariant, `OwnerInv`, which speaks of ids instead of objects. The ids in queues and
  batches are different from each other, accepted and not yet matched; what a call holds
  has an id that was not accepted; what the pool holds has none. So no object is at two
  places, and `OneHolder` follows. A push keeps this wherever it puts its order, and what it
  overwrites is in no queue any more. A cancellation within a worker's window breaks it, hence
  `raced` in the three properties. `EngineKeepsAccepted` has the loss of `RingLapLoss` in its statement: an
  accepted order that is nowhere was dropped by a stop or, with several callers, overwritten;
  the orders of a sole caller are not (`SoleCallerLapsNobody`).
* `EngineMatchesInOrder`: `MatchedInOrder` for one caller, one worker and one symbol, and any number of
  ids, objects and slots. `InLine` adds the order of the queue to `OwnerInv`: whoever was accepted
  before an order is gone (matched or dropped by a stop), or stands before it in the batch, or,
  for an order still queued, stands in the batch or before it in the queue.

The services (`OrderFlowProofs`) and the readers (`ReadSideProofs`):

* `FlowTypeCorrect`, `FlowAcceptsOnce`, `FlowSuccessIsOwn`, `FlowMarksOwned`: from `FlowInv`, which ties
  the three program counters of a request to one another (an order service that succeeded
  has a matching handler that accepted, and so on) and each mark to one owner.
* `SnapshotsInOrder`, `PersisterCovers`, `PersisterForward`: from `ReadInv`. A snapshot or value in hand
  is not newer than the book, not older than what was read before; in a last round every
  book is yet to visit, in hand, failed, or covered in Redis.
* `ReadTypes`: `TypeInv` adds what each program counter says of the value in hand. That a book keeps
  within `MaxChanges` needs the sum over all books: none has more than all together.

The skip tree (`SkipTreeProofs`):

* `TreeTypes`, `TreeWellLinkedAlways`: `TreeInv` says of each floor what its pointers link. From the header
  and from every node whose tower reaches the floor the pointer leads to the next such node in
  the order of the tree, or nowhere if there is none. The searches are then shown to leave each
  floor at the last node before the price (`Update`), and `Insert`, `Remove` and the lowering of `level`
  to keep the invariant, whatever tower `randomLevel` gives.
* `TreeIsPriceMap`: a step of the tree is one of `PriceMap` under the mapping of section 2. An `Insert` at a
  price within `Eps` of a node replaces that node's level and links nothing.
* `TreeLookups`: all of `LookupsAgree`. Every walk descends in the number of nodes ahead of it, so it
  ends, and the list it returns is the nodes ahead in order.

Price levels and the queue (`PriceLevelsProofs`):

* `QueueIsList`: the circular queue implements `OrderList`. `Place` is the slot `k` places behind the
  head without the remainder; with it growth, the turned copy of the old array and the shift of
  `Remove` are shown to append to, cut or close up the sequence of orders the queue holds.
* `LevelsTypes`, `LevelsAlwaysAgree`: `LevelsInv` has three parts. `Structures`: a level and its queue list the
  same orders, each once, which are those the map has at the price, and the total is theirs; `Counters`:
  both counters lag behind the map by what the call in progress has still to add; `IsQueue`: a
  sound queue. The level whose total reaches 0 on a removal has no order left, because quantities are positive, which is why deleting level and queue at that total is right
  here. (In `HybridOrderBook`, with its double decrement, it is not.)

Recursion. The sums over sets (`SumFunctionOnSet`) and the walks of the skip tree are recursive functions,
that is, a `CHOOSE` of a function that satisfies an equation. `Recursion` shows by induction on the size
of the set, or on the rank of the node, that such a function exists, and so that what the
model computes satisfies its equation; the proofs use nothing else of it. Induction is by the
least counterexample in a set of numbers, as TLAPS can instantiate a set where it cannot
instantiate a predicate.

Only model-checked: liveness, that is `AllDelivered`, `ClaimsFinish`, `MatchEnds`, `AcceptedMatched`,
`StopReturns`, `AllEnd` and `ReadersStop`. Every other property of the passing runs is a theorem. Five
of these theorems are about some values of the constants only: `AtMostOnce` with `BatchPop` consumers,
`ImplementsBag` with these and one producer, `ImplementsFifo` with one producer and one consumer,
`RejectOnlyWhenFull` with one producer, `MatchedInOrder` with one caller, one worker and one symbol.
`AcceptedKept` says that nothing is overwritten of one caller only.
Fairness and `ENABLED` are outside what TLAPS proves.

## 5. Not modelled

* `RateLimiter` and `Breaker` middleware and the gRPC interceptors of the gateway: `routes.go`
  attaches only the metrics middleware, and what the other two decide is decided inside
  go-zero. Metrics and logging change nothing else. Error texts, JSON and protobuf
  conversions, generated code, deployment; `internal/model` (a second set of types without a user).
* `GetSpread` and `UpdateOrderState` have no caller, so order states never leave "pending" except for
  "cancelled". `PriceLevelManager` and `OrderQueue` have none either, but are modelled, since they
  are a design of their own. `RedisPersister.Run` and `RestoreOrderBook` have no caller: they are modelled as
  somebody would use them, and `Restart` does what the shipped program does, which is to start
  empty. `SaveOrder`, `SaveTrade`, `DeleteOrder` and their readers write other keys and are left out.
* The pools of trades and match results: a dropped result returns its trades, a delivered one
  returns nothing, so these pools lose objects and never have two users.
* The keys of `seqMaps` are exact prices while the tree's are equal within 1e-10. `TreeCore` has two
  prices that the tree takes for one; the composition with the book, where a trade would
  look up another queue than the one filled, is not built: `OrderBook` would need the tree's key of
  a price beside the price itself in every operator, for prices that differ by less than
  any tick of a market.
* What the models bound, and a program does not: numbers of orders, ids and changes.

What could still be added: tree and book in one module, with the two kinds of keys of the last
point but one; the wait of a consumer for the slot of an overwritten order in `Engine`, and with
it what becomes of `AcceptedMatched` and `StopReturns` with several callers.

## 6. Findings

Shown by a run:

* `RingLapLoss`: the code claims a position and then looks at its slot and fills it in two
  operations. Two producers that are one lap apart share a slot and the second
  store overwrites the first item, whose `Push` returns true. One goroutine must sleep
  for a whole lap, so a test will not meet it. `BatchPop` with its swap is safe, and
  so is a single producer (`SoleProducerLosesNothing`). In the engine an order accepted from one of several
  callers can vanish so (`overwritten`).
* `BookMaker`: the maker named in a trade is popped from the queue at each partial fill, may
  have been cancelled (id 0), may be of the other side of the same price, or is invented.
* `EngineResting`: a resting order's object goes back to the pool at once. In the running
  system nearly every resting order is affected: cancelling it fails, and its id in
  trades is 0 or that of a later order. The match result refers to the object too, so
  the result loop reads an empty or a foreign symbol.

Met while modelling; each is a behaviour of the models above, found by asking TLC for
its opposite, and the reason why some property is stated as it is:

* A partial fill is subtracted from a level twice (`hybird.go:121` and `129`), so a level of 3
  after a fill of 1 shows 1. Levels vanish early; the orders they listed stay in `orderMap`.
  What holds is one-sided: a level never shows or sells too much (`NoOversell`,
  `SnapshotHonest`).
* After a partial fill a cancellation takes off the whole original quantity; the total is
  not exactly 0 and a level without orders stays in the tree ("if the level is empty,
  remove it", `hybird.go:344`). It shows clients a negative quantity with no orders. As the
  best level, with a total of 0 or less, it stops every taker, and limit orders that cross it
  rest: the exception in `CrossedOnlyAtSpent`.
* Two `Pop` calls a lap apart can return one pointer (`Pop` reads, then clears): hence
  `Poppers = {}` in `ConsumedOnce`. The program calls `Pop` only under the book's mutex.
* `Push` loads `head` before `tail`; a lap of progress in between makes the unsigned
  difference huge, and a queue with room rejects the push. `RejectOnlyWhenFull` is
  therefore checked for one producer only, and `Engine` lets a `Push` of several callers be refused.
* `Validate` fails for every non-empty tree of bids, and `ValidateOrderBooks` with it,
  because it compares with the header's key 0; `GetPriceRange` of bids swaps its results.
  `LookupsAgree` asks both of ascending trees only.
* A rejected call gives up mark and state in two steps; a retry of the id in between is
  accepted and then loses its state, so `GetOrderState` denies an accepted order.
* A cancellation in the short time between `Match` and the worker's return of the object
  puts it into the pool twice; two orders then share one object and one of them is
  matched twice. Hence `raced` in the properties of `Engine`. The engine's `CancelOrder` has
  no RPC yet, so this needs a caller inside the process.
* A stop in the middle of a batch loses orders whose clients were told they were accepted, and
  leaves their marks, so that a retry under the id is a duplicate (`dropped`).
* A duplicate is rejected while the first call may still roll back, so a client can see
  "duplicate order" for an order that is then refused.
* With 32 workers the order of arrival is not kept; with one worker and one caller it is (`MatchedInOrder`).
* Ids are nanoseconds of the clock alone, though `sequencer.go:6` speaks of a timestamp and a
  random number; two requests with one id are not mixed up (`SuccessIsOwn`): one of them is refused.
* An error tells a client nothing: the order may have been accepted. A client that repeats it gets
  a new id and may place the order twice; the idempotency marks are of no use to it.
* A batch of orders is answered with success and names no order: none enters the engine.
* After a restart the marks are gone, so an id is accepted again in the next life: hence the
  life in `AcceptedDistinct` and `MarksOwned`.
