# A verification project for the exchange of *Building Low Latency Applications with C++*

The repository holds the code of a trading system in C++: `src/ch06` is the
current state, `src/ch04` an older copy of its common parts, `src/ch03` small
demonstrations. This directory holds TLA+ modules that model the system, TLC
configurations that check them on small instances, and proofs that TLAPS checks.

## The system

The CMake files of `ch06` build one program, `exchange_main`. It has three
components, each with one thread that polls queues, and they hand each other
messages through lock-free queues:

    clients --TCP--> OrderServer --requests--> MatchingEngine --updates--> MarketDataPublisher --UDP--> clients
    clients <--TCP-- OrderServer <--responses-- MatchingEngine                    |
                                                                                  +--updates--> SnapshotSynthesizer --UDP--> clients

| component (`src/ch06/...`) | state | operations | what is hard | what makes it correct |
|---|---|---|---|---|
| `common/mem_pool.h` MemPool | blocks with a free flag, index of the next free one | allocate, deallocate | search wraps and may go all round; capacity is one less than the size | never hands out a block in use; the next block is free; fails only when full or misused |
| `common/lf_queue.h` LFQueue | ring, two indices, a counter | get slot, publish, get element, give back | two threads without a lock; no check for a full ring | FIFO, each message once and as written; no slot accessed by both threads; assertion of `updateReadIndex` holds |
| `exchange/matcher` MEOrderBook | orders and price levels in pools, rings of orders, ring of levels, price map, client maps | add with matching, cancel, destruction | intrusive rings, slots that are reused, shared price indices, pools that run out | price-time priority; rings, maps and pools agree; cancel reaches exactly the client's live orders |
| `exchange/matcher` MatchingEngine | a book per ticker | process request, send response, send update, run, stop | the request's slot is in use while it is processed; shutdown deletes books | every request is processed once; nothing is used after it is freed |
| `exchange/order_server` FIFOSequencer | pending requests with receive times | add request, sequence and publish | batches that are kept; equal times; a full array | the requests of a client stay in order |
| `exchange/order_server` OrderServer | sequence numbers and socket of each client | receive, finish receiving, send responses | partial messages, reconnects, unexpected sequence numbers | a client is taken from one connection, each number once; answers go to its own socket |
| `common/tcp_server.*`, `common/tcp_socket.*` | connections, buffers | poll, send and receive | connections made late, partial sends | bytes that are sent are cut into the same messages |
| `exchange/market_data` MarketDataPublisher | next sequence number | forward an update | the slot is read after it is given back | updates numbered without gaps, each as the book sent it |
| `exchange/market_data` SnapshotSynthesizer | copy of all orders | apply an update, publish a snapshot | assertions that depend on the order of updates | the snapshot is the book at its sequence number |
| `common/mcast_socket.*` | buffers | send, receive, join, leave | loss, repetition, overtaking | |
| `trading/market_data` MarketDataConsumer | next expected number, queues for recovery | receive, start sync, check sync | gaps, duplicates, snapshot against incrementals | the updates passed on rebuild the book |
| `trading/order_gw` OrderGateway | sequence numbers | send, receive | bytes lost, messages cut | responses in order; every request is answered |
| `trading/strategy` MarketOrderBook | the consumer's copy of a book, best bid and offer | on update | CLEAR, stale best prices, ids beyond the map | equals the exchange's book |
| `common/logging.h` Logger | queue, flush thread | log, destroy | two producers at start and stop, shutdown handshake, formats that do not fit | a closed file has all that was logged |
| `exchange/exchange_main.cpp` | the components | start, signal handler | deletion while threads run | no use after free; the signal ends the process |

The components under `trading/` are not part of any build target, and
`trade_engine.*` is empty. The repository has no tests.

## Modules

| module | models |
|---|---|
| `MemPoolIndex` | index arithmetic of a pool; `FirstFree`, the result of a whole search |
| `MemPool` | MemPool, one step per iteration of the search |
| `BlockPool` | abstract: what a pool promises its owner |
| `MEOrderBook` | `add()` and `cancel()` of the order book, one step per iteration of the matching loop and of the search for the place of a level |
| `MessageText`, `BookText` | the texts of values, responses and updates, which the engine logs; `toString()` of a book |
| `PriceTimeBook` | abstract: a book with price-time priority |
| `MEOrderBookPriority` | the order of the list of levels (`LevelsInOrder`); the order book against `PriceTimeBook` and against its texts |
| `LFQueue` | the queue, one step per access of an atomic or a slot |
| `FifoChannel` | abstract: a FIFO channel with a message in the hand of each producer |
| `OrderServer` | OrderServer, FIFOSequencer and TCPServer with their clients, one step per request |
| `OrderGateway` | OrderGateway and both ends of its TCP connection, byte by byte |
| `MarketUpdates`, `UpdateLog` | market updates, what they do to a book, and the log of those published |
| `BookReplica` | abstract: a copy of the exchange's books at some moment |
| `MarketDataPublisher` | MarketDataPublisher, SnapshotSynthesizer and the sending McastSocket |
| `MarketDataConsumer` | MarketDataConsumer over two lossy streams |
| `MarketOrderBook` | MarketOrderBook, an update per step; its functions are operators from books to books |
| `BookMirror` | composes `MEOrderBook` and `MarketOrderBook`: the client's book follows the exchange's |
| `Logger` | the flush thread and the destructor of Logger |
| `LogFormat` | extends `Logger` by `log()`, which fills the queue |
| `SocketSetup` | the system calls that make each socket, in order |
| `ExchangeProcess` | extends `SocketSetup`; `exchange_main.cpp`: constructors, start, the loops of all threads, SIGINT |
| `MC...` | instances for TLC; `LogFormat` and `ExchangeProcess` need none |
| `..._proof` | theorems about the module of that name; `MEOrderBook_proof` is about `MEOrderBookPriority` and `BookMirror` too, `Logger_proof` about `LogFormat`, `MarketData_proof` about publisher and consumer |

Definitions whose comment calls them a mutant are not used by the
specifications. Each is a plausible slip in the definition that follows it;
replacing the definition by it makes a property of a run fail, which shows that
the property depends on that code. `PROJECT.json` pairs them, and maps every
definition to the lines it translates.

### The memory pool

`isFree` is the flag of each block and `nextFreeIndex` the index. `Allocate` is
the call up to the search, `ScanStep` an iteration, `ScanDone` its end,
`Deallocate` the other call. A failed assertion sets `status` to its name.
`allocate()` takes a block and only then looks for the next one: a pool of N
blocks holds N - 1. The book uses a pool as one step, with `FirstFree`; that this
is what the search computes is proved (`SearchEndsAtFirstFree`).

### The order book

A pointer is the number of a slot or `nullptr`. The contents of a slot stay when
it is returned to its pool, so that stale pointers are followed as in the
program. `order`, `qty`, `prevOrder`, `nextOrder` are the members of `MEOrder`,
`level`, `firstOrder`, `prevEntry`, `nextEntry` those of `MEOrdersAtPrice`;
`best`, `priceMap` and `cidOid` are the members of the book.

A request starts in `pc = "idle"`. `Accept` is `add()` up to the loop of
`checkForMatch()`; `MatchPartly` and `MatchFully` are an iteration, with the whole
of `match()` and `removeOrder()`; `Filled` returns. What is left rests:
`RestAtLevel` when the price index has a level, `RestOnEmptySide` when the side
has none, and otherwise `RestOnSide`, which goes up to the loop of
`addOrdersAtPrice()`, `WalkStep` for an iteration, `InsertAtEnd` or
`InsertBeforeTarget` for its end. `Cancel` and `CancelReject` are `cancel()`.
`MatchCrash`, `RestCrash`, `InsertCrash` and `CancelCrash` are the ways a call
ends the process: a failed assertion of a pool, `std::out_of_range` from `at()`
in a `noexcept` function, a dereferenced `nullptr`. `responses` and `updates` are
what the last step sent.

The model keeps what the code does where its comments say otherwise; the list is
below, under "Where comments and code part".

Two maps of the book are never initialised. A book is an object of 2 GiB made by
`new`; the allocator of the build takes pages from the kernel for it, which are
zero, and `Init` starts from that.

`BookText` reads a book's levels and orders and gives what `toString()` prints: a
record for each level, with the records of its orders. It is instantiated for the
exchange's book (`MEOrderBookPriority!Text`) and for the client's
(`MarketOrderBook!Text`), whose code is the same. `Crashes` says where the printer
follows a `nullptr`. `MessageText` has the texts of the values and messages;
a `Qty`, and a priority, which is printed by `qtyToString()`, are cut to their width.

### The queue

A producer goes through `GetSlot`, `WriteSlot` (the caller's assignment to the
slot), `LoadIndex`, `StoreIndex`, `CountUp`; the consumer through `GetRead`,
`ReadSlot` (the caller's use of the element), `Advance`, `CountDown`. The atomics
are sequentially consistent in the code, so interleaving is the right model for
them. The code has no guard against a full ring; `MaxBacklog` states how far the
consumer falls behind at most and the properties say for which backlog they hold.

### The order server

A client is a gateway that numbers its requests from one and may be replaced by a
new one with a new socket (`Connect`); its connection is made later
(`Establish`), and what it sends before that is lost. A request arrives whole or
in two parts (`SendRequest`, `Complete`). The server's loop is `Poll` (accept),
`ReadSocket` for each socket, which reads all that has arrived, then a step of
`recvCallback()` for each whole request: `TakeRequest`, `DropForeign` (other
socket), `WrongNumber` and `TooMany` (the process ends), then `RecvFinished`, which
sorts and publishes all pending requests if anything was read (the flag `recv`), and
`Respond`. The kernel stamps what arrives (`Tick`); a read of a socket takes the stamp of the
last of it for all its requests (`rxTime`), and part of a request stays in the buffer until the rest comes. `Sorted` is what
`std::sort()` may leave: any arrangement by receive time, except that a short
array (`SortLimit`, 16 in the library of the build) is sorted by insertion, which
keeps the order of equal times.

The code's own behaviour is kept: `pending_size_` is never reset; the log call for
a wrong number has one argument more than its format and ends the process; a
client is bound to the socket of its first request.

### The gateway and its connection

`OrderGateway` has the same callback on both ends, and cuts messages into pieces
of bytes so that a read or a send may end inside one. `Accepted` is what the kernel
takes: all, if there is room, a part, or nothing before the connection is made.
The buffer is emptied in any case (`Unsent`); `cut` remembers that something was lost
by that. `Stop` is the end of an exchange that meets a number it does not expect,
`Leave` the end of the gateway's thread after `stop()`. A message whose pieces are not those of
one number counts as number 0, bytes that may look like anything.

### Market data

`MarketUpdates` says what the engine may send (`MaySend`): ids of a ticker rise, and an
order is modified or cancelled on the side it was added on, when its quantity has gone down.
It need not rest any more: `match()` may be given an order that left its book (see below,
under "Where comments and code part"), and then sends a MODIFY or a CANCEL for it. `Effect`
lets such an update mean nothing; the synthesizer asserts that there is none.

`MarketDataPublisher` has the publisher's loop in two halves, since
`updateReadIndex()` comes before the last use of the element: `Number` gives the
slot back, `Copy` reads it. `SendAndRecv` sends as many bytes as the socket
has received, which for a socket that only sends is none. `AddToSnapshot` and `PublishSnapshot` are the synthesizer;
`Asserted` is every assertion on the way, that of the pool all tickers share and the range of
`at()` among them. When one fails the process ends; the steps of the other thread that the
model still allows are those it may take before that.
`MarketDataConsumer` takes the updates and the snapshots the exchange is meant to
send and has one action for each way through `recvCallback()`: `Forward`,
`StartRecovery`, `QueueSnapshot`, and for an update in recovery the outcomes of
`checkSnapshotSync()`: `KeepWaiting`, `DropSnapshot`, `Recover`; `Join` and `Leave`
subscribe, `Start` and `Stop` are those of the thread. Both modules are shown to
implement `BookReplica`.

`MarketOrderBook` treats a market update as one step, because one thread calls it
and nobody looks at the book in between. `BookMirror` feeds it the updates
`MEOrderBook` sends and, with `Recover`, a snapshot. The `.cpp` declares `order`
twice in one switch and is not built; each case has its own scope in the model.

### Logger and process

`Logger` counts elements: logged, written, popped, flushed. `LogFormat` extends it:
a thread calls `log()`, one step per character of the format, each of which puts an
element into the logger's queue, and destroys the logger after the call.
`ExchangeProcess` runs the steps of `main()` (`Startup`), of the signal handler
(`Shutdown`, with the destructors it causes), and an iteration of each loop as a step.
Both are sequences put together from those of the functions they call (`New`, `Start`,
`Opening`; `Stop`, `Delete...`), and every system call for a socket may fail, which ends
the process. Threads are not joined but slept for. The model takes a sleep to be long enough:
a thread that was told to stop has left its loop when it is over, unless the queue it empties
first is still being filled (`Over`). A thread that was not told to stop is not waited for. For
the engine's thread, which tests `run_` in every turn, this is the whole of what makes its
destructor safe; for the publisher, the synthesizer and the server, whose inner loops do not look
at `run_`, the order of the deletions matters as well, and `NoUseAfterFree` is about that.
Without the assumption nothing can be said of the code. Nothing is claimed of whether the
answers and updates in the queues are sent before the process ends: an answer taken from
its queue only goes to `outbound_data_`, and the multicast socket sends no bytes.

## Where comments and code part

The modules follow the code. Two of these disagreements are shown by runs,
`claim_once` and `level_order`; the others are how the definitions named are written.

- `sequenceAndPublish()` never resets `pending_size_`: requests are processed again with
  each batch (`Publish`), against `order_server.h:32` (run `claim_once`).
- Requests are ordered by the time at which they were read, not received, and by
  `std::sort()`, which may exchange equal ones (`Sorted`).
- The log call for a wrong sequence number has more arguments than its format holds: the
  request is not dropped, the process ends (`WrongNumber`, `Stop`).
- `add()` passes quantity and market order id in each other's places (`InitialLeaves`,
  `AggressorFillId`): an order trades its number, not its quantity.
- A level better than the best of its side does not become the best one, one that is worse
  may (`BecomesBest`): levels are not arranged as `me_order.h:60` says (`ArrangedByPrice`, run
  `level_order`, after two orders). From then on the book may match a price that is not the
  best, print an order twice, crash in a call or use a level that was given back to its pool,
  whose first order left the book long ago: with ids 1, 2, 4, prices 1, 2, 3, 5, quantities
  modulo 3 and four `add()` calls, TLC finds such a call of `match()` at depth 11. With prices
  1 to 5 and five levels `add()` may never return: asks at 2, 4 and 3, a cancel of the last,
  bids at 1 and an ask at 5 leave the walk of `addOrdersAtPrice()` in a circle that does not
  pass the best level. `CallEnds` excepts such a circle (`Circling`) in a book out of order, and
  the instance of `book` is too small to meet one.
- One price map serves both sides, modulo its size: prices that share an index share a
  level, and an order may match one of its own side.
- A client that reuses the id of an order that rests can no longer cancel the first one.
- The sanity check of `toString()` compares the wrong way and starts from the wrong
  limits: no book with an order passes it. It is not modelled, except that it ends the process
  when a book with an order is deleted (`ExchangeProcess!Ends`).
- In the client's book a level that was removed has no neighbours, and may still be listed
  after a CLEAR: `toString()` crashes there (`Crashes`).
- CLEAR's loops over the levels never advance: a side with more than one level gives the
  second back twice, and the pool's assertion ends the process, as it does when the best
  level was given back before or is that of both sides (`CanClear`); the price map
  keeps the levels given back (`Clear`).
- The priority of an update is printed with `qtyToString()` (`UpdateText`).
- What the kernel does not take of a TCP send buffer is dropped (`Unsent`), and a multicast
  socket sends nothing (`SendAndRecv`).
- In recovery incremental updates are to be queued and are not (`QueueIncremental`), and
  parts of two snapshots may pass for a whole one.

## Runs

| run | instance | checks and shows |
|---|---|---|
| `mempool` | 5 blocks | `SearchEnds`, `PoolSpec`: whatever the order of calls, the search ends and the pool implements `BlockPool` |
| `book` | 1 client, 5 orders, order ids 1 and 4, prices 1, 2, 3, 5, 4 slots of each kind, quantities modulo 4 | `FifoLists`, `LevelsIndexed`, `ClientMapSound`: rings, price map and client map stay right while levels get damaged; `LogTellsBook`: the logged responses and updates tell every change of what rests; `OrderLost`: which steps put the list of levels out of order, and that no other does; `PriceTimePriority`, `PrintsByPriority`: while it is in order, the book implements `PriceTimeBook` and its text shows it; `CallEnds` |
| `level_order` | 1 client, 3 orders, 3 prices | `ArrangedByPrice` is violated: a better price does not become the best level |
| `lfqueue` | 1 producer, ring of 3, backlog at most 3 | `NoDataRace`, `IsFifoChannel`, `Delivered` |
| `order_server` | 2 clients, 2 sockets, 2 requests each, those of one whole or in two reads, 4 times, 3 places, sorts of more than 2 not stable | `ClientOrderKept`, `AnswersInOrder`, `OneConnection`, `StopsForCause`, `RequestsPublished` |
| `claim_once` | 2 clients, 4 places | `ProcessedOnce` is violated: requests are published again |
| `order_gateway` | 5 requests of 3 pieces, room for 7 pieces | `NothingLost` until bytes are cut, `NumbersInPlace` for ever, `EveryRequestAnswered` |
| `publisher` | 2 tickers, 3 order ids, 2 sides, 3 updates, maps and pool of 3, ring of 2, backlog 1 | `NumberedRight`; `FailsForCause`: an assertion fails only for an update the book cannot take; `ImplementsReplica` for the copy, `SnapshotShowsBook` for what is published of it; `ReachesSnapshot` |
| `consumer` | 1 order, 3 updates, 2 snapshots; loss, repetition, overtaking, joining midway | `NoGapPassed`; `ConsumerImplementsReplica` for the client's books |
| `mirror` | 4 orders, 3 prices, 4 slots of each kind, one recovery | `Mirrors`: the client's book is the exchange's; `OrdersKnown` after a snapshot; `AsksStayShown`; `ListsByArrival`: what `toString()` reads of a level; `CancelFindsOrder` at the exchange |
| `logger` | formats of up to 7 characters, up to 3 arguments, backlog 3 | `FitsOrFatal`, `WritesAll`, `FlushedWhenClosed`, `DestructorEnds` |
| `exchange` | 3 requests, queues of 2 | `NoUseAfterFree`, `SocketsReady` |

**Bounds.** Four orders are enough to have three levels on a side, an order
between two others at one level, a match that empties a level, and a partly
filled order. Because of the swapped arguments the quantity a client asks for
only appears in reports, and quantities range over the market order ids, so that
partial and complete fills both occur; one value of `Quantities` is enough.
`MaxMarketOrderId` bounds the number of `add()` calls. `book` has a price whose index is
that of another (5 and 1), an id that is used again and one that is beyond the client's
map (4), a fourth order whose quantity wraps to zero, and more orders than the pools
have room for. `FreshIds` (an action constraint of `mirror`) says
that clients number their orders 1, 2, ...; which fresh id an order has makes no
difference to a book. `SnapshotsUnmixed`, of `consumer`, cuts off what follows when
parts of two snapshots pass for one.

In `lfqueue` three slots and three messages let the ring wrap several times with
different contents. Two clients and two sockets give foreign sockets, reconnects and a
socket taken over from a client that left; three places fill up, and batches repeat former
requests. `SortLimit` 2 and `PendingSize` 3 stand for the library's 16 and the program's
1024, so that a run goes from sorts by insertion to those that promise nothing for equal
times, and to a full array. Three pieces per message put the end of a read in front of, inside and
behind the number; room for two messages and a piece makes the kernel take a part of a
buffer, after which the stream is out of step. Three updates and a ring of two wrap the
ring, and a backlog of one is the largest for which `NumberedRight` holds, since the slot
given back is written by the second. `MaxOrderIds` 3 gives an id beyond the map (they begin
at 0) and a pool that holds two orders of all tickers. Two snapshots are the fewest that can be mixed. In
`mirror` the client's map has four places and the exchange numbers from 1, so that the
last order is beyond it. Seven characters give every pattern of escapes around three
placeholders; a backlog of three makes the logger's thread meet an empty queue in the
middle of a call.

**Fairness.** `MEOrderBook!FairSpec` has weak fairness of the steps of a call
under way: the engine's thread is in the call and nothing in it waits.
`MemPool!FairSpec` has weak fairness of the search, a loop on one thread.
`LFQueue!FairSpec` has weak fairness of the consumer, which polls for ever; none of
producers. `OrderServer!FairSpec` has weak fairness of the server's loop,
`OrderGateway!FairSpec` of each of the things a turn of the loop does at either end,
`MarketDataPublisher!FairSpec` of both threads, `LogFormat!LogSpec` of the logger's thread
and of the thread in the destructor. All of them poll and never block. Nothing is assumed of
clients, the trade engine or the network, except that the kernel delivers bytes it has accepted.
Where a gateway may be stopped, `EveryRequestAnswered` says so.

**Deadlock** is checked for the queue. The book and the pool stop for good when
the process ends (`halted`, a failed assertion) and, for the book, when
`MaxMarketOrderId` and the cancels are used up, so their runs do not check it. The
other models stop when the bounds on requests, updates and elements are used up or the
process has ended, and their runs do not check it either.

## What is proved

The theorems hold for all values of the constants that satisfy the assumptions
of the modules (sizes positive, ids, prices and quantities natural numbers,
`nullptr` no number and no object). A condition on the environment is a hypothesis or a
conjunct of the specification of the theorem, and is named below.

*Memory pool.* The inductive invariant says that the blocks from the one just
handed out up to the index are in use; `Distance` measures this circularly. From
it follow the type invariant, that the next block is free between calls
(`NextBlockFree`), that the search aborts only on a full pool (`SearchCoversUsed`), that it
ends at `FirstFree` (`SearchEndsAtFirstFree`), and that the pool implements `BlockPool` (the initial state maps to the initial state and each action
to a step or a stutter).

*Order book.* `IInv` is the conjunction of `TypeOK`, `BookInv` (`FifoLists`,
`LevelsIndexed`, `ClientMapSound`, `RestingOrdersOpen`), `PoolsReady` (the next
slot of a pool is free while the process runs) and `CallOpen` (what holds while
`add()` is under way: its market order id is not yet in the book; during the walk
the new order is in its level but not in the client's map). `BookInv` alone is not
inductive: a new order could take a slot in use without `PoolsReady`, and could
repeat a market order id without `CallOpen`. The notable fact is that nothing is
assumed about the ring of levels: rings of orders, price map, client maps and
pools stay right although `best`, `prevEntry` and `nextEntry` do not, because
orders are found through the price map and levels are removed through it. Lemmas
treat removal of the last order of a level, unlinking, appending, and opening a
level once each; every action then has its own lemma.

Five more theorems rest on `IInv`:

- `LogIsComplete`: the engine's log tells every change of the book, for every request
  (`LogTellsBook`). The market order ids are what identifies orders, so lemmas about sets
  of pairs of id and quantity (`TellsAdded`, `TellsRemoved`, `TellsReduced`) carry it. A step
  of `match()` that is given an order which has left the book (`PassiveRests` is false)
  is excepted in the property itself.
- `CancelFinds`: under `FreshArrivals` (no client reuses the id of an order of its own that
  rests) the client's map finds every order. `MapFinds` adds that this holds for all orders
  but the one half way into the book, and that none has the id of the order under way.
- `PriorityKept`: every step from a book in order (`LevelsInOrder`) is one of `PriceTimeBook`,
  for whatever the clients send. `LevelsInOrder` says that the levels of a side form one
  ring in which each is followed by the next worse one, starting from `best` (`SidesSorted`,
  with lemmas about rings whose members have a rank: `RingRemove`, `RingAppend`), and that
  every order is in a level of its side and price (`OrdersPlaced`). What the proof needs besides
  is an invariant, whatever became of the levels (`CallSound`): the priority within a level is
  the order of the ids (`OlderFirst`), and the order under way joins a level or goes to the end,
  where the walk has not stopped too early. From a book in order, `match()` is given the order
  that is ahead (`PassiveAhead`).
- `OnlyMisplacedLevels`: a step from a book in order leaves it out of order exactly when it is one
  of the two of `Misplaces`: a new level goes into a list whose levels are not all more aggressive
  than it, or an order joins the level of another price. So matches, cancels and additions at
  prices that are there or worse than all keep the order.
- `ToStringByPriority`: what `toString()` prints of a book in order. A loop that starts in a
  ring lists each member once (`LoopListsRing`); where the members have ranks and each is
  followed by the next higher one, in the order of the ranks (`ListsRing`, `Ends`). `LevelsInOrder`
  gives the ranks: prices for the levels (`SideListed`), ids for the orders of one
  (`LevelPrinted`). The quantity of a level is a sum along the list in the printer and a sum
  over a set in the property; any two functions that add up weights one member at a time
  agree (`SumsAgree`), and a list without repetitions adds up its range (`SumListed`).

Nothing of this holds of a book out of order (see above), which an ordinary sequence of
prices reaches: two asks, the second at the better price, are enough.

*Mirror.* `ClientMirrors` is about a client that never had to recover. Its invariant (`MirrorInv`)
says that the client's book is the exchange's (`SameBook`), or that it will be once the update
on its way is applied (`Reaches`), if the client's process survives that. `SameBook` compares
every object of the pools, those given back included: a damaged list may lead to them, and
so the books can be shown equal without anything about the ring of levels. Both classes write
the same fields in the same order but for `addOrdersAtPrice()`, which takes several steps at
the exchange and one at the client: during the walk the invariant compares the exchange's book
with the client's after the new level was opened there (`Placing`), and `Searching` says that the
target of the walk is on the client's way to its own (`TargetIs`); where that way meets no
end, the client's process does not survive.

`ClientFindsOrders` is about the orders alone, and holds for a client that recovered,
whatever has become of its levels. Its invariant (`FeedInv`) says of the client's map that the
orders it leads to are in use, one to an id (`MapShape`), and of the updates on their way what
they will have made of the map (`Comes`): for every id what the exchange has (`Told`). The
exchange may tell of an order that had left its book (`PassiveRests` is false); then the client's
process ends at that update, which is what `Doomed` says. Both theorems need that ids are given
once and that pointers that are stale lead to objects (`Stale`).

`ClientListsByArrival` needs no more than `MirrorInv`: the client's lists of orders are the
exchange's, which `FifoLists` says are rings in the order of arrival, so the loop of its
`toString()` over a level ends (`LoopListsRing`, `OrdersListed`), wherever the level is.

`ClientAsksStay` compares the best asks before and after an update. `AskInv` adds to
`MirrorInv` that the book is sound but for the ring of levels (`Shape`, which an exchange's
sound book gives to its mirror) and that what is on its way tells the true side and price of
its order (`Carries`). An update that `updateBBO()` takes for one of another level then touches
no order of the best one (`NotAtBest`): for each function of the class it is shown that the level
stays the best, with its price, its first order, and the successors and quantities of its orders
(`Keeps`: `ModifyKeepsBest`, `CancelKeepsBest`, `AddKeepsBest`). So the walk along the list meets
the same orders (`RingSame`) with the same sum (`QtySumSame`), and the level shows the same
(`TopKept`). The comparison is the right way round for asks only, and for a level that is not
replaced as the best: hence the condition that the best level of both books is in place.

*Queue.* The type invariant carries that the counter is positive while the
consumer holds an element, which gives the assertion of `updateReadIndex()` for any
number of producers and any backlog. Under the assumption of one producer and
`MaxBacklog <= QueueSize`, the invariant of the ring ties the two indices to the
counter and to the program counters; from it follow freedom from data races and
the refinement of `FifoChannel`, where publishing appends (`CountUp`) and reading
takes the head (`ReadSlot`).

*Logger.* The invariant ties the four counters to the program counters of the thread
and of the destructor: in the destructor nothing is logged, once it has seen an empty
queue `popped = logged`, and between `Write` and `Pop` one element is written and not
popped. This is what makes the file complete although the queue may be seen empty
while the thread is still on its way to `flush()`. For `log()` the invariant counts: the
arguments used are as many as the places passed, and what was put into the queue is what
was read of the format, piece by piece. `FitsOrFatal` follows since the scan pairs the `%`
signs before a place, and so does `WritesAll`, for every format.

*Gateway.* `NumbersInPlace` is inductive with the expected number of each end being one
more than the count of what it took. `NothingLost` needs more: as long as nothing was cut,
what is in the sender's buffer, in the connection and in the receiver's buffer makes, in this
order, the pieces sent and not yet taken (`Piece`, `UnderWay`), with counts and types of
all three; and the exchange's end stops only if something was cut before.

*Order server.* `IInv` of `OrderServer_proof` has two parts besides the types. `ConnInv`: what
is in a connection, or being read, carries the socket it came over, and all pending and
published requests of a client the socket it is bound to. `OrderInv`: nothing was received
later than now, and what is still to be read of a socket came no earlier than what was read
of it (`ReadLater`, `ArrivesLater`); so a client's requests enter the sequencer with times
that do not decrease, and an insertion sort by these times leaves them in place, again and
again (`SortingKeepsOrder`). This needs `ConnInv`: were a client's requests taken from two
sockets, the second could have been read late. Beyond `SortLimit` pending requests, which
`pending_size_` passes for good since it is never reset, `std::sort()` promises nothing for
requests of one read: `OnlyOneReadIsMixed` says, for any number of requests, that two of a
client change places in this case only.

A third part, `SessionInv`, follows the sockets: one whose connection
is not made is bound to nobody and carries nothing, a socket has one gateway, what comes
over it is of that gateway's client with increasing numbers, none below the one expected
if the client is bound to it, and a client that is not bound is unknown. So a wrong number is
always too high and, with `ConnInv`, every response has a socket (`ServerStopsForCause`);
and the responses on a gateway's socket are all those to its client (`ResponsesInOrder`).

*Publisher and snapshots.* Under `MaxBacklog < QueueSize` the slot that was given back is
not written before it is read, so every update reaches the synthesizer's queue under its
number; what the synthesizer copied is `BookAfter` of as many updates as it has taken. By
`OnlyUnfitUpdatesFail` an assertion of `addToSnapshot()` fails only for an update the engine's
own book could not take there (`Unfit`): the ids rise (`HeadIsNew`), so no order is added twice,
an order that rests is on the side it was added on (`RestingAdded`, `AddedSides`), and no number
is missing (`HeadFits`).
Each step then is a step of `BookReplica` or a stutter. `BookAfter` is a recursive function
over the updates: that it exists, and that a longer log agrees with a shorter one where both
are defined, is proved by way of the least number without the property (`SetInduction`).

*Consumer.* `NoGapPassed` needs that outside of recovery the next expected number follows
the last thing passed on, and that a snapshot sets both. `ConsumerIsReplica` is proved under
`SnapshotsUnmixed`. Its invariant says that the books passed on are `BookAfter` as many
updates as the next expected number tells, and that every message of a snapshot, sent or
queued, is under its number in one of the `Snapshots` of a moment of the log. A queue that is
complete, and has messages of one snapshot only, is that snapshot (`WholeSnapshot`), and what is
rebuilt from it is the book it was taken of.

*Process.* `main()` and the handler are sequences; two lemmas say at which places of them
each component is made, started, given its thread, stopped, slept for and freed
(`StartupOrder`, `ShutdownOrder`). The invariant says what follows from how far the two have
come: what exists and runs (`InStep`), that a thread that was told to stop has left its loop
once the handler has slept for it (`Leaving`), and that all calls made for sockets went well
(`CallsWell`).

`TypeOK` of the pool, the book, the queue, the logger, the gateway, the order server and the
process, `NextBlockFree`, `SearchCoversUsed`, `SearchEndsAtFirstFree`, `RestingOrdersOpen` and
`ReadsValidElement` are proved and not part of a run; the other theorems state what a run
checks as well, or say so in their comment.

Only model-checked:

- the liveness properties (`SearchEnds`, `CallEnds`, `Delivered`, `RequestsPublished`,
  `EveryRequestAnswered`, `ReachesSnapshot`, `DestructorEnds`), which are out of the prover's
  reach;
- `SnapshotShowsBook`, whose folds over sequences of orders are not worth the proof once
  `CopyIsReplica` has the copy it is made of;
- `ProcessedOnce` and `ArrangedByPrice`, which are violated.

## Not modelled

- Requests with an invalid side, client ids and tickers out of range, wide counters that
  overflow (64-bit ids and priorities).
- `wouldBlock()` and the wrappers of system calls that nothing uses (`setTTL()`,
  `setMcastTTl()`), errors of `accept()` and of epoll, buffers of 64 MiB that are full.
- `trade_engine.*`, which is empty, and with it what the trading side does with answers
  and updates.
- The texts of requests, of single orders and levels, of the numbered messages, and the sanity
  check of `toString()`, which no property depends on; clocks;
  `setThreadCore()`, which is never called with a core.
- A second SIGINT. The signal is blocked in the thread that runs the handler only, so another
  thread may run the handler again, and delete the components a second time.
- Real time: that a sleep is long enough (`ExchangeProcess`), and the closure of a new
  thread that is read after its frame is gone (`thread_utils.h:27`).
- `src/ch03` and `src/ch04`: stand-alone examples without interaction, and older copies
  of the files of `ch06/common`, the differences being in names and log lines. Generated
  files of CMake and ninja under `cmake-build-release`, about a third of the
  repository's lines of code.

## Left to do

The composition of `OrderServer` with `MEOrderBook` behind the queues.
