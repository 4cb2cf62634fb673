# A verification project for the supply server, its hubs and its warehouses

The repository is a small logistics system. A C++ **server** keeps orders, stock
levels, users and connections in PostgreSQL and computes routes on a graph; C
**hubs** place orders, and C **warehouses** serve them from their stock. This
directory holds TLA+ models of the parts where several actors change the same
state, TLC runs on small instances, and TLAPS proofs for all instances.

Run `tlc -config X.cfg MCModule` for a run and `tlapm Module_proofs.tla` for the
proofs of a module. `PROJECT.json` lists the runs, the mutants, the theorems, the
source lines of every definition and the hazards.

## 1. Inventory

| Part | State | Operations | Talks to | What is hard |
|---|---|---|---|---|
| **Server / sessions** (`server.cpp`, `request_router.cpp`, `authentication.cpp`, `sender.cpp`) | one detached thread per TCP connection; the registry id → socket; `users.is_online` | accept, read, route, authenticate, disconnect, send to an id | every client; the database | reused descriptors, clients that vanish, messages read together, retries |
| **Orders** (`orders.cpp`, table `orders`) | a status per (order, item) row; a 30 second approval thread per order; one `processApprovedOrders` thread | new order, cancel, approve, request supply, dispatch, delivery update, queries | hubs, warehouses, inventory | read-then-write on every status, restarts, failed statements |
| **Inventory of the server** (`inventory.cpp`, table `inventory`) | a stock level per (warehouse, item) | list of levels, restock notice, choice of a warehouse | warehouses, graph | reordered, lost and partly stored lists |
| **Database** (`database.cpp`) | one `PGconn` for all threads; its transaction | single statements; `replaceConnections` in a transaction; the graph snapshot | all of the above | statements of other threads inside the transaction |
| **Graph service** (`graph_router.cpp`, `mongo_repository.cpp`) | two routers with a graph each; result documents | load, refresh, compute, list results | HTTP clients, database, MongoDB | refreshes that race; the HTTP router is not the one that is refreshed; ids by the second |
| **HTTP server** (`http_server.cpp`) | a detached thread per connection | accept, read one request, call the router, answer, close | HTTP clients, graph service | requests cut short; nobody waits for the threads |
| **Algorithms** (`bellman_ford.cpp`, `ford_fulkerson.cpp`, `kaufmann_malgrange.cpp`) | none between calls | shortest paths, maximum flow, Hamiltonian circuit | graph service | negative cycles, antiparallel edges, the order of unordered maps |
| **Warehouse** (`warehouse/src`) | the levels of its items; a System V semaphore set; three threads | take, add, check and restock, send lists and notices, disconnect | server | other programs on one semaphore key, cancelation, kills, sends outside the lock |
| **Hub** (`hub/src`) | a nonblocking socket; the errno of its listener; an order counter | menu, queries, listener, disconnect | server | two readers of one socket; the end of the stream; SIGPIPE; the counter starts again with the program |
| Logger, scripts, build files, tests | – | – | – | left out |

What makes the parts correct:

* *orders*: an approved order is requested from the warehouses once, not before its
  cancelation window is over, not after a cancelation, and never forgotten;
* *sessions*: a message reaches the client it is addressed to; who is shown online
  can be reached; who is gone is in the end shown offline;
* *database*: a list of connections is replaced at once or not at all, and what a
  call reports is what happened;
* *warehouse*: one thread at a time in the stock; the lock is not lost; the program
  ends; no item stays below its threshold; the server's copy catches up;
* *graph service*: the refreshed graph shows the database; an answer shows one whole
  map; an answered result is stored, and kept;
* *algorithms*: a distance is shortest, a flow maximal, conserved and within the
  capacities, a circuit a circuit, and found if there is one; every call ends;
* *hub*: what the server sends is shown; the listener listens as long as there is a
  connection, and stops when there is none; the program ends.

`PROJECT.json` lists under "hazards" the lines of the code where this may go wrong.

## 2. Modules

| Module | Models | State ↔ code | Actions ↔ code |
|---|---|---|---|
| `SupplyLedger` | what the server promises of supplies (abstract) | approvals, supply rounds and incidents per order | – |
| `OrderLifecycle` | `orders.cpp` and the `orders` statements of `database.cpp` | `rows` = the table; `session`, `timer`, `proc`, `dispatch` = what each thread has read and not yet written; `inbox` = supply requests under way; `online` = the registry; `approvals`, `reports`, `rounds` = how often an order was approved, reported and supplied | one action per SQL statement or message of a handler |
| `Sessions` | `server.cpp`, `authentication.cpp`, `sender.cpp`, `users.is_online` | `pc` = the thread of a descriptor; `connections` = the registry; `lookup` = a sender between lookup and send | one action per system call, statement or access to the registry |
| `SharedTransaction` | `replaceConnections`, single statements and the snapshot on one `PGconn` | `tx`, `working`, `committed` = the transaction of the connection and the tables in and outside it | one action per statement, with its failure |
| `InventoryLock` | `init_semaphore`, `lock_inventory`, `unlock_inventory`, `free_inventory`, start and end of the program | `key`, `sem` = the set the key names and its value; `semid` = the set each program works on | one action per semaphore call, thread start, cancelation, join |
| `HubClient` | `hub/src` | `menu`, `listener` = the two threads; `again` = the listener's errno; `link`, `inbox` = the connection and what it holds; `chunk`, `response` = what each reader has taken and not shown | one action per send, recv, print, sleep, thread start, cancelation, join |
| `GraphLibrary` | the graph of `graph.hpp` (external) | – | – |
| `BellmanFord`, `FordFulkerson`, `KaufmannMalgrange` | `compute` of the three files | the local variables of `compute` | one action per relaxed edge, visited node, augmentation, step of the search or way back |
| `RoutingAlgorithms` | one call of one algorithm on one graph | `graph` = the snapshot | the algorithms' actions |
| `MongoRepository` | `saveResult` | `documents` = the collection | – |
| `GraphRouter` | `graph_router.cpp`, `buildGraphSnapshot` and who calls the refresh | `live`, `served` = the graphs of the two routers; `tcp`, `held` = the refresh of each thread; `at` and the rest = the handler of each HTTP call | one action per query, critical section and call of the repository |
| `HttpServer` | `http_server.cpp`; composes router and repository | `wire` = the thread of each connection | accept, close, read, answer |
| `WarehouseStock` | `inventory.c`, `listener.c`, `main.c` of the warehouse; `inventory.cpp` of the server | `stock`; `pc`, `todo`, `levels` = the calls each thread has before it; `rows`, `view` = the `inventory` table | one action per critical section, send and stored row |

The modules compose as the program does. `WarehouseStock` takes a function of
`inventory.c` as one step, which is what `InventoryLock` shows (`MutualExclusion`).
`OrderLifecycle` takes a send to an id as reaching that client or failing and
statements as atomic and committed: `Sessions` and `SharedTransaction` say when this
is so. `OrderLifecycle` implements `SupplyLedger` (`SuppliesFollowApprovals`). `HttpServer`
extends `GraphRouter`, which extends `MongoRepository`; a computation is one step
there, and `RoutingAlgorithms` tells what it computes and that it ends (`CallEnds`). The
snapshot is one step in `GraphRouter`; `SharedTransaction` says when it is whole.

Abstractions: quantities and the choice of a warehouse by stock are left out of
`OrderLifecycle` (any warehouse, or none, may be chosen); messages are records of
their kind and the fields a handler uses; a message that is not read, because it
came together with another, is a lost message. Each `MC` module only adds constants.

Environment: clients send any message at any time, as long as the programs of the
repository can send it. A hub gives each order an id that contains its own id; it
may use an id again after a restart (`MaxSubmits`). It cancels and updates
orders of its own only – the operator types the id, and the server does not compare –
and reports any status in a delivery update, which nobody checks but the table
(`MaxReports`, per order, for those that are the server's to write). TCP delivers the messages of one
connection in order, without message boundaries. PostgreSQL runs a single statement
atomically, and aborts a transaction in which a statement fails.

## 3. Runs

| Run | Question | Bounds and why they are enough |
|---|---|---|
| `OrderResubmit` | `SuppliesBacked`, `NoSupplyUnapproved` | one order of two items (a status per row), two submissions (two approval threads on one id), one report of a server's status by the hub, one failed statement, one crash; states that differ in the last answer to a cancelation only count once (`VIEW`), since nothing reads it |
| `OrderItems` | `RowsAgree`, `CanceledIsFinal`, the ledger, and liveness | one order of two items, one warehouse, which may be asked for each; one report of a server's status by the hub, one failed statement and one crash |
| `OrderCanceled` | *violated*: a cancelation answered with success is final | nothing fails: one order and two threads are enough |
| `Lock` | `SemaphoreBinary`, `MutualExclusion`, `LockNotLost`, `FreedAfterThreads`, `DisconnectTerminates` | two programs of three threads on one key, a killed program, a set that is removed and created again |
| `SessionsShared` | `RegistryNamesOwner`, `GoneIsOffline`, `OnlineIsRegistered`, `RunningIsReachable` | two clients on two descriptors, so that a descriptor is reused, three connections, two failures, one death; clients may come back before their last connection is closed |
| `SessionsMisdelivery` | *violated*: a message reaches its addressee | two clients, one sender |
| `TxSingle` | `NoTransactionLeft`, `ReplacedAtOnce`, `SnapshotIsWhole`, `ReportedIsStored`, `AcknowledgedSurvives` | one node with three lists of three connections (a list can be cut in two places), among single statements of others, failures and a crash |
| `TxTwo` | *violated*: `ReplacedAtOnce` with two nodes | two lists of two connections; nothing fails |
| `Stock` | `LowIsBeingChecked`, `ViewCatchesUp` | two items, so that a list can be stored half; levels up to 3 with threshold 2; a request may take all there is, and the addition of the user may be negative; one read of several messages, one failed statement |
| `Hub` | `ListenerListens`, `EverythingIsShown`, `ListenerStops`, `LeaveTerminates` | four messages, so that each reader takes several while others wait; the server closes or resets at any time |
| `Routing` | `DistancesAreShortest`, `DistancesAreOptimal`; `FlowIsMaximal`, `FlowWithinCapacity`; `CircuitIsHamiltonian`, `CircuitIsFound`, `OreGuaranteesWhenSymmetric`; `EveryStepCountsDown`, `CallEnds` | 794 market graphs of three nodes (all sets of up to four edges, parallel ones too), 649 flow networks of four to six centers (capacities 0 to 2, edges both ways, a path whose flow must be taken back), about 980 graphs of up to five centers, 64 of them with loops; inactive and missing nodes, sizes at the limits |
| `Http` | `LiveGraphIsCurrent`, `AnswersComeFromTheMap`, `AnswerIsStored`, `ResultsAreKept` | two connections at a time, two maps, two TCP clients; three connections or database events in any mixture, which is enough for two refreshes to overlap, a map to be replaced during a call, and two results to share an id; two seconds |

Deadlock checking is off everywhere: with the bounds used up, or all clients gone,
the models may rightly stop.

What the passing runs show, and what their conditions tell about the code:

* An order is never supplied more often than it was made Approved, by an approval
  thread or by its own hub (`granted`), but for one round per failed statement or crash:
  scan, request and mark are three steps (`SuppliesBacked`). The excess is real: the request leaves at `orders.cpp:93`, and
  when the write at line 96 fails the order is scanned again. The write is
  unconditional, too: a warehouse that answers in between has its Shipped
  overwritten with Requested.
* `PendingIsDecided` excepts failures, crashes and an order that its hub has reported
  Pending again. The approval thread lives in memory; after a restart nobody approves a
  Pending order. `ApprovedIsProcessed` needs no exception: the scan finds the order
  again.
* `NoSupplyUnapproved` says what the cancelation window protects. The 30 seconds
  (line 254 of the repository's `README.md`) are waited for by the approval thread alone: `deliveryUpdate` writes
  whatever status it is sent, and the menu that asks for "Delivered or Canceled"
  (`hub/include/orders.h:70`) takes any word. A new order that is reported Approved is
  found by the next scan and supplied at once, with no approval thread involved. The
  property says that this report is the only other way to the warehouses; without its
  exception (`approvals` for `granted`) TLC shows just that behaviour.
* `CanceledIsFinal` names all that can revive a canceled order: an approval thread that
  has read Pending, the batch of the scan, a warehouse, and a delivery update that
  reports the very status.
* `RegistryNamesOwner` and `GoneIsOffline` except clients that vanished: when `read`
  returns 0 or an error the thread only closes the socket. `OnlineIsRegistered` and
  `RunningIsReachable` speak of clients that do not come back before their last
  connection is closed, and whose database statements did not fail: a disconnection
  removes the registration by id, so that of an old connection removes the new one.
* A transaction never stays open (`NoTransactionLeft`). A list is replaced at once as
  long as one node at a time does so; another thread's single statements then do no
  harm except that one which fails aborts the transaction, whose COMMIT reports no
  error (`ReportedIsStored`), that a snapshot may see a half replaced list
  (`SnapshotIsWhole`), and that what a thread wrote inside another's transaction is
  lost with it. `AcknowledgedSurvives` says that an update reported successful can be
  lost only during a call of `replaceConnections`: no call returns and leaves others'
  updates in a transaction that may still be rolled back.
* The critical section of a program is exclusive even while other programs remove and
  create the set it shares with them (`MutualExclusion`), and its value, to which each
  release adds one, never exceeds 1 (`SemaphoreBinary`). The lock is lost only with
  a thread that was killed or canceled inside (there is no SEM_UNDO, and the printf
  at `inventory.c:54` is a cancelation point): the disconnection of that program then
  does not end (`DisconnectTerminates`).
* No item stays below its threshold (`LowIsBeingChecked`), and the periodic list
  repairs whatever the server missed (`ViewCatchesUp`).
* The hub's listener listens whenever the menu runs on a connection, and what the
  server sends is shown by one of the hub's two readers. It stops when the server
  closes only if its last `recv` did not find the socket empty: a `recv` that returns
  0 leaves `errno` alone, and the listener takes the old EAGAIN for another one
  (`hub/src/listener.c:21`, `ListenerStops`). The test does not see it, since its
  `recv` clears `errno` (`hub/tests/listener_test.c:40`). A query's own `recv` does
  not wait either, the socket being nonblocking: it mostly finds nothing, and the
  listener shows the answer.
* The three algorithms compute what their names promise on every graph of the
  instance, and end. Two claims of their comments are not true: the net flow of an
  edge is not "always >= 0" (`ford_fulkerson.cpp:116`; two edges in both directions
  between two centers are enough), and Ore's condition does not "guarantee" a circuit
  (`kaufmann_malgrange.cpp:90`), because it is checked on the undirected projection,
  and because an edge from a center to itself adds two to its degree
  (`kaufmann_malgrange.cpp:181`): three centers, two of them with a loop, can satisfy
  the condition without a circuit. It does guarantee one when every edge leads both
  ways and none is a loop (`OreGuaranteesWhenSymmetric`).
* The refreshed graph shows who is online, except after a query or a build that
  failed, or after two refreshes that overlapped, of which the one with the older
  snapshot may install last (`LiveGraphIsCurrent`; the snapshot is read before the
  lock is taken). A restock refreshes the graph, an ordinary list of levels does not.
* A result belongs to one map of the HTTP router, however maps are replaced during
  the call (`AnswersComeFromTheMap`). It can be found under its id unless the
  insertion failed; when two results of one kind are made in one second the second is
  answered with the id of the first and not stored (`AnswerIsStored`,
  `ResultsAreKept`).
* The comment "so algorithms reflect the newly connected node"
  (`authentication.cpp:90`) is not true: what is refreshed is the singleton, and every
  request is answered by the router of `main.cpp:50`.

The three comments are stated as `FlowNonNegative`, `OreGuaranteesCircuit` and
`RefreshReachesTheAlgorithms`. No run lists them; add the first two to the invariants of
`Routing.cfg`, or the last to those of `Http.cfg`, and TLC shows a behaviour that
breaks them.

What the violated runs show: `OrderCanceled` – read and write of the approval are two
statements, and a cancelation between them is answered with success and overwritten;
`SessionsMisdelivery` – the socket is used after the registry's lock is released;
`TxTwo` – two transactions on one connection are one, which ends with the first.

### Fairness

* `OrderLifecycle`: the session threads, approval threads and `processApprovedOrders`
  go on (the operating system schedules them; none waits for another). A scan that
  finds nothing is not demanded, so that fairness never demands a failure. Nothing is
  assumed of clients or of sends that succeed.
* `Sessions`: the thread of every descriptor goes on. Clients may stop anywhere.
* `InventoryLock`: the main thread of each program goes on, and so does a thread that
  is about to release the semaphore. Strong fairness for the listener and the updater
  taking the semaphore, since the kernel serves its waiters in order, and for their
  reaching a cancelation point outside the critical section, since every turn of both
  loops has one. A user need not disconnect, and nothing is assumed of kills.
* `WarehouseStock`: the threads, the periodic update and the server's thread go on.
* `HubClient`: the main thread (outside the menu's wait for the user) and the listener
  go on. The user and the server may do nothing for ever.
* `RoutingAlgorithms`: a computation goes on.

## 4. Proofs

| Theorem | Module | For all |
|---|---|---|
| `TypeCorrect`, `SuppliesBackedCorrect`, `ImplementsLedger`, `NoSupplyUnapprovedCorrect`, `CanceledIsFinalCorrect`, `RowsAgreeCorrect` | `OrderLifecycle_proofs` | orders, items, hubs, warehouses, bounds |
| `SemaphoreBinaryCorrect`, `MutualExclusionCorrect`, `LockNotLostCorrect`, `FreedAfterThreadsCorrect` | `InventoryLock_proofs` | programs, sets, deaths |
| `TypeCorrect`, `RegistryNamesOwnerCorrect`, `OnlineIsRegisteredCorrect`, `RunningIsReachableCorrect` | `Sessions_proofs` | clients, descriptors, bounds |
| `TypeCorrect`, `NoTransactionLeftCorrect`, `AcknowledgedSurvivesCorrect`; `ReplacedAtOnceCorrect`, `ReportedIsStoredCorrect`, `SnapshotIsWholeCorrect` (one node) | `SharedTransaction_proofs` | nodes, writers, readers, lengths, faults |
| `TypeCorrect`, `LowIsBeingCheckedCorrect` | `WarehouseStock_proofs` | items, quantities, requests, additions |
| `TypeCorrect`; `DistancesCorrect`, `DistancesShortest`; `CapacityKept`, `CutFound`, `FlowMaximal`; `CircuitCorrect`, `CircuitComplete`, `GuaranteeWhenSymmetric`; `CountsDown`, `PathHasBottleneck` | `RoutingAlgorithms_proofs` | graphs: nodes, edges, weights, capacities |
| `TypeCorrect`, `LiveGraphIsCurrentCorrect`, `AnswersComeFromTheMapCorrect`, `AnswerIsStoredCorrect`, `ResultsAreKeptCorrect` | `HttpServer_proofs` | nodes, maps, connections, bounds |
| `TypeCorrect`, `ListenerListensCorrect` | `HubClient_proofs` | messages |

The assumptions are those of the `ASSUME` of each module, and the premises shown in
brackets, which are hypotheses of the theorem. The inductive invariants:

* *orders* (`LedgerInv`): the promise alone is not inductive, since a supply round
  does not look at the approvals. The invariant adds that an order to which a round is
  owed – it is in the scan's batch, or Approved and not being supplied – has one in
  reserve. Each step is then a step of the ledger or leaves the ledger unchanged.
  `NoSupplyUnapproved` is inductive: `StatusGained`, `StatusOrigin`, `AtWarehouseOrigin` and
  `ProcessedOrigin` say where a status, a request and the batch come from, and
  `CanceledIsFinal` follows from them and the types.
* *rows* (`RowsInv`): an order that is being inserted for the first time (`Fresh`) has
  no approval thread, no approval and no report of one, so nobody but its hub's thread writes its rows;
  every later writer gives all of them one status.
* *lock* (`LockInv`): a set has one creator until its value is set, its value is 0
  while a thread is inside, and no two threads hold one set; for this one has to know
  which threads exist at each stage of a program (`Phases`).
* *registry* (`Owned`): a registered client that never vanished has a connection of
  its own whose thread is not about to close. `OnlineInv` adds that a client has one
  connection, is registered while it is stored and offline while it is taken off.
* *transaction* (`EndInv`, `OnceInv`): an open or aborted transaction has a call
  between BEGIN and its end; with one node, the working list agrees with the new list
  up to the next connection, and the tables inside and outside agree when no
  transaction is open. `SeesCommitted`: outside an open transaction, aborted or none,
  the connection sees what is committed.
* *stock* (`LowInv`): the promise is inductive once it is known that a thread goes from
  taking an item to checking it.
* *algorithms* (`BFInv`, `FFInv`, `KMInv`): no distance exceeds a bound that agrees with
  all edges, and the edges a pass has come to since its last relaxation shorten
  nothing; the residuals of two opposite edges add up to their capacities, the parents
  of the visited nodes lead back to the source, and a node that has left the queue has
  no unvisited neighbour over a residual; the path of the circuit search is simple and
  follows edges of the graph. `OnGraph` ties the three to the graph of the handler.
  * `DistancesAreShortest` (`ShortestInv`): a distance is the cost of some walk from the
    source (`DistancesOfWalks`), and after pass *k* at most that of any walk of *k*
    edges (`PassesDone`; within a pass, the walks whose last edge the pass has come to).
    A walk of as many edges as there are active markets comes to a node twice
    (`FewNodes`), so that it has a circle; cut out, it leaves a shorter walk
    (`WayIsCut`), which is cheaper unless the circle is negative. Hence V - 1 passes
    are enough (`ShortWay`), a further one relaxes only if there is a negative circle
    (`DetectedIsNegative`), and if there is one it does (`NegativeCircle`: the edges of
    a circle that shorten nothing add up to no less than 0). `PredecessorsLead` keeps
    the distance of a node at least that of its predecessor and the edge between them,
    with equality once nothing is relaxed any more.
  * `FlowIsMaximal` (`FlowInv`): the search gives every visited node a rank above that of
    its parent (`Acyclic`), so the path that is augmented is a chain, and pushing a flow
    along it changes the balance of its two ends only (`Conserved`). The flow over any
    cut is then the value of the flow, at most the capacity of the cut (`FlowAcross`),
    and equal to it for the saturated cut of `CutFound` (`FlowFillsCut`).
  * `CircuitIsFound` (`NothingMissed`): a circuit that begins with the path, if there is
    one, goes on with a neighbour that is still untried there, and one that begins with
    a node already given up does not exist.
  * `OreGuaranteesWhenSymmetric` is Ore's theorem, for the degrees the code counts.
    Among the orders of all centers take one with the fewest gaps (`Gaps`: places whose
    node has no edge to the next, the last being followed by the first). If it has one,
    read it from there (`Turned`): by the degrees of its two ends some node is near to
    the one while the node before it is near to the other (`GapIsMended`), and the piece
    from there on, read backwards, closes the gap and opens none (`Mended`).
  * `EveryStepCountsDown` is what makes the calls end. The work that is left is a tuple
    of natural numbers, and a step lowers one of them and changes none before it: passes
    and edges of a pass; edges to read, units of flow that may still leave the source,
    nodes not visited, and nodes queued; start nodes, and for each node of the path the
    neighbours not tried. That the flow leaves room is the cut around the source
    (`SourceBoundsFlow`), that it grows is `PathHasBottleneck`. No sequence of tuples of
    one length goes on counting down (`NoEndlessDescent`). That some step can be made
    until the call has ended, and is made, is left to `CallEnds`.

  Sums over sets and functions are defined by folds, whose induction theorems take an
  operator and cannot be used here. The proofs therefore take least counterexamples,
  in the naturals (`LeastNat`) or among the subsets of a finite set (`LeastSubset`),
  both from the well-foundedness of `<`; `SumTable` shows that the recursion behind
  `SumFunctionOnSet` has a solution, from which the laws of sums follow.
* *graph service* (`LiveInv`): while no refreshes overlap at most one thread installs,
  and what it holds shows the database. `AnswersInv`: the graph of a call is one the
  router had since the call began, and what it answers was computed from it.
  `StoredInv`: two calls hold one id only if it was given out twice, and one given out
  once is not stored before its holder stores it.
* *hub* (`ListenInv`): which steps of the menu thread have a listener at all.

Type invariants are theorems.

Only model-checked: liveness (`PendingIsDecided`, `ApprovedIsProcessed`,
`DisconnectTerminates`, `ViewCatchesUp`, `GoneIsOffline`, `EverythingIsShown`,
`ListenerStops`, `LeaveTerminates`, `CallEnds`), since TLAPS has neither fairness nor
ENABLED here; of `CallEnds` the counting down is proved. Every invariant and action
property of a passing run is stated by a theorem.

## 5. Not modelled

* The memory of libpq, which the threads use without a lock: statements are atomic.
* C++ object lifetimes. The detached thread of `main.cpp:65` uses the HTTP server and
  the router of `main`, which are destroyed under it when `server.run` returns.
* The spelling of messages: JSON, HTTP headers, the text of a result. Messages are
  records of the fields a handler tells apart.
* The graph library. `server/CMakeLists.txt` names `src/graph.cpp`, and neither it nor
  `graph.hpp` is in this commit; `GraphLibrary` is written from how the algorithms use it.
* Real weights: those of the models are integers, Bellman-Ford's are `double`.
* Orders of one hub that another cancels or updates. The server compares no ids.
* Quantities from an order to the stock it is served from: the orders are statuses, the
  stock has its own requests.
* The logger, the scripts, the build files and the tests.

## 6. Plan

Done: the orders with their ledger, the lock, the sessions, the shared connection, the
stock, the three algorithms, the two routers with the result store, the HTTP server,
the hub. Left:

1. `StockFlow`: quantities from order to stock, since the whole item list is sent once
   per item that some warehouse can serve (`orders.cpp:143`).
2. Runs of their own for the three refuted comments of section 3.
3. The safety halves of the other liveness properties, as for `CallEnds`: a measure that
   every step of a disconnecting warehouse and of a leaving hub lowers.
