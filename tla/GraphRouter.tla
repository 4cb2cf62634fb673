------------------------------ MODULE GraphRouter ------------------------------
(***************************************************************************)
(* GraphRouter (graph_router.cpp) and what refreshes it.  The process has  *)
(* two routers: the singleton, whose graph the threads of the TCP server   *)
(* rebuild from the database when a client comes, goes or restocks, and    *)
(* the one main gives to the HTTP server.  A graph is replaced as a whole  *)
(* under the mutex; what the algorithms compute is in RoutingAlgorithms.   *)
(***************************************************************************)
EXTENDS MongoRepository

CONSTANTS
    Nodes,         \* warehouses and hubs
    Warehouses,
    Leftover,      \* users the last process left online
    Calls,         \* threads of HTTP connections
    Maps,          \* bodies that parse, the posted maps among them
    Malformed, Empty, None,
    Requests,      \* the routes and bodies clients send
    MaxEvents,     \* bound: changes of the database and connections accepted
    MaxSeconds     \* bound: the clock

Routes == {"map", "refresh", "path", "flow", "circuit", "results", "other"}
Algorithms == {"path", "flow", "circuit"}
Prefix == [map |-> "map", path |-> "bf", flow |-> "ff", circuit |-> "km"]

ASSUME GraphRouterAssumption ==
    /\ Warehouses \subseteq Nodes /\ Leftover \subseteq Nodes
    /\ Requests \subseteq [route : Routes, body : Maps \cup {Malformed, Empty}]
    /\ Malformed \notin Maps /\ Empty \notin Maps
    /\ MaxEvents \in Nat /\ MaxSeconds \in Nat
    /\ \A m \in Maps : [map |-> m] # None
    /\ None \notin [nodes : SUBSET Nodes, blocked : SUBSET Nodes]

VARIABLES
    online,        \* users.is_online
    outOfStock,    \* warehouses whose inventory rows add up to 0
    tcp,           \* per node, where the thread that handles its message is
    held,          \* per node, the graph array that thread read
    live,          \* graph_ of GraphRouter::getInstance()
    served,        \* graph_ of the router of the HTTP server
    at,            \* per call, the next step of its handler
    route, given,  \* per call, the route and the body
    graph,         \* per call, its snapshot or the graph it built
    id, status,    \* per call, generateResultId and statusCode
    second,        \* the clock
    events,        \* bound
    disturbed,     \* history: the live graph may not be that of the last snapshot
    silent,        \* history: stock changed since that snapshot without a refresh
    current,       \* history: per call, what its router's graph was since it began
    clashes        \* history: ids given out more than once, and those given out

liveVars == <<online, outOfStock, tcp, held, live, disturbed, silent>>
callVars == <<served, at, route, given, graph, id, status, current, clashes>>

NoNodes == [nodes |-> {}, blocked |-> {}]

RouterInit ==
    /\ online = Leftover
    /\ outOfStock = {}
    /\ tcp = [n \in Nodes |-> "idle"] /\ held = [n \in Nodes |-> NoNodes]
    /\ live = None /\ served = None
    /\ at = [c \in Calls |-> "none"]
    /\ route = [c \in Calls |-> None] /\ given = [c \in Calls |-> None]
    /\ graph = [c \in Calls |-> None] /\ id = [c \in Calls |-> None]
    /\ status = [c \in Calls |-> 0]
    /\ second = 0
    /\ events = 0
    /\ disturbed = FALSE /\ silent = FALSE
    /\ current = [c \in Calls |-> {}]
    /\ clashes = [used |-> {}, twice |-> {}]

-----------------------------------------------------------------------------
(* The refresh of the live graph.                                          *)

\* buildGraphSnapshot: the users online; the ways out of warehouses without stock are
\* blocked.
Snapshot == [nodes |-> online, blocked |-> online \cap outOfStock]

Event ==
    /\ events < MaxEvents
    /\ events' = events + 1

\* handleClientInfo and handleClientDisconnection, up to the call of the refresh.  The
\* UPDATE for a client that leaves may fail, which is logged.
ClientInfo(n) ==
    /\ tcp[n] = "idle"
    /\ Event
    /\ online' = online \cup {n}
    /\ tcp' = [tcp EXCEPT ![n] = "snapshot"]
    /\ UNCHANGED <<outOfStock, held, live, disturbed, silent>>

\* Mutant: the graph is left as it is when a client leaves.
LeaveUnnoticed(n) ==
    /\ tcp[n] = "idle"
    /\ Event
    /\ online' \in {online, online \ {n}}
    /\ UNCHANGED <<outOfStock, tcp, held, live, disturbed, silent>>

ClientDisconnection(n) ==
    /\ tcp[n] = "idle"
    /\ Event
    /\ online' \in {online, online \ {n}}
    /\ tcp' = [tcp EXCEPT ![n] = "snapshot"]
    /\ UNCHANGED <<outOfStock, held, live, disturbed, silent>>

StockOf(n) == outOfStock' \in {outOfStock \cup {n}, outOfStock \ {n}}

\* handleRestockNotice
RestockNotice(n) ==
    /\ n \in Warehouses /\ tcp[n] = "idle"
    /\ Event
    /\ StockOf(n)
    /\ tcp' = [tcp EXCEPT ![n] = "snapshot"]
    /\ UNCHANGED <<online, held, live, disturbed, silent>>

\* handleInventoryUpdate, and the orders that take stock: no refresh.
InventoryUpdate(n) ==
    /\ n \in Warehouses /\ tcp[n] = "idle"
    /\ Event
    /\ StockOf(n)
    /\ silent' = TRUE
    /\ UNCHANGED <<online, tcp, held, live, disturbed>>

\* refreshFromDatabase reads outside the lock.  A query that fails gives an empty array.
TakeSnapshot(n) ==
    /\ tcp[n] = "snapshot"
    /\ tcp' = [tcp EXCEPT ![n] = "install"]
    /\ \E fails \in BOOLEAN :
          /\ held' = [held EXCEPT ![n] = IF fails THEN NoNodes ELSE Snapshot]
          /\ disturbed' = (fails \/ \E m \in Nodes \ {n} : tcp[m] = "install")
    /\ silent' = FALSE
    /\ UNCHANGED <<online, outOfStock, live, events>>

\* Graph::build throws: the previous graph is kept.
BuildFails(n) ==
    /\ tcp[n] = "install" /\ held[n] # NoNodes
    /\ tcp' = [tcp EXCEPT ![n] = "idle"]
    /\ held' = [held EXCEPT ![n] = NoNodes]
    /\ disturbed' = TRUE
    /\ UNCHANGED <<online, outOfStock, live, events, silent>>

Install(n) ==
    /\ tcp[n] = "install"
    /\ live' = held[n]
    /\ tcp' = [tcp EXCEPT ![n] = "idle"]
    /\ held' = [held EXCEPT ![n] = NoNodes]
    /\ UNCHANGED <<online, outOfStock, events, disturbed, silent>>

LiveStep(n) ==
    /\ \/ ClientInfo(n) \/ ClientDisconnection(n) \/ RestockNotice(n) \/ InventoryUpdate(n)
       \/ TakeSnapshot(n) \/ BuildFails(n) \/ Install(n)
    /\ UNCHANGED <<callVars, second, mongoVars>>

-----------------------------------------------------------------------------
(* The handlers of the HTTP routes.                                        *)

\* route() returned: its variables are gone.
Leave(c) ==
    /\ at' = [at EXCEPT ![c] = "none"]
    /\ route' = [route EXCEPT ![c] = None] /\ given' = [given EXCEPT ![c] = None]
    /\ graph' = [graph EXCEPT ![c] = None] /\ id' = [id EXCEPT ![c] = None]
    /\ status' = [status EXCEPT ![c] = 0] /\ current' = [current EXCEPT ![c] = {}]
    /\ UNCHANGED <<served, clashes>>

\* route(): a call begins.
Route(c, r, body) ==
    /\ at[c] = "none"
    /\ at' = [at EXCEPT ![c] = "route"]
    /\ route' = [route EXCEPT ![c] = r]
    /\ given' = [given EXCEPT ![c] = body]
    /\ current' = [current EXCEPT ![c] = {served}]
    /\ UNCHANGED <<served, graph, id, status, clashes>>

Return(c, code) ==
    /\ at' = [at EXCEPT ![c] = "done"]
    /\ status' = [status EXCEPT ![c] = code]
    /\ UNCHANGED <<route, given, id, clashes>>

Goto(c, step) ==
    /\ at' = [at EXCEPT ![c] = step]
    /\ UNCHANGED <<route, given, status>>

\* Under the exclusive lock.
SetServed(g) ==
    /\ served' = g
    /\ current' = [c \in Calls |-> IF at[c] = "none" THEN {} ELSE current[c] \cup {g}]

UnknownRoute(c) ==
    /\ at[c] = "route" /\ route[c] = "other"
    /\ Return(c, 404)
    /\ UNCHANGED <<served, current, graph, mongoVars>>

\* handleGetResults: getResults changes nothing, and what it lists is not followed.
GetResults(c) ==
    /\ at[c] = "route" /\ route[c] = "results"
    /\ Return(c, 200)
    /\ UNCHANGED <<served, current, graph, mongoVars>>

\* handlePostMap: the body does not parse, or Graph::build throws.
RefuseMap(c) ==
    /\ at[c] = "route" /\ route[c] = "map"
    /\ Return(c, 400)
    /\ UNCHANGED <<served, current, graph, mongoVars>>

BuildMap(c) ==
    /\ at[c] = "route" /\ route[c] = "map" /\ given[c] \in Maps
    /\ graph' = [graph EXCEPT ![c] = [map |-> given[c]]]
    /\ Goto(c, "swap")
    /\ UNCHANGED <<served, current, id, clashes, mongoVars>>

\* Mutant: a map that is there is not replaced.
SwapFirst(c) ==
    /\ at[c] = "swap"
    /\ SetServed(IF served = None THEN graph[c] ELSE served)
    /\ Goto(c, "name")
    /\ UNCHANGED <<graph, id, clashes, mongoVars>>

SwapMap(c) ==
    /\ at[c] = "swap"
    /\ SetServed(graph[c])
    /\ Goto(c, "name")
    /\ UNCHANGED <<graph, id, clashes, mongoVars>>

snapshotGraph == served

\* The algorithms take their snapshot before they look at the body.
NoMapLoaded(c) ==
    /\ at[c] = "route" /\ route[c] \in Algorithms
    /\ snapshotGraph = None
    /\ Return(c, 400)
    /\ UNCHANGED <<served, current, graph, mongoVars>>

TakeGraph(c) ==
    /\ at[c] = "route" /\ route[c] \in Algorithms
    /\ snapshotGraph # None
    /\ graph' = [graph EXCEPT ![c] = snapshotGraph]
    /\ Goto(c, "compute")
    /\ UNCHANGED <<served, current, id, clashes, mongoVars>>

\* A body that does not parse or names no node, a negative cycle, too many centers.
RefuseRequest(c) ==
    /\ at[c] = "compute"
    /\ Return(c, 400)
    /\ UNCHANGED <<served, current, graph, mongoVars>>

\* The circuit takes no parameters: an empty body will do.
Compute(c) ==
    /\ at[c] = "compute"
    /\ given[c] \in Maps \cup (IF route[c] = "circuit" THEN {Empty} ELSE {})
    /\ Goto(c, "name")
    /\ UNCHANGED <<served, current, graph, id, clashes, mongoVars>>

generateResultId(prefix) == <<prefix, second>>

NameResult(c) ==
    /\ at[c] = "name"
    /\ LET name == generateResultId(Prefix[route[c]]) IN
          /\ id' = [id EXCEPT ![c] = name]
          /\ clashes' = [used |-> clashes.used \cup {name},
                         twice |-> clashes.twice \cup (clashes.used \cap {name})]
    /\ Goto(c, "save")
    /\ UNCHANGED <<served, current, graph, mongoVars>>

Document(c) ==
    [id |-> id[c], algorithm |-> route[c], graph |-> graph[c], request |-> given[c]]

\* Mutant: the id is generated again for the repository.
SaveUnderNewId(c) ==
    /\ at[c] = "save"
    /\ saveResult([Document(c) EXCEPT !.id = generateResultId(Prefix[route[c]])])
    /\ Return(c, 200)
    /\ UNCHANGED <<served, current, graph>>

SaveResult(c) ==
    /\ at[c] = "save"
    /\ saveResult(Document(c))
    /\ Return(c, 200)
    /\ UNCHANGED <<served, current, graph>>

\* handleMapRefresh: nobody is online, or the query failed.
RefuseRefresh(c) ==
    /\ at[c] = "route" /\ route[c] = "refresh"
    /\ Return(c, 400)
    /\ UNCHANGED <<served, current, graph, mongoVars>>

ReadDatabase(c) ==
    /\ at[c] = "route" /\ route[c] = "refresh" /\ online # {}
    /\ graph' = [graph EXCEPT ![c] = Snapshot]
    /\ Goto(c, "rebuild")
    /\ UNCHANGED <<served, current, id, clashes, mongoVars>>

RebuildFails(c) ==
    /\ at[c] = "rebuild"
    /\ Return(c, 400)
    /\ UNCHANGED <<served, current, graph, mongoVars>>

Rebuild(c) ==
    /\ at[c] = "rebuild"
    /\ SetServed(graph[c])
    /\ Return(c, 200)
    /\ UNCHANGED <<graph, mongoVars>>

HandlerStep(c) ==
    /\ \/ UnknownRoute(c) \/ GetResults(c) \/ RefuseMap(c) \/ BuildMap(c) \/ SwapMap(c)
       \/ NoMapLoaded(c) \/ TakeGraph(c) \/ RefuseRequest(c) \/ Compute(c)
       \/ NameResult(c) \/ SaveResult(c)
       \/ RefuseRefresh(c) \/ ReadDatabase(c) \/ RebuildFails(c) \/ Rebuild(c)
    /\ UNCHANGED <<liveVars, events, second>>

Tick ==
    /\ second < MaxSeconds
    /\ second' = second + 1
    /\ UNCHANGED <<liveVars, events, callVars, mongoVars>>

-----------------------------------------------------------------------------
\* When all refreshes are done the live graph shows who is online, unless a query or a
\* build failed or the last two refreshes overlapped ("so offline node and its edges are
\* excluded immediately", authentication.cpp:136), and which warehouses have no stock
\* unless an inventory update, which refreshes nothing, has changed that since.
LiveGraphIsCurrent ==
    (\A n \in Nodes : tcp[n] = "idle") /\ ~disturbed /\ live # None =>
        /\ live.nodes = online
        /\ ~silent => live.blocked = online \cap outOfStock

Answered(c) == at[c] = "done" /\ status[c] = 200

\* A result is computed from one whole graph, one that the router had at some time
\* during the call ("Atomically retrieve a shared snapshot", graph_router.hpp:176); a map
\* that is answered as loaded was the router's graph.
AnswersComeFromTheMap ==
    \A c \in Calls :
        Answered(c) /\ route[c] \in Algorithms \cup {"map", "refresh"} => graph[c] \in current[c]

\* A result that is answered with an id can be found under it, unless the insertion
\* failed or two results were given the id in the same second; the first is then kept.
AnswerIsStored ==
    \A c \in Calls :
        Answered(c) /\ route[c] \in DOMAIN Prefix /\ id[c] \notin lost =>
            /\ id[c] \in StoredIds
            /\ id[c] \notin clashes.twice => Document(c) \in documents

\* What was answered stays: no later result takes the place of one that is stored.
ResultsAreKept == [][documents \subseteq documents']_documents

\* "Trigger a live graph refresh so algorithms reflect the newly connected node"
\* (authentication.cpp:90).
RefreshReachesTheAlgorithms == live # None => served # None
=============================================================================
