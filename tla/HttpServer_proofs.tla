--------------------------- MODULE HttpServer_proofs ---------------------------
(***************************************************************************)
(* Theorems about HttpServer and the router and repository below it, for   *)
(* any nodes, connections, requests and bounds.                            *)
(***************************************************************************)
EXTENDS HttpServer, TLAPS

Steps == {"none", "route", "swap", "compute", "name", "save", "rebuild", "done"}

\* A graph is built from a map that was posted or from the database.
Built == [map : Maps] \cup [nodes : SUBSET Nodes, blocked : SUBSET Nodes]

(***************************************************************************)
(* The types, and which thread of a connection is in a handler.            *)
(***************************************************************************)
LiveTyping ==
    /\ online \subseteq Nodes /\ outOfStock \subseteq Warehouses
    /\ tcp \in [Nodes -> {"idle", "snapshot", "install"}]
    /\ held = [n \in Nodes |-> held[n]]
    /\ disturbed \in BOOLEAN /\ silent \in BOOLEAN

CallTyping ==
    /\ at \in [Calls -> Steps]
    /\ route \in [Calls -> Routes \cup {None}]
    /\ status \in [Calls -> Int]
    /\ given = [c \in Calls |-> given[c]]
    /\ graph = [c \in Calls |-> graph[c]]
    /\ id = [c \in Calls |-> id[c]]
    /\ current = [c \in Calls |-> current[c]]
    /\ wire \in [Calls -> {"closed", "reading", "called"}]
    /\ \A c \in Calls : at[c] # "none" <=> wire[c] = "called"
    /\ \A c \in Calls : at[c] \in {"swap", "compute", "name", "save", "rebuild"} => graph[c] # None

Typing == LiveTyping /\ CallTyping

LEMMA TypingInit == Init => Typing
<1> SUFFICES ASSUME Init PROVE Typing
  OBVIOUS
<1>1. LiveTyping
  BY GraphRouterAssumption DEF Init, RouterInit, LiveTyping
<1>2. /\ at = [c \in Calls |-> "none"] /\ wire = [c \in Calls |-> "closed"]
      /\ route = [c \in Calls |-> None] /\ status = [c \in Calls |-> 0]
      /\ given = [c \in Calls |-> None] /\ graph = [c \in Calls |-> None]
      /\ id = [c \in Calls |-> None] /\ current = [c \in Calls |-> {}]
  BY DEF Init, RouterInit
<1>3. CallTyping
  BY <1>2 DEF CallTyping, Steps
<1> QED
  BY <1>1, <1>3 DEF Typing

\* A graph that is built is one.
LEMMA SomeGraph ==
    ASSUME Typing
    PROVE  /\ Snapshot # None
           /\ \A m \in Maps : [map |-> m] # None
<1>1. Snapshot \in [nodes : SUBSET Nodes, blocked : SUBSET Nodes]
  BY DEF Snapshot, Typing, LiveTyping
<1> QED
  BY <1>1, GraphRouterAssumption

LEMMA TypingLive ==
    ASSUME Typing, NEW n \in Nodes, LiveStep(n), UNCHANGED wire
    PROVE  Typing'
<1>1. CallTyping'
  BY DEF LiveStep, callVars, Typing, CallTyping
<1>2. LiveTyping'
  <2>1. CASE ClientInfo(n)
    BY <2>1 DEF ClientInfo, Typing, LiveTyping
  <2>2. CASE ClientDisconnection(n)
    BY <2>2 DEF ClientDisconnection, Typing, LiveTyping
  <2>3. CASE RestockNotice(n)
    BY <2>3 DEF RestockNotice, StockOf, Typing, LiveTyping
  <2>4. CASE InventoryUpdate(n)
    BY <2>4 DEF InventoryUpdate, StockOf, Typing, LiveTyping
  <2>5. CASE TakeSnapshot(n)
    BY <2>5 DEF TakeSnapshot, Typing, LiveTyping
  <2>6. CASE BuildFails(n)
    BY <2>6 DEF BuildFails, Typing, LiveTyping
  <2>7. CASE Install(n)
    BY <2>7 DEF Install, Typing, LiveTyping
  <2> QED
    BY <2>1, <2>2, <2>3, <2>4, <2>5, <2>6, <2>7 DEF LiveStep
<1> QED
  BY <1>1, <1>2 DEF Typing

LEMMA TypingWire ==
    ASSUME Typing, NEW c \in Calls, WireStep(c)
    PROVE  Typing'
<1>1. LiveTyping'
  BY DEF WireStep, liveVars, Typing, LiveTyping
<1>2. CallTyping'
  <2>1. CASE Accept(c)
    BY <2>1 DEF Accept, callVars, Typing, CallTyping
  <2>2. CASE Reject(c)
    BY <2>2 DEF Reject, callVars, Typing, CallTyping
  <2>3. CASE ReadRequest(c)
    <3>1. PICK request \in Requests : \E body \in Arrived(request.body) :
             Route(c, request.route, body)
      BY <2>3 DEF ReadRequest
    <3>2. PICK body \in Arrived(request.body) : Route(c, request.route, body)
      BY <3>1
    <3>3. request.route \in Routes
      BY GraphRouterAssumption
    <3>4. /\ wire' = [wire EXCEPT ![c] = "called"] /\ wire[c] = "reading"
          /\ at' = [at EXCEPT ![c] = "route"]
          /\ route' = [route EXCEPT ![c] = request.route]
          /\ given' = [given EXCEPT ![c] = body]
          /\ current' = [current EXCEPT ![c] = {served}]
          /\ UNCHANGED <<graph, id, status>>
      BY <2>3, <3>2 DEF ReadRequest, Route
    <3> QED
      BY <3>3, <3>4 DEF Typing, CallTyping, Steps
  <2>4. CASE Respond(c)
    <3>1. /\ wire' = [wire EXCEPT ![c] = "closed"] /\ at' = [at EXCEPT ![c] = "none"]
          /\ route' = [route EXCEPT ![c] = None] /\ given' = [given EXCEPT ![c] = None]
          /\ graph' = [graph EXCEPT ![c] = None] /\ id' = [id EXCEPT ![c] = None]
          /\ status' = [status EXCEPT ![c] = 0] /\ current' = [current EXCEPT ![c] = {}]
      BY <2>4 DEF Respond, Leave
    <3>2. /\ at' \in [Calls -> Steps] /\ wire' \in [Calls -> {"closed", "reading", "called"}]
          /\ route' \in [Calls -> Routes \cup {None}] /\ status' \in [Calls -> Int]
      BY <3>1 DEF Typing, CallTyping, Steps
    <3>3. \A d \in Calls \ {c} : /\ at'[d] = at[d] /\ wire'[d] = wire[d]
                               /\ graph'[d] = graph[d]
      BY <3>1 DEF Typing, CallTyping
    <3>4. at'[c] = "none" /\ wire'[c] = "closed"
      BY <3>1 DEF Typing, CallTyping
    <3> QED
      BY <3>1, <3>2, <3>3, <3>4 DEF Typing, CallTyping
  <2> QED
    BY <2>1, <2>2, <2>3, <2>4 DEF WireStep
<1> QED
  BY <1>1, <1>2 DEF Typing

LEMMA TypingHandle ==
    ASSUME Typing, NEW c \in Calls, Handle(c)
    PROVE  Typing'
<1>1. LiveTyping'
  BY DEF Handle, HandlerStep, liveVars, Typing, LiveTyping
<1>2. /\ Snapshot # None /\ \A m \in Maps : [map |-> m] # None
      /\ UNCHANGED wire
  BY SomeGraph DEF Handle
<1>3. CallTyping'
  <2>1. CASE UnknownRoute(c) \/ GetResults(c) \/ RefuseMap(c) \/ NoMapLoaded(c)
                \/ RefuseRequest(c) \/ RefuseRefresh(c) \/ RebuildFails(c)
    BY <1>2, <2>1 DEF UnknownRoute, GetResults, RefuseMap, NoMapLoaded, RefuseRequest,
         RefuseRefresh, RebuildFails, Return, Typing, CallTyping, Steps
  <2>2. CASE BuildMap(c)
    BY <1>2, <2>2 DEF BuildMap, Goto, Typing, CallTyping, Steps
  <2>3. CASE SwapMap(c)
    BY <1>2, <2>3 DEF SwapMap, SetServed, Goto, Typing, CallTyping, Steps
  <2>4. CASE TakeGraph(c)
    BY <1>2, <2>4 DEF TakeGraph, Goto, Typing, CallTyping, Steps
  <2>5. CASE Compute(c)
    BY <1>2, <2>5 DEF Compute, Goto, Typing, CallTyping, Steps
  <2>6. CASE NameResult(c)
    BY <1>2, <2>6 DEF NameResult, Goto, Typing, CallTyping, Steps
  <2>7. CASE SaveResult(c)
    BY <1>2, <2>7 DEF SaveResult, Return, Typing, CallTyping, Steps
  <2>8. CASE ReadDatabase(c)
    BY <1>2, <2>8 DEF ReadDatabase, Goto, Typing, CallTyping, Steps
  <2>9. CASE Rebuild(c)
    BY <1>2, <2>9 DEF Rebuild, SetServed, Return, Typing, CallTyping, Steps
  <2> QED
    BY <2>1, <2>2, <2>3, <2>4, <2>5, <2>6, <2>7, <2>8, <2>9 DEF Handle, HandlerStep
<1> QED
  BY <1>1, <1>3 DEF Typing

LEMMA TypingTick == Typing /\ Tick /\ UNCHANGED wire => Typing'
BY DEF Tick, liveVars, callVars, Typing, LiveTyping, CallTyping

LEMMA TypingStep == Typing /\ [Next]_vars => Typing'
<1> SUFFICES ASSUME Typing, [Next]_vars PROVE Typing'
  OBVIOUS
<1>1. ASSUME NEW c \in Calls, WireStep(c) \/ Handle(c) PROVE Typing'
  BY <1>1, TypingWire, TypingHandle
<1>2. ASSUME NEW n \in Nodes, LiveStep(n), UNCHANGED wire PROVE Typing'
  BY <1>2, TypingLive
<1>3. CASE UNCHANGED vars
  BY <1>3 DEF vars, liveVars, callVars, Typing, LiveTyping, CallTyping
<1> QED
  BY <1>1, <1>2, <1>3, TypingTick DEF Next

\* Everything has its type, a handler runs for the connections whose request was read
\* and for no other, and the handlers that work on a graph have one (handleMarketsPath
\* and the others return before they dereference a missing map).
THEOREM TypeCorrect == Spec => []TypeOK
<1>1. Typing => TypeOK
  BY DEF Typing, LiveTyping, CallTyping, TypeOK, Steps
<1> QED
  BY <1>1, TypingInit, TypingStep, PTL DEF Spec

-----------------------------------------------------------------------------
(***************************************************************************)
(* The live graph.  Not disturbed means that at most one refresh holds an  *)
(* array it has read; when none is about to read, that array, or the live  *)
(* graph if there is none, shows the database.                             *)
(***************************************************************************)
Shows(g) ==
    /\ g.nodes = online
    /\ ~silent => g.blocked = online \cap outOfStock

OneInstalls == \A n, k \in Nodes : tcp[n] = "install" /\ tcp[k] = "install" => n = k

HeldShows ==
    (\A n \in Nodes : tcp[n] # "snapshot") =>
        \A n \in Nodes : tcp[n] = "install" => Shows(held[n])

LiveInv == Typing /\ (~disturbed => OneInstalls /\ HeldShows) /\ LiveGraphIsCurrent

LEMMA LiveInit == Init => LiveInv
<1> SUFFICES ASSUME Init PROVE LiveInv
  OBVIOUS
<1>1. live = None /\ tcp = [n \in Nodes |-> "idle"]
  BY DEF Init, RouterInit
<1> QED
  BY <1>1, TypingInit DEF LiveInv, OneInstalls, HeldShows, LiveGraphIsCurrent

LEMMA LiveQuiet ==
    ASSUME LiveInv, Typing', UNCHANGED liveVars
    PROVE  LiveInv'
BY DEF LiveInv, liveVars, OneInstalls, HeldShows, LiveGraphIsCurrent, Shows

LEMMA LiveSteps ==
    ASSUME LiveInv, Typing', NEW n \in Nodes, LiveStep(n)
    PROVE  LiveInv'
<1>0. Typing
  BY DEF LiveInv
<1>1. CASE ClientInfo(n) \/ ClientDisconnection(n) \/ RestockNotice(n)
  <2>1. tcp[n] = "idle" /\ tcp' = [tcp EXCEPT ![n] = "snapshot"] /\ UNCHANGED disturbed
    BY <1>1 DEF ClientInfo, ClientDisconnection, RestockNotice
  <2>2. tcp'[n] = "snapshot" /\ \A k \in Nodes \ {n} : tcp'[k] = tcp[k]
    BY <1>0, <2>1 DEF Typing, LiveTyping
  <2> QED
    BY <2>1, <2>2 DEF LiveInv, OneInstalls, HeldShows, LiveGraphIsCurrent
<1>2. CASE InventoryUpdate(n)
  <2>1. silent' = TRUE /\ UNCHANGED <<online, tcp, held, live, disturbed>>
    BY <1>2 DEF InventoryUpdate
  <2>2. \A g : Shows(g) => Shows(g)'
    BY <2>1 DEF Shows
  <2> QED
    BY <2>1, <2>2 DEF LiveInv, OneInstalls, HeldShows, LiveGraphIsCurrent, Shows
<1>3. CASE TakeSnapshot(n)
  <2>1. /\ tcp[n] = "snapshot" /\ tcp' = [tcp EXCEPT ![n] = "install"]
        /\ silent' = FALSE /\ UNCHANGED <<online, outOfStock, live>>
    BY <1>3 DEF TakeSnapshot
  <2>2. tcp'[n] = "install" /\ \A k \in Nodes \ {n} : tcp'[k] = tcp[k]
    BY <1>0, <2>1 DEF Typing, LiveTyping
  <2>3. ASSUME ~disturbed'
        PROVE  /\ \A k \in Nodes \ {n} : tcp[k] # "install"
               /\ held' = [held EXCEPT ![n] = Snapshot]
    BY <1>3, <2>3 DEF TakeSnapshot
  <2>4. ASSUME ~disturbed' PROVE Shows(held[n])'
    BY <1>0, <2>1, <2>3, <2>4 DEF Typing, LiveTyping, Shows, Snapshot
  <2> QED
    BY <2>2, <2>3, <2>4 DEF LiveInv, OneInstalls, HeldShows, LiveGraphIsCurrent
<1>4. CASE BuildFails(n)
  BY <1>4 DEF BuildFails, LiveInv, OneInstalls, HeldShows, LiveGraphIsCurrent
<1>5. CASE Install(n)
  <2>1. /\ tcp[n] = "install" /\ tcp' = [tcp EXCEPT ![n] = "idle"]
        /\ held' = [held EXCEPT ![n] = NoNodes] /\ live' = held[n]
        /\ UNCHANGED <<online, outOfStock, disturbed, silent>>
    BY <1>5 DEF Install
  <2>2. tcp'[n] = "idle" /\ \A k \in Nodes \ {n} : tcp'[k] = tcp[k] /\ held'[k] = held[k]
    BY <1>0, <2>1 DEF Typing, LiveTyping
  <2>3. ~disturbed' => OneInstalls' /\ HeldShows'
    BY <2>1, <2>2 DEF LiveInv, OneInstalls, HeldShows
  <2>4. ASSUME \A k \in Nodes : tcp'[k] = "idle", ~disturbed
        PROVE  Shows(held[n])
    BY <2>1, <2>2, <2>4 DEF LiveInv, HeldShows
  <2>5. LiveGraphIsCurrent'
    BY <2>1, <2>4 DEF LiveGraphIsCurrent, Shows
  <2> QED
    BY <2>3, <2>5 DEF LiveInv
<1> QED
  BY <1>1, <1>2, <1>3, <1>4, <1>5 DEF LiveStep

LEMMA LiveNext == LiveInv /\ [Next]_vars => LiveInv'
<1> SUFFICES ASSUME LiveInv, [Next]_vars PROVE LiveInv'
  OBVIOUS
<1>1. Typing'
  BY TypingStep DEF LiveInv
<1>2. ASSUME NEW c \in Calls, WireStep(c) \/ Handle(c) PROVE LiveInv'
  BY <1>1, <1>2, LiveQuiet DEF WireStep, Handle, HandlerStep
<1>3. ASSUME NEW n \in Nodes, LiveStep(n) PROVE LiveInv'
  BY <1>1, <1>3, LiveSteps
<1>4. CASE Tick \/ UNCHANGED vars
  BY <1>1, <1>4, LiveQuiet DEF Tick, vars
<1> QED
  BY <1>2, <1>3, <1>4 DEF Next

\* Once every refresh that was begun is done, the live graph shows the nodes that are
\* online and the warehouses without stock, however the refreshes interleaved with the
\* changes: refreshFromDatabase reads outside the lock, so only overlapping or failing
\* refreshes, and changes that refresh nothing, can leave it behind.
THEOREM LiveGraphIsCurrentCorrect == Spec => []LiveGraphIsCurrent
<1>1. LiveInv => LiveGraphIsCurrent
  BY DEF LiveInv
<1> QED
  BY <1>1, LiveInit, LiveNext, PTL DEF Spec

-----------------------------------------------------------------------------
(***************************************************************************)
(* Answers.  Which handler a step belongs to, and that its graph is one    *)
(* the router had during the call.                                         *)
(***************************************************************************)
Posting == {"map"} \cup Algorithms

CallInv(c) ==
    /\ at[c] # "none" => served \in current[c]
    /\ at[c] = "swap" => route[c] = "map"
    /\ at[c] = "rebuild" => route[c] = "refresh"
    /\ at[c] = "compute" => route[c] \in Algorithms
    /\ at[c] \in {"name", "save"} => route[c] \in Posting
    /\ at[c] \in {"compute", "name", "save"} => graph[c] \in current[c]
    /\ Answered(c) /\ route[c] \in Posting \cup {"refresh"} => graph[c] \in current[c]

AnswersInv == Typing /\ \A c \in Calls : CallInv(c)

LEMMA AnswersInit == Init => AnswersInv
<1> SUFFICES ASSUME Init PROVE AnswersInv
  OBVIOUS
<1>1. at = [c \in Calls |-> "none"]
  BY DEF Init, RouterInit
<1> QED
  BY <1>1, TypingInit DEF AnswersInv, CallInv, Answered

\* A step that leaves the variables of a call alone, other than that the graph of the
\* router may join those it had.
LEMMA OtherCall ==
    ASSUME NEW d \in Calls, CallInv(d),
           at'[d] = at[d], route'[d] = route[d], graph'[d] = graph[d], status'[d] = status[d],
           current[d] \subseteq current'[d],
           at[d] # "none" => served' \in current'[d]
    PROVE  CallInv(d)'
BY DEF CallInv, Answered

LEMMA AnswersWire ==
    ASSUME AnswersInv, Typing', NEW c \in Calls, WireStep(c)
    PROVE  AnswersInv'
<1>0. Typing
  BY DEF AnswersInv
<1>1. CASE Accept(c) \/ Reject(c)
  BY <1>1 DEF Accept, Reject, callVars, AnswersInv, CallInv, Answered
<1>2. CASE ReadRequest(c)
  <2>1. PICK request \in Requests : \E body \in Arrived(request.body) :
           Route(c, request.route, body)
    BY <1>2 DEF ReadRequest
  <2>2. PICK body \in Arrived(request.body) : Route(c, request.route, body)
    BY <2>1
  <2>3. /\ at' = [at EXCEPT ![c] = "route"] /\ current' = [current EXCEPT ![c] = {served}]
        /\ route' = [route EXCEPT ![c] = request.route]
        /\ UNCHANGED <<served, graph, status>>
    BY <2>2 DEF Route
  <2>4. CallInv(c)'
    BY <1>0, <2>3 DEF Typing, CallTyping, CallInv, Answered
  <2>5. ASSUME NEW d \in Calls \ {c} PROVE CallInv(d)'
    <3>1. CallInv(d)
      BY DEF AnswersInv
    <3>2. /\ at'[d] = at[d] /\ route'[d] = route[d] /\ graph'[d] = graph[d]
          /\ status'[d] = status[d] /\ current'[d] = current[d]
      BY <1>0, <2>3 DEF Typing, CallTyping
    <3> QED
      BY <2>3, <3>1, <3>2 DEF CallInv, Answered
  <2> QED
    BY <2>4, <2>5 DEF AnswersInv
<1>3. CASE Respond(c)
  <2>1. /\ at' = [at EXCEPT ![c] = "none"] /\ route' = [route EXCEPT ![c] = None]
        /\ graph' = [graph EXCEPT ![c] = None] /\ status' = [status EXCEPT ![c] = 0]
        /\ current' = [current EXCEPT ![c] = {}] /\ UNCHANGED served
    BY <1>3 DEF Respond, Leave
  <2>2. CallInv(c)'
    BY <1>0, <2>1 DEF Typing, CallTyping, CallInv, Answered
  <2>3. ASSUME NEW d \in Calls \ {c} PROVE CallInv(d)'
    <3>1. CallInv(d)
      BY DEF AnswersInv
    <3>2. /\ at'[d] = at[d] /\ route'[d] = route[d] /\ graph'[d] = graph[d]
          /\ status'[d] = status[d] /\ current'[d] = current[d]
      BY <1>0, <2>1 DEF Typing, CallTyping
    <3> QED
      BY <2>1, <3>1, <3>2 DEF CallInv, Answered
  <2> QED
    BY <2>2, <2>3 DEF AnswersInv
<1> QED
  BY <1>1, <1>2, <1>3 DEF WireStep

\* The graph of the router is replaced: every call that runs may have seen it.
LEMMA SetServedGrows ==
    ASSUME Typing, NEW g, SetServed(g), NEW d \in Calls, at[d] # "none"
    PROVE  current'[d] = current[d] \cup {g} /\ served' = g
BY DEF SetServed

LEMMA AnswersHandle ==
    ASSUME AnswersInv, Typing', NEW c \in Calls, Handle(c)
    PROVE  AnswersInv'
<1>0. Typing /\ CallInv(c)
  BY DEF AnswersInv
<1>1. CASE UnknownRoute(c) \/ GetResults(c) \/ RefuseMap(c) \/ NoMapLoaded(c)
             \/ RefuseRequest(c) \/ RefuseRefresh(c) \/ RebuildFails(c)
  <2>1. PICK code : Return(c, code) /\ (code = 200 => route[c] = "results")
    BY <1>1 DEF UnknownRoute, GetResults, RefuseMap, NoMapLoaded, RefuseRequest,
         RefuseRefresh, RebuildFails
  <2>2. UNCHANGED <<served, current, graph>> /\ at[c] # "none"
    BY <1>1 DEF UnknownRoute, GetResults, RefuseMap, NoMapLoaded, RefuseRequest,
         RefuseRefresh, RebuildFails
  <2>3. CallInv(c)'
    BY <1>0, <2>1, <2>2
       DEF Return, Typing, CallTyping, CallInv, Answered, Posting, Algorithms
  <2>4. ASSUME NEW d \in Calls \ {c} PROVE CallInv(d)'
    <3>1. at'[d] = at[d] /\ status'[d] = status[d] /\ UNCHANGED route
      BY <1>0, <2>1 DEF Return, Typing, CallTyping
    <3> QED
      BY <2>2, <3>1 DEF AnswersInv, CallInv, Answered
  <2> QED
    BY <2>3, <2>4 DEF AnswersInv
<1>2. CASE BuildMap(c) \/ TakeGraph(c) \/ Compute(c) \/ NameResult(c) \/ ReadDatabase(c)
  <2>1. PICK step \in {"swap", "compute", "name", "save", "rebuild"} :
           /\ Goto(c, step) /\ UNCHANGED <<served, current>>
           /\ step = "swap" => route[c] = "map"
           /\ step = "rebuild" => route[c] = "refresh"
           /\ step = "compute" =>
                 route[c] \in Algorithms /\ graph' = [graph EXCEPT ![c] = served]
           /\ step \in {"name", "save"} =>
                 at[c] \in {"compute", "name"} /\ UNCHANGED graph
           /\ \E g : graph' = [graph EXCEPT ![c] = g]
    <3>1. graph = [graph EXCEPT ![c] = graph[c]]
      BY <1>0 DEF Typing, CallTyping
    <3> QED
      BY <1>2, <3>1 DEF BuildMap, TakeGraph, Compute, NameResult, ReadDatabase, snapshotGraph
  <2>2. at[c] # "none"
    BY <1>2 DEF BuildMap, TakeGraph, Compute, NameResult, ReadDatabase
  <2>3. CallInv(c)'
    BY <1>0, <2>1, <2>2 DEF Goto, Typing, CallTyping, CallInv, Answered, Posting
  <2>4. ASSUME NEW d \in Calls \ {c} PROVE CallInv(d)'
    <3>1. at'[d] = at[d] /\ graph'[d] = graph[d] /\ UNCHANGED <<route, status>>
      BY <1>0, <2>1 DEF Goto, Typing, CallTyping
    <3> QED
      BY <2>1, <3>1 DEF AnswersInv, CallInv, Answered
  <2> QED
    BY <2>3, <2>4 DEF AnswersInv
<1>3. CASE SwapMap(c) \/ Rebuild(c)
  <2>1. SetServed(graph[c]) /\ at[c] \in {"swap", "rebuild"} /\ UNCHANGED <<graph, route>>
    BY <1>3 DEF SwapMap, Rebuild, Goto, Return
  <2>2. \A d \in Calls \ {c} : at'[d] = at[d] /\ status'[d] = status[d]
    BY <1>0, <1>3 DEF SwapMap, Rebuild, Goto, Return, Typing, CallTyping
  <2>3. at'[c] \in {"name", "done"} /\ (at'[c] = "name" => at[c] = "swap")
    BY <1>0, <1>3 DEF SwapMap, Rebuild, Goto, Return, Typing, CallTyping
  <2>4. CallInv(c)'
    BY <1>0, <2>1, <2>3, SetServedGrows DEF CallInv, Answered, Posting
  <2>5. ASSUME NEW d \in Calls \ {c} PROVE CallInv(d)'
    <3>1. CASE at[d] = "none"
      BY <2>2, <3>1 DEF CallInv, Answered
    <3>2. CASE at[d] # "none"
      BY <1>0, <2>1, <2>2, <3>2, SetServedGrows, OtherCall DEF AnswersInv
    <3> QED
      BY <3>1, <3>2
  <2> QED
    BY <2>4, <2>5 DEF AnswersInv
<1>4. CASE SaveResult(c)
  <2>1. at[c] = "save" /\ Return(c, 200) /\ UNCHANGED <<served, current, graph>>
    BY <1>4 DEF SaveResult
  <2>2. CallInv(c)'
    BY <1>0, <2>1 DEF Return, Typing, CallTyping, CallInv, Answered
  <2>3. ASSUME NEW d \in Calls \ {c} PROVE CallInv(d)'
    <3>1. at'[d] = at[d] /\ status'[d] = status[d] /\ UNCHANGED route
      BY <1>0, <2>1 DEF Return, Typing, CallTyping
    <3> QED
      BY <2>1, <3>1 DEF AnswersInv, CallInv, Answered
  <2> QED
    BY <2>2, <2>3 DEF AnswersInv
<1> QED
  BY <1>1, <1>2, <1>3, <1>4 DEF Handle, HandlerStep

LEMMA AnswersQuiet ==
    ASSUME AnswersInv, Typing', UNCHANGED callVars
    PROVE  AnswersInv'
BY DEF callVars, AnswersInv, CallInv, Answered

LEMMA AnswersNext == AnswersInv /\ [Next]_vars => AnswersInv'
<1> SUFFICES ASSUME AnswersInv, [Next]_vars PROVE AnswersInv'
  OBVIOUS
<1>1. Typing'
  BY TypingStep DEF AnswersInv
<1>2. ASSUME NEW c \in Calls, WireStep(c) \/ Handle(c) PROVE AnswersInv'
  BY <1>1, <1>2, AnswersWire, AnswersHandle
<1>3. ASSUME NEW n \in Nodes, LiveStep(n) PROVE AnswersInv'
  BY <1>1, <1>3, AnswersQuiet DEF LiveStep
<1>4. CASE Tick \/ UNCHANGED vars
  BY <1>1, <1>4, AnswersQuiet DEF Tick, vars
<1> QED
  BY <1>2, <1>3, <1>4 DEF Next

\* No answer mixes two maps or shows a map that the router never had during the call,
\* whatever posts and refreshes of other connections replace meanwhile.
THEOREM AnswersComeFromTheMapCorrect == Spec => []AnswersComeFromTheMap
<1>1. AnswersInv => AnswersComeFromTheMap
  BY DEF AnswersInv, CallInv, AnswersComeFromTheMap, Posting
<1> QED
  BY <1>1, AnswersInit, AnswersNext, PTL DEF Spec

-----------------------------------------------------------------------------
(***************************************************************************)
(* Stored results.  A call holds an id from the moment it is given one     *)
(* until its answer is sent; two calls hold the same only if it was given  *)
(* out twice, and one given out once is not stored before its holder does. *)
(***************************************************************************)
Holds(c) == at[c] = "save" \/ (Answered(c) /\ route[c] \in Posting)

IdsUsed ==
    /\ StoredIds \subseteq clashes.used
    /\ \A c \in Calls : Holds(c) => id[c] \in clashes.used

IdsClash ==
    \A c, d \in Calls :
        c # d /\ Holds(c) /\ Holds(d) /\ id[c] = id[d] => id[c] \in clashes.twice

NotStoredYet ==
    \A c \in Calls : at[c] = "save" /\ id[c] \notin clashes.twice => id[c] \notin StoredIds

StoredInv == AnswersInv /\ IdsUsed /\ IdsClash /\ NotStoredYet /\ AnswerIsStored

LEMMA PostingRoutes == DOMAIN Prefix = Posting
BY DEF Prefix, Posting, Algorithms

LEMMA StoredInit == Init => StoredInv
<1> SUFFICES ASSUME Init PROVE StoredInv
  OBVIOUS
<1>1. at = [c \in Calls |-> "none"] /\ documents = {}
  BY DEF Init, RouterInit, MongoInit
<1>2. \A c \in Calls : ~Holds(c) /\ at[c] # "save" /\ ~Answered(c)
  BY <1>1 DEF Holds, Answered
<1> QED
  BY <1>1, <1>2, AnswersInit
     DEF StoredInv, IdsUsed, IdsClash, NotStoredYet, AnswerIsStored, StoredIds

\* A step that names and stores nothing: whoever holds an id afterwards held it before.
LEMMA StoredQuiet ==
    ASSUME StoredInv, AnswersInv', UNCHANGED <<clashes, mongoVars>>,
           \A c \in Calls : Holds(c)' =>
               /\ Holds(c) /\ at'[c] = at[c] /\ status'[c] = status[c]
               /\ id'[c] = id[c] /\ route'[c] = route[c]
               /\ graph'[c] = graph[c] /\ given'[c] = given[c]
    PROVE  StoredInv'
<1>1. UNCHANGED <<documents, lost, StoredIds>>
  BY DEF mongoVars, StoredIds
<1>2. IdsUsed' /\ IdsClash'
  BY <1>1 DEF StoredInv, IdsUsed, IdsClash
<1>3. NotStoredYet'
  BY <1>1 DEF StoredInv, NotStoredYet, Holds
<1>4. AnswerIsStored'
  BY <1>1, PostingRoutes DEF StoredInv, AnswerIsStored, Holds, Answered, Document
<1> QED
  BY <1>2, <1>3, <1>4 DEF StoredInv

LEMMA StoredWire ==
    ASSUME StoredInv, AnswersInv', NEW c \in Calls, WireStep(c)
    PROVE  StoredInv'
<1>0. Typing /\ UNCHANGED mongoVars
  BY DEF StoredInv, AnswersInv, WireStep
<1>1. CASE Accept(c) \/ Reject(c)
  BY <1>0, <1>1, StoredQuiet DEF Accept, Reject, callVars, Holds, Answered
<1>2. CASE ReadRequest(c)
  <2>1. PICK request \in Requests : \E body \in Arrived(request.body) :
           Route(c, request.route, body)
    BY <1>2 DEF ReadRequest
  <2>2. PICK body \in Arrived(request.body) : Route(c, request.route, body)
    BY <2>1
  <2>3. /\ at' = [at EXCEPT ![c] = "route"] /\ route' = [route EXCEPT ![c] = request.route]
        /\ given' = [given EXCEPT ![c] = body]
        /\ UNCHANGED <<graph, id, status, clashes>>
    BY <2>2 DEF Route
  <2>4. at'[c] = "route" /\ \A d \in Calls \ {c} :
           at'[d] = at[d] /\ route'[d] = route[d] /\ given'[d] = given[d]
    BY <1>0, <2>3 DEF Typing, CallTyping
  <2> QED
    BY <1>0, <2>3, <2>4, StoredQuiet DEF Holds, Answered
<1>3. CASE Respond(c)
  <2>1. /\ at' = [at EXCEPT ![c] = "none"] /\ route' = [route EXCEPT ![c] = None]
        /\ given' = [given EXCEPT ![c] = None] /\ graph' = [graph EXCEPT ![c] = None]
        /\ id' = [id EXCEPT ![c] = None] /\ status' = [status EXCEPT ![c] = 0]
        /\ UNCHANGED clashes
    BY <1>3 DEF Respond, Leave
  <2>2. at'[c] = "none" /\ \A d \in Calls \ {c} :
           /\ at'[d] = at[d] /\ route'[d] = route[d] /\ given'[d] = given[d]
           /\ graph'[d] = graph[d] /\ id'[d] = id[d] /\ status'[d] = status[d]
    BY <1>0, <2>1 DEF Typing, CallTyping
  <2> QED
    BY <1>0, <2>1, <2>2, StoredQuiet DEF Holds, Answered
<1> QED
  BY <1>1, <1>2, <1>3 DEF WireStep

LEMMA StoredHandle ==
    ASSUME StoredInv, AnswersInv', NEW c \in Calls, Handle(c)
    PROVE  StoredInv'
<1>0. Typing /\ CallInv(c) /\ StoredIds \subseteq clashes.used
  BY DEF StoredInv, AnswersInv, IdsUsed
<1>1. CASE UnknownRoute(c) \/ GetResults(c) \/ RefuseMap(c) \/ NoMapLoaded(c)
             \/ RefuseRequest(c) \/ RefuseRefresh(c) \/ RebuildFails(c) \/ Rebuild(c)
  <2>1. PICK code : Return(c, code) /\ (code = 200 => route[c] \in {"results", "refresh"})
    BY <1>0, <1>1 DEF UnknownRoute, GetResults, RefuseMap, NoMapLoaded, RefuseRequest,
         RefuseRefresh, RebuildFails, Rebuild, CallInv
  <2>2. UNCHANGED <<graph, mongoVars, id, given, route, clashes>>
    BY <1>1, <2>1 DEF UnknownRoute, GetResults, RefuseMap, NoMapLoaded, RefuseRequest,
         RefuseRefresh, RebuildFails, Rebuild, Return
  <2>3. /\ at'[c] = "done" /\ status'[c] = code
        /\ \A d \in Calls \ {c} : at'[d] = at[d] /\ status'[d] = status[d]
    BY <1>0, <2>1 DEF Return, Typing, CallTyping
  <2>4. ~Holds(c)'
    BY <2>1, <2>2, <2>3 DEF Holds, Answered, Posting, Algorithms
  <2> QED
    BY <2>2, <2>3, <2>4, StoredQuiet DEF Holds, Answered
<1>2. CASE BuildMap(c) \/ SwapMap(c) \/ TakeGraph(c) \/ Compute(c) \/ ReadDatabase(c)
  <2>1. PICK step \in {"swap", "name", "compute", "rebuild"} : Goto(c, step)
    BY <1>2 DEF BuildMap, SwapMap, TakeGraph, Compute, ReadDatabase
  <2>2. UNCHANGED <<mongoVars, id, clashes>>
    BY <1>2 DEF BuildMap, SwapMap, TakeGraph, Compute, ReadDatabase
  <2>3. \A d \in Calls \ {c} : graph'[d] = graph[d]
    BY <1>0, <1>2 DEF BuildMap, SwapMap, TakeGraph, Compute, ReadDatabase, Typing, CallTyping
  <2>4. /\ at'[c] = step /\ \A d \in Calls \ {c} : at'[d] = at[d]
        /\ UNCHANGED <<route, given, status>>
    BY <1>0, <2>1 DEF Goto, Typing, CallTyping
  <2> QED
    BY <2>2, <2>3, <2>4, StoredQuiet DEF Holds, Answered
<1>3. CASE NameResult(c)
  <2> DEFINE name == generateResultId(Prefix[route[c]])
  <2>1. /\ id' = [id EXCEPT ![c] = name] /\ at' = [at EXCEPT ![c] = "save"]
        /\ clashes' = [used |-> clashes.used \cup {name},
                       twice |-> clashes.twice \cup (clashes.used \cap {name})]
        /\ UNCHANGED <<graph, route, given, status, documents, lost>>
    BY <1>3 DEF NameResult, Goto, mongoVars
  <2> HIDE DEF name
  <2>2. at'[c] = "save" /\ id'[c] = name
    BY <1>0, <2>1 DEF Typing, CallTyping
  <2>3. \A d \in Calls \ {c} : at'[d] = at[d] /\ id'[d] = id[d] /\ (Holds(d)' <=> Holds(d))
    BY <1>0, <2>1 DEF Typing, CallTyping, Holds, Answered
  <2>4. UNCHANGED StoredIds
    BY <2>1 DEF StoredIds
  <2>5. IdsUsed'
    BY <2>1, <2>2, <2>3, <2>4 DEF StoredInv, IdsUsed
  <2>6. ASSUME NEW d \in Calls \ {c}, Holds(d), id[d] = name PROVE name \in clashes'.twice
    BY <2>1, <2>6 DEF StoredInv, IdsUsed
  <2>7. IdsClash'
    BY <2>1, <2>2, <2>3, <2>6 DEF StoredInv, IdsClash
  <2>8. NotStoredYet'
    BY <1>0, <2>1, <2>2, <2>3, <2>4 DEF StoredInv, NotStoredYet
  <2>9. AnswerIsStored'
    <3> SUFFICES ASSUME NEW d \in Calls, Answered(d)', route'[d] \in Posting,
                        id'[d] \notin lost'
                 PROVE  /\ id'[d] \in StoredIds'
                        /\ id'[d] \notin clashes'.twice => Document(d)' \in documents'
      BY PostingRoutes DEF AnswerIsStored
    <3>1. d # c /\ Answered(d) /\ id'[d] = id[d] /\ Document(d)' = Document(d)
      BY <2>1, <2>2, <2>3 DEF Answered, Document
    <3> QED
      BY <2>1, <2>4, <3>1, PostingRoutes DEF StoredInv, AnswerIsStored
  <2> QED
    BY <2>5, <2>7, <2>8, <2>9 DEF StoredInv
<1>4. CASE SaveResult(c)
  <2>1. /\ at[c] = "save" /\ at' = [at EXCEPT ![c] = "done"]
        /\ status' = [status EXCEPT ![c] = 200]
        /\ UNCHANGED <<graph, route, given, id, clashes>> /\ saveResult(Document(c))
    BY <1>4 DEF SaveResult, Return
  <2>2. at'[c] = "done" /\ status'[c] = 200 /\ route[c] \in Posting
    BY <1>0, <2>1 DEF Typing, CallTyping, CallInv
  <2>3. \A d \in Calls \ {c} : at'[d] = at[d] /\ status'[d] = status[d]
    BY <1>0, <2>1 DEF Typing, CallTyping
  <2>4. \A d \in Calls : (Holds(d)' <=> Holds(d)) /\ Document(d)' = Document(d)
    BY <2>1, <2>2, <2>3 DEF Holds, Answered, Document
  <2>5. Holds(c) /\ id[c] \in clashes.used /\ Document(c).id = id[c]
    BY <2>1 DEF Holds, StoredInv, IdsUsed, Document
  <2>6. /\ documents \subseteq documents' /\ lost \subseteq lost'
        /\ StoredIds \subseteq StoredIds' /\ StoredIds' \subseteq StoredIds \cup {id[c]}
    BY <2>1, <2>5 DEF saveResult, StoredIds
  <2>7. IdsUsed' /\ IdsClash'
    BY <2>1, <2>4, <2>5, <2>6 DEF StoredInv, IdsUsed, IdsClash
  <2>8. NotStoredYet'
    <3> SUFFICES ASSUME NEW d \in Calls, at'[d] = "save", id[d] \notin clashes.twice
                 PROVE  id[d] \notin StoredIds'
      BY <2>1 DEF NotStoredYet
    <3>1. d # c /\ at[d] = "save" /\ Holds(d)
      BY <2>2, <2>3 DEF Holds
    <3>2. id[d] # id[c]
      BY <2>5, <3>1 DEF StoredInv, IdsClash
    <3> QED
      BY <2>6, <3>1, <3>2 DEF StoredInv, NotStoredYet
  <2>9. AnswerIsStored'
    <3> SUFFICES ASSUME NEW d \in Calls, Answered(d)', route[d] \in Posting, id[d] \notin lost'
                 PROVE  /\ id[d] \in StoredIds'
                        /\ id[d] \notin clashes.twice => Document(d)' \in documents'
      BY <2>1, PostingRoutes DEF AnswerIsStored
    <3>1. CASE d # c
      <4>1. Answered(d)
        BY <2>3, <3>1 DEF Answered
      <4> QED
        BY <2>4, <2>6, <4>1, PostingRoutes DEF StoredInv, AnswerIsStored
    <3>2. CASE d = c
      <4>1. documents' = IF id[c] \in StoredIds THEN documents ELSE documents \cup {Document(c)}
        BY <2>1, <2>5, <3>2 DEF saveResult
      <4>2. id[c] \notin clashes.twice => id[c] \notin StoredIds
        BY <2>1 DEF StoredInv, NotStoredYet
      <4>3. id[c] \in StoredIds'
        BY <2>5, <2>6, <4>1 DEF StoredIds
      <4> QED
        BY <2>4, <3>2, <4>1, <4>2, <4>3
    <3> QED
      BY <3>1, <3>2
  <2> QED
    BY <2>7, <2>8, <2>9 DEF StoredInv
<1> QED
  BY <1>1, <1>2, <1>3, <1>4 DEF Handle, HandlerStep

LEMMA StoredNext == StoredInv /\ [Next]_vars => StoredInv'
<1> SUFFICES ASSUME StoredInv, [Next]_vars PROVE StoredInv'
  OBVIOUS
<1>1. AnswersInv'
  BY AnswersNext DEF StoredInv
<1>2. ASSUME NEW c \in Calls, WireStep(c) \/ Handle(c) PROVE StoredInv'
  BY <1>1, <1>2, StoredWire, StoredHandle
<1>3. CASE UNCHANGED <<callVars, mongoVars>>
  BY <1>1, <1>3, StoredQuiet DEF callVars, Holds, Answered
<1> QED
  BY <1>2, <1>3 DEF Next, LiveStep, Tick, vars

\* An answered result is found under its id unless its insertion failed, and it is that
\* result and no other unless two were named in the same second: generateResultId only
\* joins a prefix and the time, and saveResult tells its caller nothing.
THEOREM AnswerIsStoredCorrect == Spec => []AnswerIsStored
<1>1. StoredInv => AnswerIsStored
  BY DEF StoredInv
<1> QED
  BY <1>1, StoredInit, StoredNext, PTL DEF Spec

\* A stored result is never replaced or removed by a later one.
THEOREM ResultsAreKeptCorrect == Spec => ResultsAreKept
<1>1. [Next]_vars => [documents \subseteq documents']_documents
  <2> SUFFICES ASSUME [Next]_vars PROVE documents \subseteq documents'
    OBVIOUS
  <2>1. CASE UNCHANGED mongoVars
    BY <2>1 DEF mongoVars
  <2>2. ASSUME NEW c \in Calls, SaveResult(c) PROVE documents \subseteq documents'
    BY <2>2 DEF SaveResult, saveResult
  <2> QED
    BY <2>1, <2>2 DEF Next, WireStep, Handle, HandlerStep, LiveStep, Tick, vars, UnknownRoute,
       GetResults, RefuseMap, BuildMap, SwapMap, NoMapLoaded, TakeGraph, RefuseRequest,
       Compute, NameResult, RefuseRefresh, ReadDatabase, RebuildFails, Rebuild
<1> QED
  BY <1>1, PTL DEF Spec, ResultsAreKept
=============================================================================
