----------------------------- MODULE FordFulkerson -----------------------------
(***************************************************************************)
(* FordFulkerson::compute and bfs (ford_fulkerson.cpp): the maximum flow   *)
(* between two fulfillment centers.  The order of the edges and of the     *)
(* neighbours in the hash maps is arbitrary here.  An entry that a map     *)
(* does not have is 0, which the code treats alike.                        *)
(***************************************************************************)
EXTENDS GraphLibrary, Sequences, FiniteSetsExt

VARIABLES
    ffStage,       \* "idle", "refused", "build", "search", "augment" or "done"
    sourceId, sinkId,
    unread,        \* edges the residual graph is still to be built from
    residual,      \* residual[u][v], as a function of pairs
    original,
    parent, queue, \* bfs: a node is visited once it has a parent
    maxFlow

ffVars == <<ffStage, sourceId, sinkId, unread, residual, original, parent, queue, maxFlow>>

Pairs == Ids \X Ids

NoParent == [n \in Ids |-> None]

FFInit ==
    /\ ffStage = "idle"
    /\ sourceId = None /\ sinkId = None
    /\ unread = {}
    /\ residual = [p \in Pairs |-> 0] /\ original = [p \in Pairs |-> 0]
    /\ parent = NoParent
    /\ queue = <<>>
    /\ maxFlow = 0

FFAccepts(g, s, t) ==
    /\ hasNode(g, s) /\ hasNode(g, t)
    /\ g.kind[s] = "center" /\ g.kind[t] = "center"
    /\ s # t
    /\ getActiveNodes(g, "center") # {}

\* An exception: the handler answers 400.
FFRefuse(g, s, t) ==
    /\ ffStage = "idle"
    /\ ~FFAccepts(g, s, t)
    /\ ffStage' = "refused"
    /\ UNCHANGED <<sourceId, sinkId, unread, residual, original, parent, queue, maxFlow>>

FFStart(g, s, t) ==
    /\ ffStage = "idle"
    /\ FFAccepts(g, s, t)
    /\ ffStage' = "build"
    /\ sourceId' = s /\ sinkId' = t
    /\ unread' = getEdges(g, "center")
    /\ UNCHANGED <<residual, original, parent, queue, maxFlow>>

\* The edges of the same two centers add up, so their order does not matter.
AddEdge ==
    /\ ffStage = "build"
    /\ unread # {}
    /\ LET e == CHOOSE e \in unread : TRUE IN
          /\ unread' = unread \ {e}
          /\ residual' = [residual EXCEPT ![<<e.from, e.to>>] = @ + e.capacity]
          /\ original' = [original EXCEPT ![<<e.from, e.to>>] = @ + e.capacity]
    /\ UNCHANGED <<ffStage, sourceId, sinkId, parent, queue, maxFlow>>

\* bfs is entered with an empty parent map and the source in the queue.
Search ==
    /\ ffStage' = "search"
    /\ parent' = NoParent
    /\ queue' = <<sourceId>>

FirstSearch ==
    /\ ffStage = "build"
    /\ unread = {}
    /\ Search
    /\ UNCHANGED <<sourceId, sinkId, unread, residual, original, maxFlow>>

Visited(n) == n = sourceId \/ parent[n] # None

\* Mutant: visited nodes are visited again.
OpenAgain(u) == {v \in Ids : residual[<<u, v>>] > 0}

\* Mutant: edges without capacity are followed.
OpenWithoutCapacity(u) == {v \in Ids : ~Visited(v) /\ residual[<<u, v>>] >= 0}

\* The neighbours bfs goes on to.
Open(u) == {v \in Ids : ~Visited(v) /\ residual[<<u, v>>] > 0}

\* The first of the queue has a neighbour left; the search ends when it is the sink.
Visit(v) ==
    /\ ffStage = "search"
    /\ queue # <<>>
    /\ v \in Open(Head(queue))
    /\ parent' = [parent EXCEPT ![v] = Head(queue)]
    /\ IF v = sinkId THEN ffStage' = "augment" /\ UNCHANGED queue
       ELSE queue' = Append(queue, v) /\ UNCHANGED ffStage
    /\ UNCHANGED <<sourceId, sinkId, unread, residual, original, maxFlow>>

Dequeue ==
    /\ ffStage = "search"
    /\ queue # <<>>
    /\ Open(Head(queue)) = {}
    /\ queue' = Tail(queue)
    /\ UNCHANGED <<ffStage, sourceId, sinkId, unread, residual, original, parent, maxFlow>>

NoPath ==
    /\ ffStage = "search"
    /\ queue = <<>>
    /\ ffStage' = "done"
    /\ UNCHANGED <<sourceId, sinkId, unread, residual, original, parent, queue, maxFlow>>

\* The nodes met when the parents are followed from the sink back to the source.
ClosedBack(S) == sinkId \in S /\ \A n \in S : parent[n] # None => parent[n] \in S
OnPath == {n \in Ids \ {sourceId} : \A S \in SUBSET Ids : ClosedBack(S) => n \in S}

\* Mutant: the backward capacity is not given.
PushedForward(b) ==
    [p \in Pairs |->
        residual[p] - (IF p[2] \in OnPath /\ parent[p[2]] = p[1] THEN b ELSE 0)]

\* The residuals after a flow of b along the path.
Pushed(b) ==
    [p \in Pairs |->
        residual[p] - (IF p[2] \in OnPath /\ parent[p[2]] = p[1] THEN b ELSE 0)
                    + (IF p[1] \in OnPath /\ parent[p[1]] = p[2] THEN b ELSE 0)]

\* Mutant: the largest capacity of the path is pushed.
WidestOnPath ==
    LET capacities == {residual[<<parent[v], v>>] : v \in OnPath}
    IN  {b \in capacities : \A c \in capacities : b >= c}

\* The bottleneck is the least capacity left on the path.
Bottlenecks ==
    LET capacities == {residual[<<parent[v], v>>] : v \in OnPath}
    IN  {b \in capacities : \A c \in capacities : b <= c}

\* One step for the two loops along the path; then bfs is called again.
Augment ==
    /\ ffStage = "augment"
    /\ \E b \in Bottlenecks :
          /\ residual' = Pushed(b)
          /\ maxFlow' = maxFlow + b
    /\ Search
    /\ UNCHANGED <<sourceId, sinkId, unread, original>>

FFStep == AddEdge \/ FirstSearch \/ (\E v \in Ids : Visit(v)) \/ Dequeue \/ NoPath \/ Augment

\* flow_matrix, for the edges there are.
Flow(u, v) == original[<<u, v>>] - residual[<<u, v>>]

-----------------------------------------------------------------------------
CutCapacity(S) == SumFunctionOnSet(original, S \X (Ids \ S))

Positive(n) == IF n > 0 THEN n ELSE 0
EdgeFlow(u, v) == IF original[<<u, v>>] > 0 THEN Positive(Flow(u, v)) ELSE 0
Outflow(n) == SumFunction([m \in Ids |-> EdgeFlow(n, m)])
Inflow(n) == SumFunction([m \in Ids |-> EdgeFlow(m, n)])

\* "Equals the sum of flow on all edges leaving the source node, which by flow
\* conservation should be equal to the sum on all edges entering the sink node"
\* (ford_fulkerson.hpp:38): the matrix is a flow of this value, nothing is kept or
\* added on the way.  A negative entry of flow_matrix (ford_fulkerson.cpp:127), which
\* says again what flows against an edge, counts as 0 here.
FlowIsConserved ==
    \A n \in Ids :
        Outflow(n) - Inflow(n) = IF n = sourceId THEN maxFlow
                                 ELSE IF n = sinkId THEN -maxFlow ELSE 0

\* "Total maximum flow pushed from source to sink" (ford_fulkerson.hpp:36): what is
\* answered is the least capacity of a cut between them, and the matrix is a flow of it.
FlowIsMaximal ==
    ffStage = "done" =>
        /\ maxFlow = Min({CutCapacity(S) :
                           S \in {S \in SUBSET Ids : sourceId \in S /\ sinkId \notin S}})
        /\ FlowIsConserved

\* At any time the flow over an edge is within its capacity.  Against the direction of
\* an edge it is only where an edge leads back, and within the capacity of that one.
FlowWithinCapacity ==
    \A u, v \in Ids :
        Flow(u, v) <= original[<<u, v>>] /\ -original[<<v, u>>] <= Flow(u, v)

\* When the search gives up the visited nodes make a cut around the source that leaves
\* the sink out and has no capacity left.
CutIsSaturated ==
    ffStage = "done" =>
        /\ ~Visited(sinkId)
        /\ \A u, v \in Ids : Visited(u) /\ ~Visited(v) => residual[<<u, v>>] = 0

\* The work that is left: edges to read, units of flow that may still leave the source,
\* nodes this search has not visited, and nodes it has to look around from.
FFLeft ==
    <<CASE ffStage = "build" -> 2 [] ffStage \in {"search", "augment"} -> 1 [] OTHER -> 0,
      Cardinality(unread),
      CutCapacity({sourceId}) - maxFlow,
      Cardinality({n \in Ids : ~Visited(n)}),
      Len(queue)>>

\* "This value is always >= 0 because residual can never exceed original on a forward
\* edge" (ford_fulkerson.cpp:116).
FlowNonNegative ==
    ffStage = "done" => \A u, v \in Ids : original[<<u, v>>] > 0 => Flow(u, v) >= 0
=============================================================================
