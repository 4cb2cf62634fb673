--------------------------- MODULE RoutingAlgorithms ---------------------------
(***************************************************************************)
(* The computations behind POST /markets-path, /fulfillment-flow and       *)
(* /fulfillment-circuit (graph_router.cpp): a handler runs one algorithm   *)
(* on a graph that nobody changes meanwhile.  The algorithms keep no state *)
(* between calls, so that one call is followed from its start to its end.  *)
(***************************************************************************)
EXTENDS BellmanFord, FordFulkerson, KaufmannMalgrange

CONSTANTS
    MarketRequests,    \* a graph and the source named in the body
    FlowRequests,      \* a graph, the source and the sink
    CircuitGraphs

ASSUME RoutingAssumption ==
    /\ \A r \in MarketRequests : IsGraph(r.graph) /\ r.graph # None /\ r.source \in Ids
    /\ \A r \in FlowRequests :
          IsGraph(r.graph) /\ r.graph # None /\ {r.source, r.sink} \subseteq Ids
    /\ \A g \in CircuitGraphs : IsGraph(g) /\ g # None

VARIABLE graph   \* the snapshot the handler took

vars == <<graph, bfVars, ffVars, kmVars>>

Init ==
    /\ graph = None
    /\ BFInit /\ FFInit /\ KMInit

\* handleMarketsPath
MarketsPath(r) ==
    /\ graph = None
    /\ graph' = r.graph
    /\ BFRefuse(r.graph, r.source) \/ BFStart(r.graph, r.source)
    /\ UNCHANGED <<ffVars, kmVars>>

\* handleFulfillmentFlow
FulfillmentFlow(r) ==
    /\ graph = None
    /\ graph' = r.graph
    /\ FFRefuse(r.graph, r.source, r.sink) \/ FFStart(r.graph, r.source, r.sink)
    /\ UNCHANGED <<bfVars, kmVars>>

\* handleFulfillmentCircuit
FulfillmentCircuit(g) ==
    /\ graph = None
    /\ graph' = g
    /\ KMError(g) \/ KMSingle(g) \/ KMStart(g)
    /\ UNCHANGED <<bfVars, ffVars>>

BellmanFordStep == BFStep /\ UNCHANGED <<graph, ffVars, kmVars>>
FordFulkersonStep == FFStep /\ UNCHANGED <<graph, bfVars, kmVars>>
KaufmannMalgrangeStep == KMStep /\ UNCHANGED <<graph, bfVars, ffVars>>

Next ==
    \/ \E r \in MarketRequests : MarketsPath(r)
    \/ \E r \in FlowRequests : FulfillmentFlow(r)
    \/ \E g \in CircuitGraphs : FulfillmentCircuit(g)
    \/ BellmanFordStep \/ FordFulkersonStep \/ KaufmannMalgrangeStep

Spec == Init /\ [][Next]_vars

\* A computation runs on in its thread.
FairSpec ==
    Spec /\ WF_vars(BellmanFordStep) /\ WF_vars(FordFulkersonStep) /\ WF_vars(KaufmannMalgrangeStep)

TypeOK ==
    /\ bfStage \in {"idle", "refused", "relax", "detect", "done"}
    /\ distances \in [Ids -> Int \cup {Unreachable}]
    /\ predecessors \in [Ids -> Ids \cup {None}]
    /\ todo \subseteq market.edges
    /\ bfStage \in {"relax", "detect"} => pass \in 1..market.size
    /\ ffStage \in {"idle", "refused", "build", "search", "augment", "done"}
    /\ residual \in [Pairs -> Nat] /\ original \in [Pairs -> Nat]
    /\ parent \in [Ids -> Ids \cup {None}]
    /\ queue \in Seq(Ids)
    /\ maxFlow \in Nat
    /\ kmStage \in {"idle", "error", "search", "done"}
    /\ path \in Seq(centers)
    /\ untried \in Seq(SUBSET centers)

\* Every call comes to an end: with an answer, a refusal or an error.
CallEnds ==
    graph # None ~>
        \/ bfStage \in {"refused", "done"}
        \/ ffStage \in {"refused", "done"}
        \/ kmStage \in {"error", "done"}

\* Lower in the lexicographic order of tuples of natural numbers, which has no infinite
\* descent.
LowerThan(new, old) ==
    /\ DOMAIN new = DOMAIN old
    /\ \A k \in DOMAIN new : new[k] \in Nat
    /\ \E k \in DOMAIN new :
          new[k] < old[k] /\ \A j \in DOMAIN new : j < k => new[j] = old[j]

\* Why every call ends: each step of an algorithm leaves less work.  A pass is counted or
\* an edge of it done; a node is visited or leaves the queue, or the flow that can still
\* leave the source gets less; a node is tried that was not tried on this path.
EveryStepCountsDown ==
    [][/\ BellmanFordStep => LowerThan(BFLeft', BFLeft)
       /\ FordFulkersonStep => LowerThan(FFLeft', FFLeft)
       /\ KaufmannMalgrangeStep => LowerThan(KMLeft', KMLeft)]_vars

Symmetric(g) == \A e \in g.edges : \E r \in g.edges : r.from = e.to /\ r.to = e.from

Loopless(g) == \A e \in g.edges : e.from # e.to

\* On a graph whose edges all lead both ways, none of them from a center to itself, the
\* check is right: when Ore's condition holds the search finds a circuit.  A loop adds two
\* to a degree, and two loops make the condition hold where there is no circuit.
OreGuaranteesWhenSymmetric ==
    kmStage = "done" /\ Symmetric(graph) /\ Loopless(graph) /\ OresTheoremHolds(graph)
        => feasible

\* "Ore's theorem condition satisfied — Hamiltonian circuit is guaranteed."
\* (kaufmann_malgrange.cpp:90).  The degrees are those of the undirected projection.
OreGuaranteesCircuit ==
    kmStage = "done" /\ OresTheoremHolds(graph) => feasible
=============================================================================
