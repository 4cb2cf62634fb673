------------------------------ MODULE BellmanFord ------------------------------
(***************************************************************************)
(* BellmanFord::compute (bellman_ford.cpp): cheapest ways from one market  *)
(* to the others.  The order of the edges, which Graph::getEdges decides,  *)
(* is arbitrary here, and may differ from pass to pass.                    *)
(***************************************************************************)
EXTENDS GraphLibrary, Sequences, FiniteSetsExt

CONSTANTS
    Unreachable,   \* UNREACHABLE, the infinite distance
    Potentials     \* lower bounds the distances are compared with

ASSUME BellmanFordAssumption ==
    /\ None \notin Ids
    /\ Unreachable \notin Int
    /\ Potentials \subseteq [Ids -> Int]

VARIABLES
    bfStage,       \* "idle", "refused" (an exception), "relax", "detect" or "done"
    market,        \* the edges and the number of active markets of the graph
    source,
    distances, predecessors,
    pass,
    todo,          \* edges this pass has not come to
    anyRelaxation,
    hasNegativeCycle

bfVars == <<bfStage, market, source, distances, predecessors, pass, todo,
            anyRelaxation, hasNegativeCycle>>

BFInit ==
    /\ bfStage = "idle"
    /\ market = [edges |-> {}, size |-> 0]
    /\ source = None
    /\ distances = [n \in Ids |-> Unreachable]
    /\ predecessors = [n \in Ids |-> None]
    /\ pass = 0 /\ todo = {}
    /\ anyRelaxation = FALSE
    /\ hasNegativeCycle = FALSE

BFAccepts(g, s) ==
    /\ hasNode(g, s)
    /\ g.kind[s] = "market"
    /\ getActiveNodes(g, "market") # {}

\* An exception: the handler answers 400.
BFRefuse(g, s) ==
    /\ bfStage = "idle"
    /\ ~BFAccepts(g, s)
    /\ bfStage' = "refused"
    /\ UNCHANGED <<market, source, distances, predecessors, pass, todo, anyRelaxation,
                   hasNegativeCycle>>

\* The source may be an inactive market: it then has no edges.
BFStart(g, s) ==
    /\ bfStage = "idle"
    /\ BFAccepts(g, s)
    /\ market' = [edges |-> getEdges(g, "market"),
                  size |-> Cardinality(getActiveNodes(g, "market"))]
    /\ source' = s
    /\ distances' = [distances EXCEPT ![s] = 0]
    /\ pass' = 1
    /\ todo' = getEdges(g, "market")
    /\ bfStage' = IF market'.size = 1 THEN "detect" ELSE "relax"
    /\ UNCHANGED <<predecessors, anyRelaxation, hasNegativeCycle>>

Less(a, b) == IF b = Unreachable THEN a # Unreachable ELSE a # Unreachable /\ a < b

Candidate(e) ==
    IF distances[e.from] = Unreachable THEN Unreachable ELSE distances[e.from] + e.cost

Improves(e) == Less(Candidate(e), distances[e.to])

\* Mutant: the flag tells of the last edge only.
RelaxForgets(e) ==
    /\ bfStage = "relax"
    /\ e \in todo
    /\ todo' = todo \ {e}
    /\ IF Improves(e)
       THEN /\ distances' = [distances EXCEPT ![e.to] = Candidate(e)]
            /\ predecessors' = [predecessors EXCEPT ![e.to] = e.from]
       ELSE UNCHANGED <<distances, predecessors>>
    /\ anyRelaxation' = Improves(e)
    /\ UNCHANGED <<bfStage, market, source, pass, hasNegativeCycle>>

BFRelax(e) ==
    /\ bfStage = "relax"
    /\ e \in todo
    /\ todo' = todo \ {e}
    /\ IF Improves(e)
       THEN /\ distances' = [distances EXCEPT ![e.to] = Candidate(e)]
            /\ predecessors' = [predecessors EXCEPT ![e.to] = e.from]
            /\ anyRelaxation' = TRUE
       ELSE UNCHANGED <<distances, predecessors, anyRelaxation>>
    /\ UNCHANGED <<bfStage, market, source, pass, hasNegativeCycle>>

\* Mutant: one pass too few before the detection.
EndPassEarly ==
    /\ bfStage = "relax"
    /\ todo = {}
    /\ IF ~anyRelaxation THEN bfStage' = "done" /\ UNCHANGED <<pass, todo>>
       ELSE /\ bfStage' = IF pass + 1 < market.size - 1 THEN "relax" ELSE "detect"
            /\ pass' = pass + 1
            /\ todo' = market.edges
    /\ anyRelaxation' = FALSE
    /\ UNCHANGED <<market, source, distances, predecessors, hasNegativeCycle>>

\* A pass without relaxation is the last; there are at most V - 1.
BFEndPass ==
    /\ bfStage = "relax"
    /\ todo = {}
    /\ IF ~anyRelaxation THEN bfStage' = "done" /\ UNCHANGED <<pass, todo>>
       ELSE /\ bfStage' = IF pass < market.size - 1 THEN "relax" ELSE "detect"
            /\ pass' = pass + 1
            /\ todo' = market.edges
    /\ anyRelaxation' = FALSE
    /\ UNCHANGED <<market, source, distances, predecessors, hasNegativeCycle>>

\* The V-th pass.
BFDetect(e) ==
    /\ bfStage = "detect"
    /\ e \in todo
    /\ todo' = todo \ {e}
    /\ IF Improves(e) THEN bfStage' = "done" /\ hasNegativeCycle' = TRUE
                      ELSE UNCHANGED <<bfStage, hasNegativeCycle>>
    /\ UNCHANGED <<market, source, distances, predecessors, pass, anyRelaxation>>

BFEndDetect ==
    /\ bfStage = "detect"
    /\ todo = {}
    /\ bfStage' = "done"
    /\ UNCHANGED <<market, source, distances, predecessors, pass, todo, anyRelaxation,
                   hasNegativeCycle>>

BFStep == (\E e \in todo : BFRelax(e) \/ BFDetect(e)) \/ BFEndPass \/ BFEndDetect

-----------------------------------------------------------------------------
Answered == bfStage = "done" /\ ~hasNegativeCycle

\* The walks over market edges from a node that come to no node twice, as the edges
\* they take; the last may lead back to where the walk began.
Routes(n) ==
    {p \in UNION {[1..k -> market.edges] : k \in 0..market.size} :
        /\ p # <<>> => p[1].from = n
        /\ \A i \in 1..(Len(p) - 1) : p[i].to = p[i + 1].from
        /\ \A i, j \in 1..Len(p) : p[i].to = p[j].to => i = j}

RouteEnd(p) == IF p = <<>> THEN source ELSE p[Len(p)].to
RouteCost(p) == SumFunction([i \in 1..Len(p) |-> p[i].cost])

\* A circle that can be reached and gets cheaper with every turn.
NegativeCycle ==
    \E n \in {RouteEnd(p) : p \in Routes(source)} :
        \E c \in Routes(n) \ {<<>>} : RouteEnd(c) = n /\ RouteCost(c) < 0

\* Every market that is reached has an edge from its predecessor which accounts for its
\* distance, and the source has none.
PredecessorsAccountForDistances ==
    Answered =>
        /\ predecessors[source] = None
        /\ \A n \in Ids \ {source} :
              IF distances[n] = Unreachable THEN predecessors[n] = None
              ELSE \E e \in market.edges :
                      e.from = predecessors[n] /\ e.to = n /\ distances[n] = Candidate(e)

\* The distances answered are those of the cheapest routes, the nodes left out have
\* none, the predecessors make the routes up, and the flag is raised exactly when a
\* negative cycle can be reached
\* (bellman_ford.hpp:43: "True if a negative-weight cycle reachable from the source").
DistancesAreShortest ==
    bfStage = "done" =>
        /\ hasNegativeCycle = NegativeCycle
        /\ ~hasNegativeCycle =>
              \A n \in Ids :
                 LET costs == {RouteCost(p) : p \in {r \in Routes(source) : RouteEnd(r) = n}}
                 IN  distances[n] = IF costs = {} THEN Unreachable ELSE Min(costs)
        /\ PredecessorsAccountForDistances

Feasible(h) == h[source] <= 0 /\ \A e \in market.edges : h[e.to] <= h[e.from] + e.cost

\* What makes the distances right on any graph: no edge shortens one, and no lower
\* bound that agrees with all the edges is exceeded.
DistancesAreOptimal ==
    Answered =>
        /\ \A e \in market.edges : ~Improves(e)
        /\ \A h \in Potentials :
              Feasible(h) => \A n \in Ids : distances[n] # Unreachable => h[n] <= distances[n]

\* The work that is left: passes, the detection among them, and edges of this one.
BFLeft ==
    <<IF bfStage \in {"relax", "detect"} THEN 1 + market.size - pass ELSE 0,
      Cardinality(todo)>>
=============================================================================
