-------------------------- MODULE MCRoutingAlgorithms --------------------------
(***************************************************************************)
(* Small graphs for the three algorithms, with nodes a, b, c, d and in one *)
(* case x and y, which are otherwise names of no node.                     *)
(***************************************************************************)
EXTENDS RoutingAlgorithms

CONSTANTS a, b, c, d, x, y

AsGraph(nodes, kind, edges) ==
    [kind |-> [n \in nodes |-> kind], active |-> nodes, edges |-> edges]
Arc(p, cost, capacity) == [from |-> p[1], to |-> p[2], cost |-> cost, capacity |-> capacity]
Arrows(nodes) == {p \in nodes \X nodes : p[1] # p[2]}
UpTo(n, S) == UNION {kSubset(k, S) : k \in 0..n}

\* Markets b and c, a market a that is inactive, and a center d.
MixedGraph ==
    [kind |-> [n \in {a, b, c, d} |-> IF n = d THEN "center" ELSE "market"],
     active |-> {b, c, d},
     edges |-> {Arc(<<a, b>>, 1, 1), Arc(<<b, d>>, 1, 1), Arc(<<b, c>>, 1, 1),
                Arc(<<c, c>>, -1, 1)}]
EmptyGraph == AsGraph({}, "center", {})

\* Three markets, hence two passes and the detection, and up to four edges, several of
\* which may join the same two; circles of cost -4, -3, -1, 0, 2 and 3.
MarketEdges == {Arc(p, k, 0) : p \in Arrows({a, b, c}), k \in {-2, 1}}
TheMarketRequests ==
    {[graph |-> AsGraph({a, b, c}, "market", E), source |-> a] : E \in UpTo(4, MarketEdges)}
      \cup [graph : {MixedGraph, EmptyGraph}, source : {a, b, d, x}]
TheBounds == {[n \in Ids |-> IF n \in {a, b, c} THEN h[n] ELSE 0] : h \in [{a, b, c} -> -2..1]}

\* Four centers: two ways from a to d with capacities up to 2, edges of capacity 1
\* across in both directions and one that leads back from the sink.
Outer == {<<a, b>>, <<a, c>>, <<b, d>>, <<c, d>>}
FlowArrows == Outer \cup {<<b, c>>, <<c, b>>, <<d, b>>}
Capacities ==
    {cap \in [FlowArrows -> 0..2] : \A p \in FlowArrows \ Outer : cap[p] < 2}
FlowEdges(cap) == {Arc(p, 1, cap[p]) : p \in {p \in FlowArrows : cap[p] > 0}}
Twin == {Arc(<<a, b>>, 1, 2), Arc(<<a, b>>, 1, 1), Arc(<<b, d>>, 1, 3)}

\* Six centers: the shortest path a-b-c-d blocks both longer ways, and the next search
\* has to take its flow on the edge from b to c back.
Crossing == {Arc(p, 1, 1) : p \in {<<a, b>>, <<b, c>>, <<c, d>>, <<a, x>>, <<x, c>>,
                                    <<b, y>>, <<y, d>>}}

TheFlowRequests ==
    {[graph |-> AsGraph({a, b, c, d}, "center", FlowEdges(cap)), source |-> a, sink |-> d] :
        cap \in Capacities}
      \cup {[graph |-> AsGraph({a, b, c, d, x, y}, "center", Crossing), source |-> a, sink |-> d]}
      \cup {[graph |-> AsGraph({a, b, d}, "center", Twin), source |-> a, sink |-> n] :
               n \in {a, d, x}}
      \cup [graph : {MixedGraph}, source : {b, d}, sink : {b, d, x}]

\* All directed graphs of three centers, those of four with few edges, the undirected
\* ones of four, those of three with loops, and graphs that are too small or too large.
Undirected(S) == {Arc(p, 1, 1) : p \in {p \in Arrows({a, b, c, d}) : {p[1], p[2]} \in S}}
Loops(L) == {Arc(<<n, n>>, 1, 1) : n \in L}
Unit(nodes) == {Arc(p, 1, 1) : p \in Arrows(nodes)}
TheCircuitGraphs ==
    {AsGraph({a, b, c}, "center", E) : E \in SUBSET Unit({a, b, c})}
      \cup {AsGraph({a, b, c, d}, "center", E) : E \in UpTo(4, Unit({a, b, c, d}))}
      \cup {AsGraph({a, b, c, d}, "center", Undirected(S)) :
               S \in SUBSET kSubset(2, {a, b, c, d})}
      \cup {AsGraph({a, b, c}, "center", Undirected(S) \cup Loops(L)) :
               S \in SUBSET kSubset(2, {a, b, c}), L \in SUBSET {a, b, c}}
      \cup {AsGraph({a, b}, "center", {Arc(<<a, a>>, 1, 1), Arc(<<a, b>>, 1, 1)}),
            AsGraph({a}, "center", {}), AsGraph({a, b, c, d, x}, "center", {}), EmptyGraph}
=============================================================================
