--------------------------- MODULE KaufmannMalgrange ---------------------------
(***************************************************************************)
(* KaufmannMalgrange::compute (kaufmann_malgrange.cpp): a circuit through  *)
(* all fulfillment centers, searched by backtracking, and the check of     *)
(* Ore's condition before it.  The recursion is the stack of what is left  *)
(* to try at each node of the path.                                        *)
(***************************************************************************)
EXTENDS GraphLibrary, Sequences

CONSTANT MaxNodes   \* MAX_NODES

ASSUME KaufmannMalgrangeAssumption == MaxNodes \in Nat

VARIABLES
    kmStage,       \* "idle", "error", "search" or "done"
    centers,       \* the active fulfillment centers
    adj,           \* adjDir
    starts,        \* start nodes that are left
    path, visited,
    untried,       \* per node of the path, the neighbours its loop has not come to
    feasible

kmVars == <<kmStage, centers, adj, starts, path, visited, untried, feasible>>

KMInit ==
    /\ kmStage = "idle"
    /\ centers = {}
    /\ adj = [n \in Ids |-> {}]
    /\ starts = {}
    /\ path = <<>> /\ visited = {} /\ untried = <<>>
    /\ feasible = FALSE

Neighbours(g, n) == {e.to : e \in {e \in getEdges(g, "center") : e.from = n}}

\* computeUndirectedDegrees: one per neighbour in either direction, two for a loop.
UndirectedNeighbours(g, n) ==
    {m \in getActiveNodes(g, "center") : n \in Neighbours(g, m) \/ m \in Neighbours(g, n)}

\* Mutant: an edge and its reverse count twice.
DirectedDegrees(g, n) ==
    Cardinality(Neighbours(g, n))
      + Cardinality({m \in getActiveNodes(g, "center") : n \in Neighbours(g, m)})

Degree(g, n) ==
    Cardinality(UndirectedNeighbours(g, n))
      + IF n \in Neighbours(g, n) THEN 1 ELSE 0

\* oresTheoremHolds: the degrees of two centers without an edge between them add up
\* to the number of centers.
OresTheoremHolds(g) ==
    LET nodes == getActiveNodes(g, "center") IN
    /\ Cardinality(nodes) >= 3
    /\ \A u, v \in nodes :
          u # v /\ v \notin UndirectedNeighbours(g, u)
              => Degree(g, u) + Degree(g, v) >= Cardinality(nodes)

\* No centers, or too many.
KMError(g) ==
    /\ kmStage = "idle"
    /\ LET size == Cardinality(getActiveNodes(g, "center")) IN
          size = 0 \/ size > MaxNodes
    /\ kmStage' = "error"
    /\ UNCHANGED <<centers, adj, starts, path, visited, untried, feasible>>

\* A single center makes a circuit by itself.
KMSingle(g) ==
    /\ kmStage = "idle"
    /\ centers' = getActiveNodes(g, "center")
    /\ Cardinality(centers') = 1 /\ MaxNodes >= 1
    /\ \E n \in centers' : path' = <<n, n>>
    /\ feasible' = TRUE
    /\ kmStage' = "done"
    /\ UNCHANGED <<adj, starts, visited, untried>>

KMStart(g) ==
    /\ kmStage = "idle"
    /\ centers' = getActiveNodes(g, "center")
    /\ Cardinality(centers') \in 2..MaxNodes
    /\ adj' = [n \in Ids |-> Neighbours(g, n)]
    /\ starts' = centers'
    /\ kmStage' = "search"
    /\ UNCHANGED <<path, visited, untried, feasible>>

\* The next turn of the loop over the start nodes.
Begin(s) ==
    /\ kmStage = "search" /\ path = <<>>
    /\ s \in starts
    /\ starts' = starts \ {s}
    /\ path' = <<s>> /\ visited' = {s} /\ untried' = <<adj[s]>>
    /\ UNCHANGED <<kmStage, centers, adj, feasible>>

Current == path[Len(path)]
Full == Len(path) = Cardinality(centers)

\* Mutant: nodes that are on the path are taken again.
ExtendAnyway(n) ==
    /\ kmStage = "search" /\ path # <<>> /\ ~Full
    /\ n \in untried[Len(path)]
    /\ path' = Append(path, n)
    /\ visited' = visited \cup {n}
    /\ untried' = Append([untried EXCEPT ![Len(path)] = @ \ {n}], adj[n])
    /\ UNCHANGED <<kmStage, centers, adj, starts, feasible>>

\* A neighbour that is not on the path yet; the loop passes over the others.
Extend(n) ==
    /\ kmStage = "search" /\ path # <<>> /\ ~Full
    /\ n \in untried[Len(path)] \ visited
    /\ path' = Append(path, n)
    /\ visited' = visited \cup {n}
    /\ untried' = Append([untried EXCEPT ![Len(path)] = @ \ {n}], adj[n])
    /\ UNCHANGED <<kmStage, centers, adj, starts, feasible>>

Closes == path[1] \in adj[Current]

\* All centers are on the path and an edge leads back to the first.
CloseCircuit ==
    /\ kmStage = "search" /\ path # <<>> /\ Full /\ Closes
    /\ path' = Append(path, path[1])
    /\ feasible' = TRUE
    /\ kmStage' = "done"
    /\ UNCHANGED <<centers, adj, starts, visited, untried>>

DeadEnd == path # <<>> /\ IF Full THEN ~Closes ELSE untried[Len(path)] \subseteq visited

\* Mutant: the node that is given up stays marked.
BacktrackMarked ==
    /\ kmStage = "search" /\ DeadEnd
    /\ path' = SubSeq(path, 1, Len(path) - 1)
    /\ untried' = SubSeq(untried, 1, Len(untried) - 1)
    /\ UNCHANGED <<kmStage, centers, adj, starts, visited, feasible>>

\* hamiltonian returns false and its caller takes the node off the path; from the
\* first node it returns to the loop over the start nodes.
Backtrack ==
    /\ kmStage = "search" /\ DeadEnd
    /\ path' = SubSeq(path, 1, Len(path) - 1)
    /\ visited' = visited \ {Current}
    /\ untried' = SubSeq(untried, 1, Len(untried) - 1)
    /\ UNCHANGED <<kmStage, centers, adj, starts, feasible>>

GiveUp ==
    /\ kmStage = "search" /\ path = <<>> /\ starts = {}
    /\ kmStage' = "done"
    /\ UNCHANGED <<centers, adj, starts, path, visited, untried, feasible>>

KMStep == (\E n \in Ids : Begin(n) \/ Extend(n)) \/ CloseCircuit \/ Backtrack \/ GiveUp

-----------------------------------------------------------------------------
\* "path contains V + 1 entries: the V nodes of the circuit in visitation order, with
\* path.front() == path.back()" (kaufmann_malgrange.hpp:62): they follow the directed
\* edges, which a single center does not need, and come to no node twice.
CircuitIsHamiltonian ==
    kmStage = "done" /\ feasible =>
        /\ Len(path) = Cardinality(centers) + 1
        /\ path[Len(path)] = path[1]
        /\ \A i \in 1..Cardinality(centers) : path[i] \in centers
        /\ \A i, j \in 1..Cardinality(centers) : path[i] = path[j] => i = j
        /\ Cardinality(centers) > 1 =>
              \A i \in 1..Cardinality(centers) : path[i + 1] \in adj[path[i]]

\* The circuits of the definition: an order of all centers with an edge from each to
\* the next and from the last to the first.
IsCircuit(order) ==
    /\ \A i, j \in DOMAIN order : order[i] = order[j] => i = j
    /\ \A i \in DOMAIN order :
          order[(i % Cardinality(centers)) + 1] \in adj[order[i]]

HasCircuit == \E order \in [1..Cardinality(centers) -> centers] : IsCircuit(order)

\* A circuit is found if there is one, whichever way the search takes.
CircuitIsFound ==
    kmStage = "done" /\ Cardinality(centers) > 1 => feasible = HasCircuit

\* The work that is left: start nodes, and at each node of the path the neighbours its
\* loop has not come to, and itself.
KMLeft ==
    [i \in 0..Cardinality(centers) |->
        CASE kmStage # "search" -> 0
          [] kmStage = "search" /\ i = 0 -> 1 + Cardinality(starts)
          [] kmStage = "search" /\ i \in 1..Len(path) -> 1 + Cardinality(untried[i])
          [] OTHER -> 0]
=============================================================================
