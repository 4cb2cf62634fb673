----------------------------- MODULE GraphLibrary -----------------------------
(***************************************************************************)
(* The graph the algorithms compute on, as they use it (graph.hpp is not   *)
(* in the repository): nodes of two kinds, some of them inactive, and      *)
(* directed edges with a cost and a capacity.  A graph is a record; it is  *)
(* never changed once it is built.                                         *)
(***************************************************************************)
EXTENDS Integers, FiniteSets

CONSTANTS
    Ids,    \* what a request may name as a node
    None    \* no node

ASSUME IdsAssumption == IsFiniteSet(Ids)

hasNode(g, n) == n \in DOMAIN g.kind

getActiveNodes(g, kind) == {n \in g.active : g.kind[n] = kind}

\* The edges both ends of which are active nodes of this kind.
getEdges(g, kind) == {e \in g.edges : {e.from, e.to} \subseteq getActiveNodes(g, kind)}

IsGraph(g) ==
    /\ DOMAIN g.kind \subseteq Ids
    /\ g.active \subseteq DOMAIN g.kind
    /\ IsFiniteSet(g.edges)
    /\ \A e \in g.edges :
          /\ {e.from, e.to} \subseteq DOMAIN g.kind
          /\ e.cost \in Int
          /\ e.capacity \in Nat
=============================================================================
