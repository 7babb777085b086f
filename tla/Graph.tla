------------------------------- MODULE Graph -------------------------------
(***************************************************************************)
(* The knowledge graph.  After the homepage is chosen a crawl extracts     *)
(* nodes and edges from it and upserts them one call at a time, the nodes  *)
(* first; a call that fails is logged and the next one sent.  A reader     *)
(* gathers a neighbourhood by several queries, while a crawl may write.    *)
(* Nothing deletes a node or an edge.                                      *)
(***************************************************************************)
EXTENDS Integers, FiniteSets, FiniteSetsExt

CONSTANTS
  Story, Node, Edge,
  Ends,        \* [Edge -> {node, node}]
  Names,       \* [Story -> SUBSET Node]: entities that are no stop nodes
  Tells,       \* [Story -> SUBSET Edge], between entities it names
  Category,    \* [Node -> category]
  MaxWeight,   \* bound on the weights kept apart
  Limit        \* edges of an answer

(* What the configurations keep to. *)
GraphAssumption ==
  /\ IsFiniteSet(Story) /\ IsFiniteSet(Edge)
  /\ \A e \in Edge : Ends[e] \subseteq Node /\ Ends[e] # {}
  /\ \A s \in Story : /\ Names[s] \subseteq Node /\ Tells[s] \subseteq Edge
                      /\ \A e \in Tells[s] : Ends[e] \subseteq Names[s]
  /\ MaxWeight \in Nat \ {0} /\ Limit \in Nat

VARIABLES
  nodes,     \* graph_nodes
  weight,    \* graph_edges: [Edge -> Nat], 0 if absent
  told,      \* the homepage the pass extracts from
  unsent,    \* [nodes, edges]: upserts still to send
  missed,    \* a call of this pass failed
  reader     \* [step, center, filter, nodes, edges]

graphVars == <<nodes, weight, told, unsent, missed, reader>>

NothingUnsent == [nodes |-> {}, edges |-> {}]
NoReader == [step |-> "idle"]

GraphInit ==
  /\ nodes = {} /\ weight = [e \in Edge |-> 0]
  /\ told = {} /\ unsent = NothingUnsent /\ missed = FALSE
  /\ reader = NoReader

-----------------------------------------------------------------------------
(* extractTripletsFromClusters.                                            *)
Extracted(front) == [nodes |-> UNION {Names[s] : s \in front},
                     edges |-> UNION {Tells[s] : s \in front}]

ExtractTriplets ==
  /\ unsent = NothingUnsent
  /\ told' \in SUBSET Story \ {{}}
  /\ unsent' = Extracted(told')
  /\ missed' = FALSE
  /\ UNCHANGED <<nodes, weight, reader>>

NodesFirst(due) == IF due.nodes # {} THEN "node" ELSE "edge"

WriteNode(n) ==
  /\ NodesFirst(unsent) = "node" /\ n \in unsent.nodes
  /\ nodes' = nodes \cup {n}
  /\ unsent' = [unsent EXCEPT !.nodes = @ \ {n}]
  /\ UNCHANGED <<weight, told, missed, reader>>

MissNode(n) ==
  /\ NodesFirst(unsent) = "node" /\ n \in unsent.nodes
  /\ unsent' = [unsent EXCEPT !.nodes = @ \ {n}] /\ missed' = TRUE
  /\ UNCHANGED <<nodes, weight, told, reader>>

(* An edge without its nodes is refused by the foreign keys; one there     *)
(* already gains the weight of this crawl's stories.                       *)
HasEnds(e) == Ends[e] \subseteq nodes
Gain(e) == Cardinality({s \in told : e \in Tells[s]})

WriteEdge(e) ==
  /\ NodesFirst(unsent) = "edge" /\ e \in unsent.edges
  /\ HasEnds(e)
  /\ weight' = [weight EXCEPT ![e] = IF @ + Gain(e) < MaxWeight THEN @ + Gain(e) ELSE MaxWeight]
  /\ unsent' = [unsent EXCEPT !.edges = @ \ {e}]
  /\ UNCHANGED <<nodes, told, missed, reader>>

RefuseEdge(e) ==
  /\ NodesFirst(unsent) = "edge" /\ e \in unsent.edges
  /\ ~HasEnds(e)
  /\ unsent' = [unsent EXCEPT !.edges = @ \ {e}]
  /\ UNCHANGED <<nodes, weight, told, missed, reader>>

MissEdge(e) ==
  /\ NodesFirst(unsent) = "edge" /\ e \in unsent.edges
  /\ unsent' = [unsent EXCEPT !.edges = @ \ {e}] /\ missed' = TRUE
  /\ UNCHANGED <<nodes, weight, told, reader>>

-----------------------------------------------------------------------------
(***************************************************************************)
(* handleGetSubgraph around a node: the node, its edges, the edges of its  *)
(* neighbours up to the limit, then the nodes of all of them.  The second  *)
(* query does not leave out the edges already held.                        *)
(***************************************************************************)
Present == {e \in Edge : weight[e] > 0}
Touching(ns) == {e \in Present : Ends[e] \cap ns # {}}
EndsOf(es) == UNION {Ends[e] : e \in es}

(* ORDER BY weight DESC LIMIT: the sets of edges the query may return.     *)
Heaviest(es, k) ==
  IF Cardinality(es) <= k THEN {es}
  ELSE {top \in kSubset(k, es) : \A e \in top, f \in es \ top : weight[e] >= weight[f]}

ReadCenter(n, filter) ==
  /\ reader = NoReader
  /\ n \in nodes
  /\ reader' = [step |-> "hop1", center |-> n, filter |-> filter, nodes |-> {}, edges |-> {}]
  /\ UNCHANGED <<nodes, weight, told, unsent, missed>>

Hop1 ==
  /\ reader.step = "hop1"
  /\ \E es \in Heaviest(Touching({reader.center}), Limit) :
       reader' = [reader EXCEPT !.edges = es,
                    !.step = IF es # {} /\ Cardinality(es) < Limit THEN "hop2" ELSE "nodes"]
  /\ UNCHANGED <<nodes, weight, told, unsent, missed>>

Hop2 ==
  /\ reader.step = "hop2"
  /\ LET near == EndsOf(reader.edges) \ {reader.center}
     IN \E es \in Heaviest(Touching(near), Limit - Cardinality(reader.edges)) :
          reader' = [reader EXCEPT !.edges = @ \cup es, !.step = "nodes"]
  /\ UNCHANGED <<nodes, weight, told, unsent, missed>>

Allowed(ns, filter) == {n \in ns : filter = "all" \/ Category[n] = filter}

Kept(es, ns) == {e \in es : Ends[e] \subseteq ns}

ReadNodes ==
  /\ reader.step = "nodes"
  /\ LET ns == Allowed((EndsOf(reader.edges) \cup {reader.center}) \cap nodes, reader.filter)
     IN reader' = [reader EXCEPT !.nodes = ns, !.step = "shown",
                     !.edges = IF reader.filter = "all" THEN @ ELSE Kept(@, ns)]
  /\ UNCHANGED <<nodes, weight, told, unsent, missed>>

Leave ==
  /\ reader.step = "shown"
  /\ reader' = NoReader
  /\ UNCHANGED <<nodes, weight, told, unsent, missed>>

GraphNext ==
  \/ ExtractTriplets
  \/ \E n \in Node : WriteNode(n)
  \/ \E n \in Node : MissNode(n)
  \/ \E e \in Edge : WriteEdge(e)
  \/ \E e \in Edge : RefuseEdge(e)
  \/ \E e \in Edge : MissEdge(e)
  \/ \E n \in Node, f \in {"all"} \cup {Category[m] : m \in Node} : ReadCenter(n, f)
  \/ Hop1 \/ Hop2 \/ ReadNodes \/ Leave

GraphSpec == GraphInit /\ [][GraphNext]_graphVars

-----------------------------------------------------------------------------
(* A pass whose calls all succeed leaves everything the homepage tells in  *)
(* the graph, whatever earlier passes missed (graphSync.ts:31-63).         *)
GraphHoldsHomepage ==
  (unsent = NothingUnsent /\ ~missed) =>
    /\ Extracted(told).nodes \subseteq nodes
    /\ Extracted(told).edges \subseteq Present

(* An answer holds both ends of each of its edges, and none further than   *)
(* two hops, though a crawl writes between its queries                     *)
(* (graphQueryHandler.ts:94-180).                                          *)
AnswerIsClosed ==
  reader.step = "shown" =>
    /\ EndsOf(reader.edges) \subseteq reader.nodes
    /\ Cardinality(reader.edges) <= Limit
    /\ reader.edges \subseteq Touching(EndsOf(Touching({reader.center})))
=============================================================================
