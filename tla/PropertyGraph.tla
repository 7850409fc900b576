--------------------------- MODULE PropertyGraph ---------------------------
(***************************************************************************)
(* The property graph of the pipeline's canonical layer                    *)
(* (src/src/pipeline/graph.js), as operators on graph values.              *)
(*                                                                         *)
(* A graph holds the type of each node it knows and its edges in the order *)
(* they were added, which is the order every walk meets them in.  Props    *)
(* are left out: adding a node or an edge again merges them and changes    *)
(* nothing else.                                                           *)
(***************************************************************************)
EXTENDS Naturals, Sequences, SequencesExt

NODE_TYPES == {"Parcel", "Building", "Entity", "Person", "Jurisdiction", "Metro"}
EDGE_TYPES == {"located_in", "owned_by", "controlled_by", "principal_of", "taxed_by"}

EmptyGraph == [nodes |-> <<>>, edges |-> <<>>]
Knows(g, id) == id \in DOMAIN g.nodes
Edge(from, type, to) == [from |-> from, type |-> type, to |-> to]

\* addNode of an id held under another type throws; of one held under its own, upserts.
AddNode(g, id, type) ==
  [g EXCEPT !.nodes = [x \in DOMAIN @ \cup {id} |-> IF x \in DOMAIN @ THEN @[x] ELSE type]]

\* addEdge throws unless both ends are known, and is idempotent on (from, to, type).
AddEdge(g, e) ==
  IF e \in ToSet(g.edges) THEN g ELSE [g EXCEPT !.edges = Append(@, e)]

Near(e, direction) == IF direction = "out" THEN e.from ELSE e.to
Far(e, direction) == IF direction = "out" THEN e.to ELSE e.from

EdgesAt(g, ids, types, direction) ==
  {e \in ToSet(g.edges) : e.type \in types /\ Near(e, direction) \in ids}

\* In the order they were added.
EdgesOf(g, id, types, direction) ==
  SelectSeq(g.edges, LAMBDA e : e \in EdgesAt(g, {id}, types, direction))

OtherEnds(g, ids, types, direction) ==
  {Far(e, direction) : e \in EdgesAt(g, ids, types, direction)}

\* The ids within each distance of start, breadth first.
Ball(g, start, types, direction, maxDepth) ==
  LET within[d \in 0..maxDepth] ==
        IF d = 0 THEN {start}
        ELSE LET nearer == within[d - 1]
             IN nearer \cup OtherEnds(g, nearer, types, direction)
  IN within

\* What traverse answers: every other id within maxDepth and its distance.
Traverse(g, start, types, direction, maxDepth) ==
  IF ~Knows(g, start) THEN <<>>
  ELSE LET within == Ball(g, start, types, direction, maxDepth)
       IN [id \in within[maxDepth] \ {start} |->
            CHOOSE d \in 1..maxDepth : id \in within[d] \ within[d - 1]]

Controllers(g, entity) == EdgesAt(g, {entity}, {"controlled_by"}, "out")

\* The owners nothing else controls, with their distance from the parcel.
BeneficialOwners(g, parcel, maxDepth) ==
  LET reached == Traverse(g, parcel, {"owned_by", "controlled_by"}, "out", maxDepth)
      owners == {id \in DOMAIN reached : g.nodes[id] = "Entity" /\ Controllers(g, id) = {}}
  IN [id \in owners |-> reached[id]]

\* Mutant: what the entity holds itself is left out.
PortfolioOf_Indirect(g, entity, maxDepth) ==
  OtherEnds(g, DOMAIN Traverse(g, entity, {"controlled_by"}, "in", maxDepth), {"owned_by"}, "in")

\* The parcels an entity holds itself or through anything it controls.
PortfolioOf(g, entity, maxDepth) ==
  LET controlled == DOMAIN Traverse(g, entity, {"controlled_by"}, "in", maxDepth)
  IN OtherEnds(g, controlled \cup {entity}, {"owned_by"}, "in")

Upward(g, entity, maxDepth) ==
  {entity} \cup DOMAIN Traverse(g, entity, {"controlled_by"}, "out", maxDepth)

\* Two entities share an owner: their deals are no comparable for each other.
RelatedParty(g, a, b, maxDepth) ==
  a = b \/ Upward(g, a, maxDepth) \cap Upward(g, b, maxDepth) # {}
=============================================================================
