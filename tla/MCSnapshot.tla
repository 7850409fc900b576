----------------------------- MODULE MCSnapshot -----------------------------
(* Snapshot on small instances.                                            *)
EXTENDS Snapshot, TLC
CONSTANTS p1, p2

Content(nodes, edges, facts) == [graph |-> [nodes |-> nodes, edges |-> edges], facts |-> facts]
Observed(subject, recorded) ==
  [subject |-> subject, predicate |-> "rate", value |-> 1, from |-> 0, to |-> Forever, recorded |-> recorded]

MCIds == {"a", "b", "c", "m"}
MCRows == {Observed(subject, recorded) : subject \in MCIds, recorded \in {0, 1, NoInstant}}

\* The two runs disagree about what a is; each learns something of its own and something both do.
MCHarvest(p) ==
  IF p = p1
  THEN Content("a" :> "Parcel" @@ "c" :> "Entity", <<Edge("a", "owned_by", "c")>>,
               <<Observed("a", 1), Observed("m", 1)>>)
  ELSE Content("a" :> "Building" @@ "b" :> "Metro", <<Edge("a", "located_in", "b")>>,
               <<Observed("m", 1), Observed("b", 1)>>)

Old == Content("m" :> "Metro", <<>>, <<Observed("m", 0)>>)
MCSeeded == {NoRaw, Raw("v1", Old), Raw("newer", Old), Raw("edited", Old),
             Raw("v1", [Old EXCEPT !.facts[1].recorded = NoInstant])}
=============================================================================
