--------------------------- MODULE CanonicalLayer ---------------------------
(***************************************************************************)
(* The canonical layer of the pipeline, one graph and one fact store       *)
(* (src/src/pipeline/graph.js, temporal.js), as runs fill it and readers   *)
(* question it.                                                            *)
(*                                                                         *)
(* A run stamps its whole batch with one reading of the clock              *)
(* (stages.js canonicalize), a snapshot written elsewhere brings its facts *)
(* with the clocks they have (persist.js mergeInto), and a committee pins  *)
(* what it was told.  All facts are about one subject and predicate.       *)
(***************************************************************************)
EXTENDS PropertyGraph, FactStore, FiniteSets

CONSTANTS
  Parcels, Entities,
  Values, Windows,    \* windows: <<from, to>>
  Moments,            \* instants a reader asks about
  MaxClock, MaxFacts, MaxEdges, MaxDepth

ASSUME LayerAssumption == MaxDepth \in Nat \ {0} /\ Parcels \cap Entities = {}

VARIABLES
  graph,
  facts,
  clock,      \* transaction time
  decision    \* what was answered, when, about which moment; overtaken: see Learn

layerVars == <<graph, facts, clock, decision>>

Undecided == [validAt |-> 0, knownAt |-> 0, answer |-> NoFact, overtaken |-> FALSE]

Fact(value, window, recorded) ==
  [subject |-> "metro", predicate |-> "rate", value |-> value,
   from |-> window[1], to |-> window[2], recorded |-> recorded]

Ask(store, validAt, knownAt) == Get(store, "metro", "rate", validAt, knownAt)

LayerInit ==
  /\ graph = [EmptyGraph EXCEPT !.nodes = [p \in Parcels |-> "Parcel"]]
  /\ facts = <<>>
  /\ clock = 1
  /\ decision = Undecided

\* A fact known at or before a pinned moment arrives after the pinning.
Learn(f) ==
  /\ Len(facts) < MaxFacts
  /\ facts' = AssertFact(facts, f)
  /\ decision' = [decision EXCEPT !.overtaken = @ \/ f.recorded <= decision.knownAt]
  /\ UNCHANGED <<graph, clock>>

\* One fact of the batch a run records now.
Ingest == \E v \in Values, w \in Windows : Learn(Fact(v, w, clock))

\* mergeInto appends a fact of another store, unless one equal in every field is held.
MergeIn ==
  \E v \in Values, w \in Windows, r \in 1..clock - 1 :
    /\ Fact(v, w, r) \notin ToSet(facts)
    /\ Learn(Fact(v, w, r))

Tick == clock < MaxClock /\ clock' = clock + 1 /\ UNCHANGED <<graph, facts, decision>>

\* A committee is answered with the best knowledge of the moment.
Decide ==
  /\ decision = Undecided
  /\ \E m \in Moments :
       decision' = [validAt |-> m, knownAt |-> clock, answer |-> Ask(facts, m, clock), overtaken |-> FALSE]
  /\ UNCHANGED <<graph, facts, clock>>

Connect(e) ==
  /\ Len(graph.edges) < MaxEdges
  /\ graph' = AddEdge(AddNode(graph, e.to, "Entity"), e)
  /\ UNCHANGED <<facts, clock, decision>>

Own == \E p \in Parcels, e \in Entities : Connect(Edge(p, "owned_by", e))
Control ==
  \E a, b \in Entities : a # b /\ Knows(graph, a) /\ Connect(Edge(a, "controlled_by", b))

LayerNext == Ingest \/ MergeIn \/ Tick \/ Decide \/ Own \/ Control

LayerSpec == LayerInit /\ [][LayerNext]_layerVars
-----------------------------------------------------------------------------
\* What was answered is what the pinned clocks answer for ever, whatever runs
\* learn later: only a fact stamped no later than the pin can change it.
\* temporal.js: "what did the model see when the committee approved this deal?"
PastAnswersStand ==
  \/ decision = Undecided \/ decision.overtaken
  \/ Ask(facts, decision.validAt, decision.knownAt) = decision.answer

\* The ways ownership is read agree: an ultimate owner named for a parcel has it
\* in its portfolio, one whose portfolio has the parcel is named for it unless it
\* stands one level further than owners are looked for, and whoever's portfolio
\* has it is a party related to an owner of record.
OwnersAndPortfoliosAgree ==
  \A p \in Parcels : LET owners == BeneficialOwners(graph, p, MaxDepth) IN
    \A e \in Entities \cap DOMAIN graph.nodes :
      LET holds == p \in PortfolioOf(graph, e, MaxDepth)
          distance == Traverse(graph, p, {"owned_by", "controlled_by"}, "out", MaxDepth + 1)
      IN /\ e \in DOMAIN owners => holds
         /\ holds /\ Controllers(graph, e) = {}
              => e \in DOMAIN owners \/ distance[e] = MaxDepth + 1
         /\ holds => \E o \in OtherEnds(graph, {p}, {"owned_by"}, "out") :
                        RelatedParty(graph, o, e, MaxDepth)
=============================================================================
