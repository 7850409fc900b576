------------------------------- MODULE Stages -------------------------------
(***************************************************************************)
(* From landed payloads to a graph, facts and the features of the markets  *)
(* (src/src/pipeline/stages.js, project.js and the parsers of sources.js), *)
(* as operators.                                                           *)
(*                                                                         *)
(* A payload is a sequence of rows, Hole for one that is null, or Unusable *)
(* as a whole; a value the source withholds is Null.  Instants are months. *)
(***************************************************************************)
EXTENDS PropertyGraph, FactStore, Resolution

CONSTANTS
  Null, Hole, Unusable, NoYear,
  MarketOfGeo(_), MarketOfCounty(_), NoMarket,
  PriorPopulation

January(year) == IF year = NoYear THEN NoInstant ELSE 12 * year
Metro(market) == <<"metro", market>>
Jurisdiction(county) == <<"jurisdiction", county>>
Parcel(account) == <<"parcel", account>>
-----------------------------------------------------------------------------
\* Rows a parser refuses fail its batch; a null row fails the run.
RefusedRow(source, row) ==
  CASE source = "census" -> row.geo = Null
    [] source = "roll" -> row.account = Null \/ row.year = NoYear
    [] OTHER -> FALSE

\* Traffic without a count and BLS averages over a year are left out.
KeptRow(source, row) ==
  CASE source = "traffic" -> row.aadt # Null
    [] source = "employment" -> row.month # Null
    [] OTHER -> TRUE

Refused(source, row) == row # Hole /\ RefusedRow(source, row)

\* Rows are read in order: a refused one before the hole fails the batch alone.
MeetsHole(source, payload) ==
  payload # Unusable /\ \E i \in 1..Len(payload) :
    payload[i] = Hole /\ \A j \in 1..i - 1 : ~Refused(source, payload[j])

Stage(source, payload) ==
  IF payload = Unusable \/ \E row \in ToSet(payload) : Refused(source, row)
  THEN <<>> ELSE SelectSeq(payload, LAMBDA row : KeptRow(source, row))

Fact(subject, predicate, value, from, to, recorded) ==
  [subject |-> subject, predicate |-> predicate, value |-> value,
   from |-> from, to |-> to, recorded |-> recorded]

\* The different members of a sequence, in the order they are met first.
Firsts(keys) ==
  LET new == SelectSeq([i \in 1..Len(keys) |-> i], LAMBDA i : \A j \in 1..i - 1 : keys[j] # keys[i])
  IN [k \in 1..Len(new) |-> keys[new[k]]]

\* Mutant: of two rates as common, the one met first.
ModalRate_First(rates) ==
  LET charged(r) == Cardinality({i \in 1..Len(rates) : rates[i] = r})
  IN FoldLeft(LAMBDA best, r : IF charged(r) > charged(best) THEN r ELSE best, rates[1], rates)

\* The rate most parcels are charged, the higher of two as common.
ModalRate(rates) ==
  LET charged(r) == Cardinality({i \in 1..Len(rates) : rates[i] = r})
  IN CHOOSE r \in ToSet(rates) :
       \A s \in ToSet(rates) : charged(r) > charged(s) \/ (charged(r) = charged(s) /\ r >= s)

\* Mutant: the mean of the stations.
RepresentativeTraffic_Mean(stations) ==
  [stations[1] EXCEPT !.aadt = FoldLeft(LAMBDA sum, s : sum + s.aadt, 0, stations) \div Len(stations)]

\* A count some station measured: the lower of the two middle ones.
RepresentativeTraffic(stations) ==
  LET sorted == SortSeq(stations, LAMBDA s, t : s.aadt < t.aadt \/ (s.aadt = t.aadt /\ s.station < t.station))
  IN sorted[((Len(stations) - 1) \div 2) + 1]

Into(layer, node, type) == [layer EXCEPT !.graph = AddNode(@, node, type)]
Linked(layer, from, type, to) == [layer EXCEPT !.graph = AddEdge(@, Edge(from, type, to))]
Learnt(layer, fact) == [layer EXCEPT !.facts = AssertFact(@, fact)]

CensusRow(layer, r, at) ==
  LET metro == Metro(MarketOfGeo(r.geo))
      placed == Into(layer, metro, "Metro")
  IN IF MarketOfGeo(r.geo) = NoMarket THEN layer
     ELSE IF r.population = Null THEN placed
     ELSE Learnt(placed, Fact(metro, "population", r.population,
                              January(r.vintage), January(r.vintage + 1), at))

\* A withheld month is a fact whose value is Null.
EmploymentRow(layer, r, market, at) ==
  Learnt(Into(layer, Metro(market), "Metro"),
         Fact(Metro(market), "employment", r.value, r.month, Forever, at))

RollRow(layer, r) ==
  LET parcel == Parcel(r.account)
      market == MarketOfCounty(r.county)
      known == Into(layer, parcel, "Parcel")
      sited == IF market = NoMarket THEN known
               ELSE Linked(Into(known, Metro(market), "Metro"), parcel, "located_in", Metro(market))
      taxed == IF r.rate = Null THEN sited
               ELSE Linked(Into(sited, Jurisdiction(r.county), "Jurisdiction"),
                           parcel, "taxed_by", Jurisdiction(r.county))
  IN IF r.owner = Null THEN taxed
     ELSE [taxed EXCEPT !.owners = @ \cup {[parcel |-> parcel, name |-> r.owner, address |-> r.address]}]

\* One rate for a jurisdiction and year, from the whole batch.
Taxes(layer, rows, at) ==
  LET rated == SelectSeq(rows, LAMBDA r : r.rate # Null)
      rates(key) == [i \in 1..Len(rated) |-> IF <<rated[i].county, rated[i].year>> = key
                                             THEN <<rated[i].rate>> ELSE <<>>]
  IN FoldLeft(LAMBDA l, key : Learnt(l, Fact(Jurisdiction(key[1]), "effectiveTaxRate",
                                             ModalRate(FlattenSeq(rates(key))),
                                             January(key[2]), January(key[2] + 1), at)),
              layer, Firsts([i \in 1..Len(rated) |-> <<rated[i].county, rated[i].year>>]))

Traffic(layer, rows, market, at) ==
  LET of(year) == SelectSeq(rows, LAMBDA r : r.year = year)
      placed == IF rows = <<>> THEN layer ELSE Into(layer, Metro(market), "Metro")
  IN FoldLeft(LAMBDA l, year : Learnt(l, Fact(Metro(market), "trafficCount",
                                              RepresentativeTraffic(of(year)).aadt,
                                              January(year), January(year + 1), at)),
              placed, Firsts([i \in 1..Len(rows) |-> rows[i].year]))

BatchInto(layer, batch, at) ==
  LET rows == batch.rows IN
  CASE batch.source = "census" -> FoldLeft(LAMBDA l, r : CensusRow(l, r, at), layer, rows)
    [] batch.source = "employment" ->
         IF batch.market = NoMarket THEN layer
         ELSE FoldLeft(LAMBDA l, r : EmploymentRow(l, r, batch.market, at), layer, rows)
    [] batch.source = "roll" -> Taxes(FoldLeft(RollRow, layer, rows), rows, at)
    [] batch.source = "traffic" ->
         IF batch.market = NoMarket THEN layer ELSE Traffic(layer, rows, batch.market, at)

EntityNode(name) == <<"entity">> \o Core(name)

\* An Entity node for each cluster, named by the core of its canonical name.
Owners(layer) ==
  LET node(cluster) == EntityNode(CanonicalName(cluster))
      clusters == SetToSeq(Clusters(layer.owners))
      parcels(cluster) == SetToSeq({r.parcel : r \in cluster})
  IN FoldLeft(LAMBDA l, c : FoldLeft(LAMBDA m, p : Linked(m, p, "owned_by", node(c)),
                                     Into(l, node(c), "Entity"), parcels(c)),
              layer, clusters)

Canonicalize(batches, at) ==
  Owners(FoldLeft(LAMBDA l, b : BatchInto(l, b, at),
                  [graph |-> EmptyGraph, facts |-> <<>>, owners |-> {}], batches))

\* What the parsers and the fact store let through as an exception: the run is lost.
Throws(landed) ==
  \E l \in ToSet(landed) :
    \/ MeetsHole(l.source, l.payload)
    \/ /\ l.source = "traffic" /\ l.market # NoMarket
       /\ \E r \in ToSet(Stage("traffic", l.payload)) : r.year = NoYear

Batches(landed) ==
  [i \in 1..Len(landed) |-> [source |-> landed[i].source, market |-> landed[i].market,
                             rows |-> Stage(landed[i].source, landed[i].payload)]]
-----------------------------------------------------------------------------
FEATURES == {"effectiveTaxRate", "population", "popGrowth5y", "employmentGrowth",
             "medianHHI", "supplyPipeline", "rentGrowth", "trafficCount", "marketCapRate"}

\* The first jurisdiction taxing a parcel of the metro that has a rate.
TaxRate(layer, metro, validAt, knownAt) ==
  LET parcels == EdgesOf(layer.graph, metro, {"located_in"}, "in")
      taxing == FlattenSeq([i \in 1..Len(parcels) |->
                              EdgesOf(layer.graph, parcels[i].from, {"taxed_by"}, "out")])
      answers == SelectSeq([i \in 1..Len(taxing) |->
                              Get(layer.facts, taxing[i].to, "effectiveTaxRate", validAt, knownAt)],
                           LAMBDA i : i # NoFact)
  IN IF answers = <<>> THEN Null ELSE layer.facts[answers[1]].value

\* In hundredths of a per cent, a withheld month counting as nought; neither clock is asked.
EmploymentGrowth(layer, metro) ==
  LET series == SelectSeq(layer.facts, LAMBDA f : About(f, metro, "employment"))
      latest == FoldLeft(LAMBDA m, f : IF f.from >= m.from THEN f ELSE m, series[1], series)
      prior == SelectSeq(series, LAMBDA f : f.from = latest.from - 12)
      base == prior[1].value
      now == IF latest.value = Null THEN 0 ELSE latest.value
  IN IF Len(series) < 2 \/ prior = <<>> THEN Null
     ELSE IF base \in {Null, 0} THEN Null
     ELSE ((now - base) * 10000) \div base

\* The value a source backs, or Null: growth is told by the two populations.
LookupFeature(layer, market, feature, validAt, knownAt) ==
  LET metro == Metro(market)
      i == Get(layer.facts, metro, IF feature = "popGrowth5y" THEN "population" ELSE feature,
               validAt, knownAt)
  IN CASE feature = "effectiveTaxRate" -> TaxRate(layer, metro, validAt, knownAt)
       [] feature = "employmentGrowth" -> EmploymentGrowth(layer, metro)
       [] feature = "popGrowth5y" -> IF i = NoFact \/ PriorPopulation = Null THEN Null
                                     ELSE <<PriorPopulation, layer.facts[i].value>>
       [] OTHER -> IF i = NoFact THEN Null ELSE layer.facts[i].value

\* Null keeps the seed value and its warning.
ProjectMarket(layer, market, validAt, knownAt) ==
  [f \in FEATURES |-> LookupFeature(layer, market, f, validAt, knownAt)]
=============================================================================
