-------------------------------- MODULE BuyBox --------------------------------
(***************************************************************************)
(* A rent roll keyed in bay by bay and tested against a written list of    *)
(* criteria: src/src/lib/rentRoll.js and src/src/lib/buyBox.js.  Money is  *)
(* thousands, shares are per cent, and a lease runs to a whole year        *)
(* counted from the day of the analysis.  A figure nobody keyed in, and    *)
(* the code's null, is Unknown.                                            *)
(***************************************************************************)
EXTENDS Money

CONSTANTS
    Bays,        \* bays that may be keyed in
    MaxBays,
    Headers,     \* header records of the deals tested
    Criteria,    \* [key, severity, min, max] of the box
    Vacant       \* no tenant

VARIABLES
    roll,    \* the bays keyed in so far
    header   \* the deal record beside the roll

\* A bay without a tenant is Vacant, so that every bay says which; areas and
\* rents are not negative.
ASSUME BaysAssumption ==
    \A bay \in Bays : bay.tenant # Unknown /\ {bay.area, bay.rent} \subseteq Counts

Percent(part, whole) == (part * 100) \div whole

\* Bays are picked by their places on the roll.
Keyed(bays, field) == {i \in DOMAIN bays : bays[i][field] # Unknown}
SumOver(bays, picked, amount(_)) == Total([i \in DOMAIN bays |-> IF i \in picked THEN amount(bays[i]) ELSE 0])

----------------------------------------------------------------------------
(* analyseRentRoll *)

IsVacant(bay) == bay.tenant = Vacant
Occupied(bays) == {i \in DOMAIN bays : ~IsVacant(bays[i])}
WithRent(bays) == Occupied(bays) \cap Keyed(bays, "rent")
AreaKnown(bays) == Keyed(bays, "area") # {}
AreaOf(bays, picked) == SumOver(bays, picked \cap Keyed(bays, "area"), LAMBDA b : b.area)
TotalArea(bays) == AreaOf(bays, DOMAIN bays)

\* By area and not by bays.
OccupancyPct(bays) ==
    IF TotalArea(bays) = 0 THEN Unknown ELSE Percent(AreaOf(bays, Occupied(bays)), TotalArea(bays))

RentOf(bays, picked) == SumOver(bays, picked \cap WithRent(bays), LAMBDA b : b.rent)
GrossRent(bays) == RentOf(bays, DOMAIN bays)
RentKnown(bays) == WithRent(bays) # {} /\ GrossRent(bays) > 0

\* The share of the rent that the bays picked pay.
RentShare(bays, picked) == IF RentKnown(bays) THEN Percent(RentOf(bays, picked), GrossRent(bays)) ELSE Unknown

\* One operator of three bays is one tenant.
LargestTenantShare(bays) ==
    LET held(name) == {i \in DOMAIN bays : bays[i].tenant = name}
    IN IF RentKnown(bays)
       THEN Percent(Max({RentOf(bays, held(bays[i].tenant)) : i \in WithRent(bays)}), GrossRent(bays))
       ELSE Unknown

\* Uncategorised rent is in the whole and in neither part.
RestaurantShare(bays) == RentShare(bays, {i \in DOMAIN bays : bays[i].category = "restaurant"})

\* Weighted by rent, over the leases that are dated; an expired one counts zero.
WaltYears(bays) ==
    LET dated == Keyed(bays, "end")
        weighted == SumOver(bays, dated \cap WithRent(bays), LAMBDA b : b.rent * Most(0, b.end))
    IN IF RentOf(bays, dated) > 0 THEN weighted \div RentOf(bays, dated) ELSE Unknown

\* Over the bays whose market rent and area are known.
RentVsMarket(bays) ==
    LET priced == {i \in WithRent(bays) \cap Keyed(bays, "market") \cap Keyed(bays, "area") : bays[i].area > 0}
        market == SumOver(bays, priced, LAMBDA b : (b.market * b.area) \div 1000)
    IN IF RentKnown(bays) /\ priced # {} /\ market > 0 THEN Percent(RentOf(bays, priced), market) - 100 ELSE Unknown

NetShare(bays) == RentShare(bays, {i \in DOMAIN bays : bays[i].net})

\* Revenue as if fully let, at the rent that is paid.
FullyLet(bays) ==
    LET leased == AreaOf(bays, WithRent(bays))
    IN IF leased > 0 THEN (GrossRent(bays) * TotalArea(bays)) \div leased ELSE Unknown

\* engineInputsFromRentRoll
EngineInputs(bays) ==
    IF WithRent(bays) = {} \/ ~AreaKnown(bays) THEN Unknown
    ELSE [revenue |-> FullyLet(bays),
          vacancy |-> IF OccupancyPct(bays) = Unknown THEN Unknown ELSE 100 - OccupancyPct(bays),
          recovery |-> NetShare(bays)]

----------------------------------------------------------------------------
(* measure and evaluate *)

Ratio(part, whole) == IF part = Unknown \/ whole = Unknown \/ whole = 0 THEN Unknown ELSE part \div whole

\* The roll wins where it disagrees with the header.
BuildingSize == IF roll # <<>> /\ AreaKnown(roll) THEN TotalArea(roll) ELSE header.area

Measured ==
    [buildingSize |-> BuildingSize,
     bayCount |-> IF roll # <<>> THEN Len(roll) ELSE header.bays,
     avgBay |-> IF roll # <<>> /\ AreaKnown(roll) THEN TotalArea(roll) \div Len(roll) ELSE Unknown,
     price |-> header.price,
     pricePSF |-> Ratio(IF header.price = Unknown THEN Unknown ELSE header.price * 1000, BuildingSize),
     yearBuilt |-> header.built,
     occupancy |-> IF roll # <<>> /\ OccupancyPct(roll) # Unknown THEN OccupancyPct(roll)
                   ELSE IF header.vacancy = Unknown THEN Unknown ELSE 100 - header.vacancy,
     largestTenant |-> LargestTenantShare(roll),
     restaurants |-> RestaurantShare(roll),
     walt |-> WaltYears(roll),
     rentVsMarket |-> RentVsMarket(roll)]

\* Mutant: what is not measured passes.
Test_UnknownPasses(criterion) ==
    LET value == Measured[criterion.key] IN
    IF value # Unknown /\ \/ criterion.min # Unknown /\ value < criterion.min
                          \/ criterion.max # Unknown /\ value > criterion.max
    THEN "fail" ELSE "pass"

Test(criterion) ==
    LET value == Measured[criterion.key] IN
    IF value = Unknown THEN "unknown"
    ELSE IF criterion.min # Unknown /\ value < criterion.min THEN "fail"
    ELSE IF criterion.max # Unknown /\ value > criterion.max THEN "fail"
    ELSE "pass"

Tested(outcome) == {c \in Criteria : Test(c) = outcome}

\* A hard failure outranks all; what is not measured outranks a pass.
Verdict ==
    IF \E c \in Tested("fail") : c.severity = "hard" THEN "fail"
    ELSE IF Tested("unknown") # {} THEN "incomplete"
    ELSE IF Tested("fail") # {} THEN "review"
    ELSE "pass"

----------------------------------------------------------------------------
NoRoll == roll = <<>> /\ header \in Headers

\* A bay is keyed in on the rent roll.
Key(bay) ==
    /\ Len(roll) < MaxBays
    /\ roll' = Append(roll, bay)
    /\ UNCHANGED header

RollSpec == NoRoll /\ [][\E bay \in Bays : Key(bay)]_<<roll, header>>

----------------------------------------------------------------------------
\* No pass on a test the deal has not taken: each criterion of a passing deal
\* rests on something keyed in for it.  The restaurant share is left out: the
\* code reads it as zero where no bay is categorised.
NothingPassesUnmeasured ==
    LET let(field) == \E i \in DOMAIN roll : /\ ~IsVacant(roll[i])
                                             /\ roll[i].rent # Unknown
                                             /\ roll[i][field] # Unknown
        keys == {c.key : c \in Criteria}
    IN Verdict = "pass" =>
           /\ {"price", "pricePSF"} \cap keys # {} => header.price # Unknown
           /\ "walt" \in keys => let("end")
           /\ "rentVsMarket" \in keys => let("market") /\ let("area")
           /\ "largestTenant" \in keys => let("tenant")
           /\ "occupancy" \in keys => AreaKnown(roll) \/ header.vacancy # Unknown
=============================================================================
