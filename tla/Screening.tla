------------------------------ MODULE Screening ------------------------------
(***************************************************************************)
(* The screening tier, src/src/lib/screen.js: one pass of arithmetic per   *)
(* candidate in front of the model, and the bridge that makes a candidate  *)
(* of a deal.  A figure the candidate does not carry, or carries in a      *)
(* shape that cannot be read, is Unknown.  House is what propertyTypes,    *)
(* constructionTypes, firmDefaults and markets answer for the candidate's  *)
(* types and place.  Confidence, the band and the ranking are left out.    *)
(***************************************************************************)
EXTENDS DealModel

Known(value, fallback) == IF value = Unknown THEN fallback ELSE value

\* costLoadFactor, in parts of Scale * Scale.
CostLoad(house) == (Scale + house.soft) * (Scale + house.contingency)

\* grossPotentialRevenue: by the type's own basis first, then whatever is there.
GrossPotential(c, house) ==
    LET by == [unit |-> IF c.perUnit # Unknown /\ c.units # Unknown THEN c.perUnit * c.units ELSE Unknown,
               psf |-> IF c.perArea # Unknown /\ c.area # Unknown THEN c.perArea * c.area ELSE Unknown,
               site |-> c.annual]
    IN IF by[house.basis] # Unknown THEN by[house.basis]
       ELSE Known(by.unit, Known(by.psf, by.site))

\* The land is taxed while it is built on, where no renovation statement is.
ScreenCarry(c, house) ==
    IF house.inPlace \/ c.asking = Unknown THEN 0 ELSE Part(c.asking, house.tax) * house.build

\* The price and the loaded budget; an assessment only where neither is known.
\* A basis of nothing is a price nobody supplied.
ScreenBasis(c, house) ==
    LET plan == Known(c.asking, 0) + (Known(c.budget, 0) * CostLoad(house)) \div (Scale * Scale)
                + Known(c.fees, 0) + ScreenCarry(c, house)
        basis == IF c.asking = Unknown /\ c.budget = Unknown THEN c.assessed ELSE plan
    IN IF basis # Unknown /\ basis > 0 THEN basis ELSE Unknown

\* An assessment of what still has capital to come is not of what is screened.
TaxBase(c, house) ==
    IF c.assessed # Unknown /\ ~(c.budget # Unknown /\ c.budget > 0) THEN c.assessed
    ELSE ScreenBasis(c, house)

ScreenOcc(c, house) == Most(1, Known(c.occ, house.occ))

\* Mutant: the whole budget falls with the candidate's own occupancy.
ScreenOpex_OfIncome(full, occ, house) == Part(full, occ)

\* The fixed part at the house's occupancy, as the model has it.
ScreenOpex(full, occ, house) ==
    (full * ((Scale - house.variable) * house.occ + house.variable * occ)) \div (Scale * Scale)

\* One pass: Unknown wherever a line of it is.
EstimatedNOI(c, house) ==
    LET gross == GrossPotential(c, house)
        base == TaxBase(c, house)
        occ == ScreenOcc(c, house)
        opex == ScreenOpex(Part(gross, Known(c.opex, house.opex)), occ, house)
        tax == Part(base, Known(c.tax, house.tax)) * MonthsPerYear
        recoveries == Part(Part(opex + tax, Known(c.recovery, house.recovery)), occ)
    IN IF Unknown \in {gross, base, house.reserve} THEN Unknown
       ELSE Part(gross, occ) + recoveries - opex - tax - house.reserve

\* screeningCandidateFromDeal: the budget goes over as hard cost and the rent
\* as what the type quotes; an assessment does not go over at all.
CandidateFrom(d) ==
    LET yearly == d.revenue * MonthsPerYear
        quoted(basis, value) == IF d.basis = basis THEN value ELSE Unknown
    IN [perUnit |-> quoted("unit", yearly \div d.size), units |-> quoted("unit", d.size),
        perArea |-> quoted("psf", yearly \div d.size), area |-> quoted("psf", d.size),
        annual |-> quoted("site", yearly),
        asking |-> d.land, budget |-> d.hard, fees |-> d.fees, assessed |-> Unknown,
        occ |-> d.occ, opex |-> d.opex, tax |-> d.tax, recovery |-> d.recovery]

HouseOf(d) ==
    [basis |-> d.basis, soft |-> d.soft, contingency |-> d.contingency, inPlace |-> d.inPlace,
     build |-> d.build, tax |-> d.tax, occ |-> d.houseOcc, opex |-> d.opex, variable |-> d.variable,
     recovery |-> d.recovery, reserve |-> d.reserve * MonthsPerYear]
=============================================================================
