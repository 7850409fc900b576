--------------------------------- MODULE MCApp --------------------------------
(* Instances of App for TLC: two tabs; a year of two months, one asset in many *)
(* financings, three bays of a strip centre, and small series and curves.     *)
EXTENDS App, TLC

CONSTANTS Alma, Bo

Plain ==
    [land |-> 1000, hard |-> 800, soft |-> 10, contingency |-> 5, fees |-> 20,
     build |-> 3, hold |-> 4, inPlace |-> FALSE, let |-> 0,
     revenue |-> 150, occ |-> 92, houseOcc |-> 95, initialOcc |-> 0, leaseUp |-> 1,
     opex |-> 30, variable |-> 30, tax |-> 1, recovery |-> 0, reserve |-> 2,
     rentGrowth |-> 1, costGrowth |-> 1, assessGrowth |-> 1,
     down |-> 30, rate |-> 4, term |-> 12, interestOnly |-> 2,
     exitCap |-> 12, saleCost |-> 2, entryCap |-> 0, basis |-> "site", size |-> 1,
     sized |-> FALSE, maxLTC |-> 70, minDSCR |-> 125, minYield |-> 8]

\* Financings of the asset, from none of it borrowed to all of it.
Financings ==
    {[Plain EXCEPT !.down = d, !.rate = r, !.build = b, !.inPlace = i, !.let = 120] :
        d \in {0, 30, 100}, r \in {0, 4}, b \in {0, 3}, i \in BOOLEAN}

\* So dear and so long a build that the equity fixed point circles.
Circling ==
    {[Plain EXCEPT !.down = d, !.rate = 45, !.build = 6, !.term = 2, !.inPlace = i] :
        d \in {30, 70}, i \in BOOLEAN}

\* Loans sized to the box, with costs that outgrow the rent or a lease-up that
\* outlasts the hold.
Boxed ==
    {[Plain EXCEPT !.sized = TRUE, !.build = b, !.costGrowth = g, !.interestOnly = io,
                   !.revenue = v, !.leaseUp = l, !.hold = h] :
        b \in {0, 3}, g \in {0, 6}, io \in {0, 3}, v \in {90, 150, 260}, l \in {0, 3}, h \in {1, 4}}

Odd == {[Plain EXCEPT !.revenue = Unknown], [Plain EXCEPT !.hold = 0],
        [Plain EXCEPT !.sized = TRUE, !.maxLTC = -1, !.minDSCR = 0, !.minYield = 0],
        [Plain EXCEPT !.exitCap = 0, !.entryCap = 14]}

\* Let, ungrown and bought as they stand, however their rent is quoted.
Standing ==
    {[Plain EXCEPT !.build = 0, !.leaseUp = 0, !.rentGrowth = 0, !.costGrowth = 0, !.assessGrowth = 0,
                   !.basis = b, !.size = 10, !.occ = o, !.recovery = c] :
        b \in {"unit", "psf", "site"}, o \in {80, 95, 100}, c \in {0, 90}}

MCDeals == Financings \cup Circling \cup Boxed \cup Odd \cup Standing
MCRollDeals == {[Plain EXCEPT !.build = 0, !.leaseUp = 0]}

MCBox == [maxLTC |-> 70, minDSCR |-> 125, minYield |-> 8, minSpread |-> 1,
          maxBreakEven |-> 80, maxRentGrowth |-> 3]

Bay(tenant, area, rent, category, end, market) ==
    [tenant |-> tenant, area |-> area, rent |-> rent, category |-> category,
     end |-> end, market |-> market, net |-> category # "restaurant"]

MCBays == {Bay(Alma, 4000, 80, "salon", 4, 20), Bay(Alma, 2000, 60, Unknown, -1, Unknown),
           Bay(Bo, 3000, 70, "restaurant", 6, 25), Bay(Bo, Unknown, 50, "salon", 4, 20),
           Bay(Bo, 2000, Unknown, "salon", Unknown, Unknown), Bay(Vacant, 3000, Unknown, Unknown, Unknown, Unknown)}

MCHeaders == {[area |-> a, bays |-> 2, price |-> p, built |-> 1990, vacancy |-> v] :
                 a \in {Unknown, 9000}, p \in {Unknown, 1200}, v \in {Unknown, 10}}

Rule(key, severity, least, most) == [key |-> key, severity |-> severity, min |-> least, max |-> most]
MCCriteria == {Rule("buildingSize", "hard", 2000, 25000), Rule("bayCount", "hard", 1, 12),
               Rule("avgBay", "soft", 1200, 4000), Rule("price", "hard", 1000, 4000),
               Rule("pricePSF", "hard", 100, 700), Rule("yearBuilt", "hard", 1985, Unknown),
               Rule("occupancy", "hard", 60, 100), Rule("largestTenant", "hard", Unknown, 60),
               Rule("restaurants", "soft", Unknown, 60), Rule("walt", "hard", 3, Unknown),
               Rule("rentVsMarket", "soft", Unknown, 0)}

Catch(enabled, gp, target) == [enabled |-> enabled, gpShare |-> gp, target |-> target]
Tier(hurdle, gp) == [hurdle |-> hurdle, gpShare |-> gp]
Promote(pref, first, compounding, coInvest, catchUp, tiers) ==
    [pref |-> pref, capitalFirst |-> first, compounding |-> compounding,
     coInvest |-> coInvest, catchUp |-> catchUp, tiers |-> tiers]

Flat == <<Tier(NoHurdle, 20)>>
Rising == <<Tier(5, 20), Tier(10, 30), Tier(NoHurdle, 40)>>
Falling == <<Tier(10, 20), Tier(5, 30), Tier(NoHurdle, 40)>>

\* Every tier stack and catch-up, capital first and last; one out of order.
MCStructures ==
    {Promote(4, FALSE, TRUE, 20, Catch(TRUE, 100, NoHurdle), Flat),
     Promote(4, TRUE, TRUE, 0, Catch(TRUE, 50, NoHurdle), Flat),
     Promote(4, FALSE, FALSE, 20, Catch(FALSE, 0, NoHurdle), Rising),
     Promote(4, TRUE, TRUE, 20, Catch(TRUE, 60, 30), Rising),
     Promote(4, FALSE, TRUE, 20, Catch(TRUE, 100, NoHurdle), Falling)}

MCSeries == {<<-100>> \o s : s \in [1..3 -> {-60, 0, 70, 200}]}
MCCurves == [0..4 -> {-2, -1, 0, 1, NoValue}]

\* An edit of one document, three of rows.
MCMaxEdits == [local |-> 1, remote |-> 3]
AnyTab == Permutations(Tabs)
=============================================================================
