------------------------------ MODULE Covenants ------------------------------
(***************************************************************************)
(* What the firm says of a finished model, src/src/lib/validation.js:      *)
(* validate and breakEvenBreach, on the ratios runModel derives from its   *)
(* schedule.  A ratio is kept as its numerator and denominator.  The flag  *)
(* on negative leverage compares two internal rates of return, which whole *)
(* numbers do not have, and is left out; so is the order of the list.      *)
(***************************************************************************)
EXTENDS DealModel

CONSTANT Box  \* DEFAULT_COVENANTS: maxLTC, minDSCR, minYield, minSpread, maxBreakEven, maxRentGrowth

\* AT_LIMIT: a ratio sized exactly to a limit is not a breach of it.
Below(part, whole, limit) == part * Scale < limit * (whole - Tolerance)
Above(part, whole, limit) == (part - Tolerance) * Scale > limit * whole

----------------------------------------------------------------------------
(* The stabilised year *)

\* Past the hold there is no schedule to read and the payment is assumed.
StabilizedDebtService ==
    YearSum(LAMBDA t : IF t < deal.hold THEN Operation(t).debtService
                       ELSE LevelPayment(PermanentLoan, deal.rate, deal.term), StabStart)

Stabilized(line) == YearSum(LAMBDA t : Operating(deal, TotalCost, t)[line], StabStart)
OccupancySum == YearSum(LAMBDA t : Occupancy(deal, t), StabStart)

\* Cost and revenue both at full occupancy.
Outgoings == Stabilized("opexFull") + Stabilized("tax") + Stabilized("reserve") + StabilizedDebtService
PotentialRevenue == Stabilized("gpr") + Part(Stabilized("opexFull") + Stabilized("tax"), deal.recovery)

\* Rolling years that owe anything, the ones the coverage minima are taken over.
Years(from) ==
    {y \in {[noi |-> YearNOI(t), owed |-> YearDebtService(t)] : t \in {t \in CompleteYears : t >= from}} :
        y.owed > 0}

----------------------------------------------------------------------------
(* breakEvenBreach: two failures, neither inside the other *)

BreakEvenKnown == Stabilized("gpr") > 0
OverCeiling == BreakEvenKnown /\ Outgoings * Scale > Box.maxBreakEven * PotentialRevenue
NoCushion == BreakEvenKnown /\ Outgoings * Scale * MonthsPerYear >= OccupancySum * PotentialRevenue

----------------------------------------------------------------------------
(* validate *)

Flag(id, severity) == {[id |-> id, severity |-> severity]}
When(condition, flag) == IF condition THEN flag ELSE {}

\* Coverage from stabilisation on, and over the hold where no year of it is.
CoverageFlags ==
    LET governed == IF Years(StabStart) # {} THEN Years(StabStart) ELSE Years(0) IN
    When(\E y \in governed : Below(y.noi, y.owed, Box.minDSCR), Flag("dscr", "error"))
    \cup When(/\ \E y \in Years(0) : y.noi < y.owed
              /\ \A y \in Years(StabStart) : y.noi * Scale >= Box.minDSCR * y.owed,
              Flag("leaseUpCoverage", "info"))

LeverageFlags ==
    When(Above(PermanentLoan, TotalCost, Box.maxLTC), Flag("ltc", "warning"))
    \cup When(PermanentLoan > 0 /\ Below(StabilizedNOI, PermanentLoan, Box.minYield),
              Flag("debtYield", "warning"))
    \cup When(capitalized * 10 > Base(deal), Flag("interestReserve", "info"))

\* Yield on cost over the exit cap, in parts of the cost.
SpreadOnCost == StabilizedNOI * Scale - deal.exitCap * TotalCost

ReturnFlags ==
    When(SpreadOnCost < Box.minSpread * TotalCost,
         Flag("spread", IF SpreadOnCost < 0 THEN "error" ELSE "warning"))
    \cup When(sale.gross - sale.cost - sale.payoff < 0, Flag("underwater", "error"))

AssumptionFlags ==
    When(deal.rentGrowth > Box.maxRentGrowth, Flag("rentGrowth", "warning"))
    \cup When(deal.entryCap > 0 /\ deal.exitCap < deal.entryCap, Flag("capCompression", "warning"))

BreakEvenFlags ==
    LET uncovered == NoCushion /\ StabilizedDebtService > 0 /\ StabilizedNOI < StabilizedDebtService
    IN When(OverCeiling \/ NoCushion,
            Flag("breakEvenOccupancy", IF uncovered THEN "error" ELSE "warning"))

Flags ==
    IF stage = "incomplete" THEN Flag("incomplete", "error")
    ELSE CoverageFlags \cup LeverageFlags \cup ReturnFlags \cup AssumptionFlags \cup BreakEvenFlags

Flagged(ids) == \E f \in Flags : f.id \in ids
=============================================================================
