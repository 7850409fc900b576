----------------------------- MODULE DealModel -----------------------------
(***************************************************************************)
(* The monthly model of one deal, src/src/lib/finance.js: runModel and the *)
(* sizing loop around it.                                                  *)
(*                                                                         *)
(* Money is whole units and every share, rate and growth factor a whole    *)
(* number of parts of Scale; a product is rounded down where it is formed, *)
(* so that sums of products are exact and the accounting can be compared   *)
(* to the unit.  A rate is per month.  FF&E is part of the hard cost.      *)
(* Unknown stands for an input that is not a finite number and, in an      *)
(* answer, for the code's null.                                            *)
(***************************************************************************)
EXTENDS Money

CONSTANTS
    Deals,          \* the deals that may be modelled, records of inputs
    MonthsPerYear,  \* 12 in the code
    EquityPasses,   \* EQUITY_BASIS_MAX_PASSES, 24 in the code
    SizingPasses,   \* SIZING_MAX_PASSES, 8 in the code
    Tolerance,      \* what rounding to whole units leaves open; also SIZING_TOLERANCE
    UnitLoan        \* the loan debt service is priced on, one dollar in the code

\* A deal as it is keyed in: whole months, and rates that are not negative.
Inputs ==
    [land : Figures, hard : Figures, soft : Figures, contingency : Figures, fees : Figures,
     build : Counts, hold : Counts, inPlace : BOOLEAN, let : Figures,
     revenue : Figures, occ : Figures, houseOcc : Figures, initialOcc : Figures, leaseUp : Counts,
     opex : Figures, variable : Figures, tax : Figures, recovery : Figures, reserve : Figures,
     rentGrowth : Figures, costGrowth : Figures, assessGrowth : Figures,
     down : Figures, rate : Counts, term : Counts, interestOnly : Counts,
     exitCap : Figures, saleCost : Figures, entryCap : Figures,
     basis : {"unit", "psf", "site"}, size : Figures,
     sized : BOOLEAN, maxLTC : Figures, minDSCR : Figures, minYield : Figures]

ASSUME ModelAssumption ==
    /\ Deals \subseteq Inputs
    /\ MonthsPerYear \in Nat \ {0} /\ UnitLoan \in Nat \ {0}
    /\ EquityPasses \in Nat /\ SizingPasses \in Nat /\ Tolerance \in Nat

VARIABLES
    deal,     \* the deal being modelled
    stage,    \* how far runModel has come
    share,    \* downPayment of this pass, <<numerator, denominator>>
    pass,     \* passes of the equity fixed point
    equity,   \* equityCommitment
    bracket,  \* <<lo, hi>> of the bisection
    landed,   \* equityBasisConverged
    months,   \* the schedule
    balance,  \* what is owed on the permanent loan
    capitalized, \* capitalizedInterest
    sale,     \* the exit, or Unknown
    sizing    \* the sizing of the loan so far

modelVars == <<deal, stage, share, pass, equity, bracket, landed, months,
               balance, capitalized, sale, sizing>>

----------------------------------------------------------------------------
(* Payments and flows *)

\* x after n months of growth at g a month.
Grown(x, g, n) ==
    LET at[k \in 0..n] == IF k = 0 THEN x ELSE LET before == at[k - 1] IN before + Part(before, g)
    IN at[n]

\* amortizingPayment: the level payment that retires a loan in n months.
LevelPayment(principal, rate, n) ==
    LET growth == Grown(1000, rate, n) IN
    IF principal <= 0 \/ n <= 0 THEN 0
    ELSE IF rate = 0 THEN CeilDiv(principal, n)
    ELSE CeilDiv(principal * rate * growth, Scale * (growth - 1000))

----------------------------------------------------------------------------
(* The budget *)

SoftCost(d) == Part(d.hard, d.soft)
Contingency(d) == Part(d.hard + SoftCost(d), d.contingency)

\* Land is taxed while it is built on, unless a renovation statement carries it.
LandCarry(d) == IF d.inPlace THEN 0 ELSE Part(d.land, d.tax) * d.build

Spread(d) == d.hard + SoftCost(d) + Contingency(d) + LandCarry(d)
Base(d) == d.land + Spread(d) + d.fees

Modellable(d) ==
    /\ \A input \in DOMAIN d : d[input] # Unknown
    /\ d.hold > 0
    /\ Base(d) > 0

----------------------------------------------------------------------------
(* Operating statements *)

\* Operating cost at an occupancy: the fixed part at the house's occupancy
\* whatever the deal assumes, the variable part at the occupancy itself.
OpexAt(d, full, occ) ==
    (full * ((Scale - d.variable) * d.houseOcc + d.variable * occ)) \div (Scale * Scale)

InPlaceRevenue(d) == IF d.inPlace THEN Most(0, d.let) ELSE 0

InPlaceOcc(d) ==
    IF d.revenue > 0 THEN Least(Scale, (InPlaceRevenue(d) * Scale) \div d.revenue) ELSE 0

\* A month of the renovation, on the definition of NOI the operations use.
InPlaceNOI(d) ==
    LET opex == OpexAt(d, Part(d.revenue, d.opex), InPlaceOcc(d))
        tax == Part(d.land, d.tax)
        recoveries == Part(Part(opex + tax, d.recovery), InPlaceOcc(d))
    IN IF d.inPlace THEN InPlaceRevenue(d) + recoveries - opex - tax - d.reserve ELSE 0

Occupancy(d, t) ==
    IF t < d.leaseUp
    THEN d.initialOcc + ((d.occ - d.initialOcc) * (t + 1)) \div d.leaseUp
    ELSE d.occ

\* operatingMonth: the statement t months after completion, on a total cost.
Operating(d, total, t) ==
    LET gpr == Grown(d.revenue, d.rentGrowth, t)
        opexFull == Grown(Part(d.revenue, d.opex), d.costGrowth, t)
        opex == OpexAt(d, opexFull, Occupancy(d, t))
        tax == Part(Grown(total, d.assessGrowth, t), d.tax)
        reserve == Grown(d.reserve, d.costGrowth, t)
        recoveries == Part(Part(opex + tax, d.recovery), Occupancy(d, t))
    IN [gpr |-> gpr, opexFull |-> opexFull, tax |-> tax, reserve |-> reserve,
        noi |-> Part(gpr, Occupancy(d, t)) + recoveries - opex - tax - reserve]

----------------------------------------------------------------------------
(* Drawing the construction budget *)

\* Land and fees at closing, the rest in equal parts over the build.
CostAt(d, i) ==
    (IF i = 0 THEN d.land + d.fees ELSE 0)
    + (Spread(d) * (i + 1)) \div d.build - (Spread(d) * i) \div d.build

Month(cost, noi, interest, debtService, equityFlow) ==
    [cost |-> cost, noi |-> noi, interest |-> interest,
     debtService |-> debtService, equityFlow |-> equityFlow]

\* Mutant: all of the interest is capitalised, whatever income paid of it.
Shortfall_AllInterest(noi, interest) == interest

\* What in-place income leaves unpaid of the interest, which the loan carries.
Shortfall(noi, interest) == Most(0, interest - noi)

\* Equity first, then the loan, then equity again; interest the in-place
\* income does not pay is capitalised, and income beyond it is distributed.
DrawMonth(d, plan, drawn, i) ==
    LET cost == CostAt(d, i)
        noi == InPlaceNOI(d)
        interest == Part(drawn.balance, d.rate)
        planned == Least(cost, Most(0, plan - drawn.equity))
        loan == Least(cost - planned, Most(0, Base(d) - plan - drawn.loan))
        fromEquity == cost - loan
        unpaid == Shortfall(noi, interest)
        paid == Most(0, Least(noi, interest))
    IN [balance |-> drawn.balance + loan + unpaid,
        loan |-> drawn.loan + loan,
        equity |-> drawn.equity + fromEquity,
        capitalized |-> drawn.capitalized + unpaid,
        months |-> Append(drawn.months,
                       Month(cost, noi, interest, paid, Most(0, noi - interest) - fromEquity))]

\* drawConstruction, for an equity commitment; the loan is the rest of the base.
DrawConstruction(d, plan) ==
    LET drawn[i \in 0..d.build] ==
            IF i = 0 THEN [balance |-> 0, loan |-> 0, equity |-> 0, capitalized |-> 0, months |-> <<>>]
            ELSE DrawMonth(d, plan, drawn[i - 1], i - 1)
    IN drawn[d.build]

\* Mutant: the share is struck on the base, without the reserve.
EquityTarget_OfBase(d, stated, plan) == Least(Base(d), Most(0, (Base(d) * stated[1]) \div stated[2]))

\* equityTargetFor: the stated share of the total cost this draw came to.
EquityTarget(d, stated, plan) ==
    Least(Base(d), Most(0,
        ((Base(d) + DrawConstruction(d, plan).capitalized) * stated[1]) \div stated[2]))

----------------------------------------------------------------------------
(* The finished schedule *)

TotalCost == Base(deal) + capitalized
Operation(t) == months[deal.build + t + 1]

\* The first full year at stabilised occupancy, in months of operation.
StabStart == Least(deal.leaseUp, Most(0, deal.hold - MonthsPerYear))
YearSum(amount(_), t) == Total([k \in 1..MonthsPerYear |-> amount(t + k - 1)])
CompleteYears == {t \in 0..deal.hold : t + MonthsPerYear <= deal.hold}

ProjectedNOI(t) == YearSum(LAMBDA k : Operating(deal, TotalCost, k).noi, t)
StabilizedNOI == ProjectedNOI(StabStart)
YearNOI(t) == YearSum(LAMBDA k : Operation(k).noi, t)
YearDebtService(t) == YearSum(LAMBDA k : Operation(k).debtService, t)

EquityFlows == [i \in 1..Len(months) |-> months[i].equityFlow]

\* permanentLoanBalance: drawn and capitalised when the building is complete.
PermanentLoan == Base(deal) - equity + capitalized

----------------------------------------------------------------------------
(* Sizing the loan to the lender's tests *)

\* unitDebtServiceSchedule: interest only, then level payments, then, past the
\* hold, the payment alone.
UnitDebtService(t) ==
    LET payment == LevelPayment(UnitLoan, deal.rate, deal.term)
        after[n \in 0..(t + 1)] ==
            IF n = 0 THEN [owed |-> UnitLoan, paid |-> 0]
            ELSE LET before == after[n - 1]
                     interest == Part(before.owed, deal.rate)
                     due == Least(payment, before.owed + interest)
                 IN IF n > deal.hold THEN [before EXCEPT !.paid = payment]
                    ELSE IF n <= deal.interestOnly THEN [before EXCEPT !.paid = interest]
                    ELSE [owed |-> Most(0, before.owed + interest - due), paid |-> due]
    IN after[t + 1].paid

\* coverageWindows: the stabilised year and every complete year from it on.
CoverageWindows ==
    LET price(t) == YearSum(UnitDebtService, t)
    IN {[noi |-> StabilizedNOI, perUnit |-> price(StabStart)]}
       \cup {[noi |-> YearNOI(t), perUnit |-> price(t)] : t \in {y \in CompleteYears : y >= StabStart}}

\* sizeDebt: the tests that can be taken, each with the loan it allows.
Constraints ==
    LET covered == {w \in CoverageWindows : w.perUnit > 0}
        dscrLimit(w) == Most(0, (w.noi * UnitLoan * Scale) \div (deal.minDSCR * w.perUnit))
    IN (IF deal.maxLTC >= 0 THEN {[test |-> "ltc", loan |-> Part(TotalCost, deal.maxLTC)]} ELSE {})
       \cup (IF deal.minDSCR > 0
             THEN {[test |-> "dscr", loan |-> dscrLimit(w)] : w \in covered} ELSE {})
       \cup (IF deal.minYield > 0
             THEN {[test |-> "debtYield",
                    loan |-> Most(0, (StabilizedNOI * Scale) \div deal.minYield)]} ELSE {})

\* The smallest answer, or Unknown where no test can be taken.
SizedLoan == IF Constraints = {} THEN Unknown ELSE Min({c.loan : c \in Constraints})

\* What is committed: the target net of the reserve that grows on top of it.
Commitment(loan) == Least(Base(deal), Most(0, loan - capitalized))

----------------------------------------------------------------------------
(* runModel *)

NoSizing == [requested |-> FALSE, passes |-> 0, loan |-> Unknown,
             converged |-> FALSE, honoured |-> FALSE]

\* The solve starts from the share of the base cost.
SolveFrom(d, stated) ==
    /\ stage' = "solve"
    /\ share' = stated
    /\ pass' = 0
    /\ equity' = (Base(d) * stated[1]) \div stated[2]
    /\ bracket' = <<0, Base(d)>>
    /\ landed' = FALSE
    /\ months' = <<>>
    /\ balance' = 0
    /\ capitalized' = 0
    /\ sale' = Unknown

ModelInit(d, begun) ==
    /\ deal = d
    /\ stage = begun
    /\ share = <<0, 1>>
    /\ pass = 0
    /\ equity = 0
    /\ bracket = <<0, 0>>
    /\ landed = FALSE
    /\ months = <<>>
    /\ balance = 0
    /\ capitalized = 0
    /\ sale = Unknown
    /\ sizing = NoSizing

\* A deal that cannot be modelled answers with nulls, never with zeros.
Degenerate ==
    /\ stage = "open"
    /\ ~Modellable(deal)
    /\ stage' = "incomplete"
    /\ sizing' = [sizing EXCEPT !.requested = deal.sized]
    /\ UNCHANGED <<deal, share, pass, equity, bracket, landed, months, balance, capitalized, sale>>

Start ==
    /\ stage = "open"
    /\ Modellable(deal)
    /\ SolveFrom(deal, <<deal.down, Scale>>)
    /\ sizing' = [sizing EXCEPT !.requested = deal.sized]
    /\ UNCHANGED deal

\* One pass of the fixed point: the share of the total the last draw came to.
Pass ==
    /\ stage = "solve"
    /\ pass < EquityPasses
    /\ LET target == EquityTarget(deal, share, equity) IN
       IF target = equity
       THEN landed' = TRUE /\ stage' = "fund" /\ UNCHANGED <<pass, equity>>
       ELSE equity' = target /\ pass' = pass + 1 /\ UNCHANGED <<landed, stage>>
    /\ UNCHANGED <<deal, share, bracket, months, balance, capitalized, sale, sizing>>

\* The map decreases, so it may circle; then its one root is bracketed instead.
Bisect ==
    /\ stage = "solve"
    /\ pass = EquityPasses
    /\ LET middle == (bracket[1] + bracket[2]) \div 2 IN
       IF bracket[2] - bracket[1] > 1
       THEN /\ bracket' = IF EquityTarget(deal, share, middle) >= middle
                          THEN <<middle, bracket[2]>> ELSE <<bracket[1], middle>>
            /\ UNCHANGED <<equity, landed, stage>>
       ELSE /\ equity' = bracket[1]
            /\ landed' = (EquityTarget(deal, share, bracket[1]) - bracket[1] \in -Tolerance..Tolerance)
            /\ stage' = "fund"
            /\ UNCHANGED bracket
    /\ UNCHANGED <<deal, share, pass, months, balance, capitalized, sale, sizing>>

\* The last draw stands.  Without a build there was none, and all is funded at
\* the closing: the loan is whatever the equity leaves.
Fund ==
    /\ stage = "fund"
    /\ LET draw == DrawConstruction(deal, equity)
           closing == Least(Base(deal), Most(0, equity))
       IN /\ months' = draw.months
          /\ capitalized' = draw.capitalized
          /\ balance' = IF deal.build > 0 THEN draw.balance ELSE Base(deal) - closing
    /\ stage' = "operate"
    /\ UNCHANGED <<deal, share, pass, equity, bracket, landed, sale, sizing>>

\* The cost and the equity of a closing without a build fall in the first month.
ClosingCost == IF deal.build = 0 /\ Len(months) = 0 THEN Base(deal) ELSE 0
ClosingEquity == IF ClosingCost = 0 THEN 0 ELSE ClosingCost - balance

Operate ==
    /\ stage = "operate"
    /\ LET t == Len(months) - deal.build
           noi == Operating(deal, TotalCost, t).noi
           interest == Part(balance, deal.rate)
           payment == LevelPayment(PermanentLoan, deal.rate, deal.term)
           debtService == IF t < deal.interestOnly THEN interest
                          ELSE Least(payment, balance + interest)
       IN /\ t < deal.hold
          /\ balance' = Most(0, balance + interest - debtService)
          /\ months' = Append(months, Month(ClosingCost, noi, interest, debtService,
                                            noi - debtService - ClosingEquity))
    /\ UNCHANGED <<deal, stage, share, pass, equity, bracket, landed, capitalized, sale, sizing>>

\* Priced off the year a buyer underwrites; the loan is paid off the proceeds,
\* which fall in the last month.
Sell ==
    /\ stage = "operate"
    /\ Len(months) = deal.build + deal.hold
    /\ LET gross == IF deal.exitCap > 0 THEN (ProjectedNOI(deal.hold) * Scale) \div deal.exitCap
                    ELSE TotalCost
           cost == Part(gross, deal.saleCost)
       IN /\ sale' = [gross |-> gross, cost |-> cost, payoff |-> balance]
          /\ months' = [months EXCEPT ![Len(months)].equityFlow = @ + gross - cost - balance]
    /\ sizing' = [sizing EXCEPT
           !.converged = @ \/ (sizing.loan # Unknown /\ PermanentLoan - sizing.loan \in -Tolerance..Tolerance)]
    /\ stage' = "judge"
    /\ UNCHANGED <<deal, share, pass, equity, bracket, landed, balance, capitalized>>

\* The box asks for another loan: the model is run again on the down payment
\* that leaves it.
Resize ==
    /\ stage = "judge"
    /\ deal.sized /\ ~sizing.converged
    /\ sizing.passes < SizingPasses
    /\ SizedLoan # Unknown
    /\ sizing' = [sizing EXCEPT !.passes = @ + 1, !.loan = SizedLoan, !.honoured = TRUE]
    /\ SolveFrom(deal, <<Base(deal) - Commitment(SizedLoan), TotalCost>>)
    /\ UNCHANGED deal

\* No test can be taken: the loan stays what the equity left, and says so.
NothingToSizeTo ==
    /\ stage = "judge"
    /\ deal.sized /\ ~sizing.converged
    /\ sizing.passes < SizingPasses
    /\ SizedLoan = Unknown
    /\ sizing' = [sizing EXCEPT !.passes = @ + 1, !.loan = Unknown, !.honoured = FALSE]
    /\ stage' = "done"
    /\ UNCHANGED <<deal, share, pass, equity, bracket, landed, months, balance, capitalized, sale>>

Finish ==
    /\ stage = "judge"
    /\ ~deal.sized \/ sizing.converged \/ sizing.passes = SizingPasses
    /\ stage' = "done"
    /\ UNCHANGED <<deal, share, pass, equity, bracket, landed, months, balance, capitalized, sale, sizing>>

ModelNext == \/ Degenerate \/ Start \/ Pass \/ Bisect \/ Fund \/ Operate \/ Sell
             \/ Resize \/ NothingToSizeTo \/ Finish
============================================================================
