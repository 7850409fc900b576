----------------------------- MODULE Underwriting -----------------------------
(***************************************************************************)
(* The analyst's desk: a rent roll becomes the inputs of a deal, the deal  *)
(* a monthly model, sized to the box where it asks for that, the model's   *)
(* equity flows a split between investors and sponsor; and one variable is *)
(* solved for a target.  Composes BuyBox, Screening, Covenants (both over  *)
(* DealModel), Waterfall and Sensitivity.                                  *)
(***************************************************************************)
EXTENDS BuyBox, Screening, Covenants, Waterfall, Sensitivity

CONSTANTS
    RollDeals,   \* deals whose revenue and vacancy come from a rent roll
    Structures,  \* promote structures stored beside a deal
    Series       \* flow series handed to runWaterfall as they are

ASSUME DeskAssumption == Deals # {} /\ Headers # {} /\ RollDeals \subseteq Inputs

rollVars == <<roll, header>>
deskVars == <<modelVars, splitVars, scanVars, rollVars>>

----------------------------------------------------------------------------
(* How the parts are put to work *)

\* The deal with what the roll says of revenue, vacancy and recovery.
FromRoll(d, inputs) ==
    [d EXCEPT !.revenue = IF inputs.revenue = Unknown THEN Unknown ELSE inputs.revenue \div MonthsPerYear,
              !.occ = IF inputs.vacancy = Unknown THEN @ ELSE Most(1, 100 - inputs.vacancy),
              !.recovery = IF inputs.recovery = Unknown THEN @ ELSE inputs.recovery]

\* Nothing on the desk.
DeskIdle ==
    /\ ModelInit(CHOOSE d \in Deals : TRUE, "aside")
    /\ SplitIdle /\ NoScan
    /\ roll = <<>> /\ header = CHOOSE h \in Headers : TRUE

DeskInit ==
    \/ /\ \E d \in Deals : ModelInit(d, "open")
       /\ SplitIdle /\ NoScan
       /\ roll = <<>> /\ header = CHOOSE h \in Headers : TRUE
    \/ /\ \E d \in RollDeals : ModelInit(d, "roll")
       /\ SplitIdle /\ NoScan /\ NoRoll
    \/ DeskIdle
    \/ /\ ModelInit(CHOOSE d \in Deals : TRUE, "aside")
       /\ SplitIdle /\ StartScan
       /\ roll = <<>> /\ header = CHOOSE h \in Headers : TRUE

\* A bay more on the roll.
KeyBay ==
    /\ stage = "roll"
    /\ \E bay \in Bays : Key(bay)
    /\ UNCHANGED <<modelVars, splitVars, scanVars>>

\* The deal is modelled on the roll as it stands.
Underwrite ==
    /\ stage = "roll"
    /\ EngineInputs(roll) # Unknown
    /\ deal' = FromRoll(deal, EngineInputs(roll))
    /\ stage' = "open"
    /\ UNCHANGED <<share, pass, equity, bracket, landed, months, balance, capitalized, sale, sizing>>
    /\ UNCHANGED <<splitVars, scanVars, rollVars>>

Model ==
    /\ ModelNext
    /\ UNCHANGED <<splitVars, scanVars, rollVars>>

\* promoteState: the split follows the model's own co-investment.
Split ==
    /\ stage \in {"done", "incomplete"}
    /\ promote = "none"
    /\ \E s \in Structures : StartSplit(s, EquityFlows)
    /\ UNCHANGED <<modelVars, scanVars, rollVars>>

\* A series of flows from elsewhere.
SplitSeries ==
    /\ stage = "aside"
    /\ promote = "none" /\ curve = <<>>
    /\ \E s \in Structures, f \in Series : StartSplit(s, f)
    /\ UNCHANGED <<modelVars, scanVars, rollVars>>

RunSplit ==
    /\ SplitNext
    /\ UNCHANGED <<modelVars, scanVars, rollVars>>

Solve ==
    /\ ScanNext
    /\ UNCHANGED <<modelVars, splitVars, rollVars>>

DeskNext == KeyBay \/ Underwrite \/ Model \/ Split \/ SplitSeries \/ RunSplit \/ Solve
DeskSpec == DeskInit /\ [][DeskNext]_deskVars

----------------------------------------------------------------------------
(* Properties *)

Finished == stage \in {"judge", "done"}
Sum(line) == Total([i \in DOMAIN months |-> months[i][line]])

\* What the deal makes for equity is what it makes without debt less exactly
\* the interest the loan accrued: capitalising, amortising, distributing and
\* repaying move money between months and lose none of it, whatever the build,
\* the hold and the income in place.
LeverageOnlyCostsItsInterest ==
    Finished => Sum("equityFlow")
                  = Sum("noi") - Sum("cost") + sale.gross - sale.cost - Sum("interest")

\* The solve lands, and the loan the model carries to its operations is the
\* stated share of total cost, the covenant's own measure, though interest is
\* part of both; only where equity pays the whole base may it be another.
FundedAtTheStatedShare ==
    Finished =>
        /\ landed
        /\ share[1] \in 0..share[2] /\ equity < Base(deal) =>
               PermanentLoan * share[2] - TotalCost * (share[2] - share[1])
                   \in (-2 * Tolerance * share[2])..(2 * Tolerance * share[2])

\* A loan sized to the firm's box is not flagged against the same box: the
\* windows the sizer prices by the unit are those the covenants test on the
\* schedule, the balance it aims at is the one that is carried, and the passes
\* allowed are enough to settle it.
SizedLoanClearsTheCovenants ==
    stage = "done" /\ sizing.honoured /\ <<deal.maxLTC, deal.minDSCR, deal.minYield>>
                                          = <<Box.maxLTC, Box.minDSCR, Box.minYield>>
        => sizing.converged /\ ~Flagged({"ltc", "dscr", "debtYield"})

\* Whoever sets its size, by a share of cost or by the firm's box, the loan that
\* is carried is the loan that was asked for.
LoanIsAsAsked == FundedAtTheStatedShare /\ SizedLoanClearsTheCovenants

\* A deal the screen and the model see alike (let, ungrown, no build) gets one
\* NOI from both, on one basis.
ScreenAgreesWithTheModel ==
    LET c == CandidateFrom(deal)
        alike == /\ deal.build = 0 /\ deal.leaseUp = 0
                 /\ deal.rentGrowth = 0 /\ deal.costGrowth = 0 /\ deal.assessGrowth = 0
        near == (-Tolerance)..Tolerance
    IN stage = "done" /\ alike =>
           /\ ScreenBasis(c, HouseOf(deal)) - TotalCost \in near
           /\ EstimatedNOI(c, HouseOf(deal)) - StabilizedNOI \in near

Settled == promote = "applied"
FlowOf(i) == periods[i].lpFlow + periods[i].gpFlow
Net == Total([i \in DOMAIN periods |-> periods[i].promote - periods[i].clawback])

\* What the investors had at the end of period n, had every flow of theirs
\* earned the hurdle: above zero while they are short of it.
ShortOf(rate, n) ==
    LET owed[i \in 0..n] ==
            IF i = 0 THEN 0
            ELSE LET before == owed[i - 1]
                 IN before + Part(before, rate) + periods[i].contribution - periods[i].investors
    IN owed[n]

\* Every dollar of every period lands with one side, clawback included; the
\* sponsor keeps promote only where the investors are whole on capital and
\* pref, and then no more than the largest share of the profit any tier pays;
\* and a tier above a hurdle is paid only once the investors have earned it.
SplitIsEarned ==
    Settled =>
        LET s == structure
            shares == {s.tiers[j].gpShare : j \in DOMAIN s.tiers}
                      \cup (IF s.catchUp.enabled THEN {TargetPromote(s)} ELSE {})
            gain == Total(flows)
        IN /\ \A i \in DOMAIN periods : FlowOf(i) = flows[i]
           /\ Net > 0 => /\ accrued = 0 /\ unreturned = 0
                         /\ (Net - Len(flows)) * Scale <= Max(shares) * gain
           /\ \A i \in DOMAIN periods, j \in DOMAIN s.tiers :
                  /\ j > 1 /\ periods[i].residual[j] > 0 /\ periods[i].clawback = 0
                  => ShortOf(s.tiers[j - 1].hurdle, i) <= 2 * Len(flows)
=============================================================================
