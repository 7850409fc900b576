------------------------------ MODULE Waterfall ------------------------------
(***************************************************************************)
(* Splitting an equity cash flow between the investors and the sponsor,    *)
(* src/src/lib/waterfall.js: resolveWaterfall, runWaterfall one period at  *)
(* a time, and the lookback at the end.  Rates are per period, in parts of *)
(* Scale; a hurdle of NoHurdle marks the open-ended tier.  The conversion  *)
(* of an annual rate to a period's is done before the structure is given.  *)
(***************************************************************************)
EXTENDS Money

CONSTANT NoHurdle  \* the irrHurdle null of the last tier

VARIABLES
    structure,    \* the promote structure being run
    flows,        \* equityFlows, index 1 is time zero
    promote,      \* promoteState: "none", "no-flows", "rejected", "running" or "applied"
    unreturned,   \* unreturnedCapital
    accrued,      \* accruedPref
    profit,       \* investorProfit
    promoted,     \* gpPromoteTotal
    hurdles,      \* hurdleBalance by tier
    periods       \* what each period paid

splitVars == <<structure, flows, promote, unreturned, accrued, profit, promoted, hurdles, periods>>

----------------------------------------------------------------------------
(* resolveWaterfall *)

TargetPromote(s) == IF s.catchUp.target = NoHurdle THEN s.tiers[1].gpShare ELSE s.catchUp.target

\* Structures whose arithmetic has an answer; the others throw.
Accepted(s) ==
    LET n == Len(s.tiers) IN
    /\ s.pref >= 0
    /\ s.coInvest \in 0..(Scale - 1)
    /\ n > 0
    /\ \A i \in 1..n : s.tiers[i].gpShare \in 0..(Scale - 1)
    /\ \A i \in 1..n : (s.tiers[i].hurdle = NoHurdle) <=> (i = n)
    /\ \A i \in 1..(n - 2) : s.tiers[i].hurdle < s.tiers[i + 1].hurdle
    /\ s.catchUp.enabled /\ TargetPromote(s) > 0 =>
           s.catchUp.gpShare <= Scale /\ s.catchUp.gpShare > TargetPromote(s)

----------------------------------------------------------------------------
(* One period *)

HasHurdle(s, j) == s.tiers[j].hurdle # NoHurdle
Tiers(s) == DOMAIN s.tiers

\* The balances of a period while its tiers are paid.
Balances == [unreturned |-> unreturned, accrued |-> accrued, profit |-> profit,
             promoted |-> promoted, hurdles |-> hurdles,
             remaining |-> 0, investors |-> 0, sponsor |-> 0, residual |-> [j \in Tiers(structure) |-> 0]]

\* Accrual at the start of every period but the first.
Accrue(b) ==
    LET base == IF structure.compounding THEN b.unreturned + b.accrued ELSE b.unreturned
    IN [b EXCEPT !.accrued = @ + Part(base, structure.pref),
                 !.hurdles = [j \in Tiers(structure) |->
                     IF HasHurdle(structure, j) THEN @[j] + Part(@[j], structure.tiers[j].hurdle) ELSE @[j]]]

Contribute(b, amount) ==
    [b EXCEPT !.unreturned = @ + amount,
              !.hurdles = [j \in Tiers(structure) |->
                  IF HasHurdle(structure, j) THEN @[j] + amount ELSE @[j]]]

\* payInvestors: every dollar of theirs draws every hurdle down.
PayInvestors(b, amount, isProfit) ==
    [b EXCEPT !.investors = @ + amount,
              !.remaining = @ - amount,
              !.profit = IF isProfit THEN @ + amount ELSE @,
              !.hurdles = [j \in Tiers(structure) |->
                  IF HasHurdle(structure, j) THEN @[j] - amount ELSE @[j]]]

PaySponsor(b, amount) ==
    [b EXCEPT !.sponsor = @ + amount, !.remaining = @ - amount, !.promoted = @ + amount]

PayPref(b) ==
    LET amount == Least(b.remaining, b.accrued)
    IN [PayInvestors(b, amount, TRUE) EXCEPT !.accrued = @ - amount]

PayCapital(b) ==
    LET amount == Least(b.remaining, b.unreturned)
    IN [PayInvestors(b, amount, FALSE) EXCEPT !.unreturned = @ - amount]

PrefAndCapital(b) ==
    IF structure.capitalFirst THEN PayPref(PayCapital(b)) ELSE PayCapital(PayPref(b))

\* Tier 3, solved: the gross amount that brings promote to k times the profit.
CatchUp(b) ==
    LET target == TargetPromote(structure)
        share == structure.catchUp.gpShare
        owed == target * b.profit - (Scale - target) * b.promoted
        gross == Least(b.remaining, owed \div (share - target))
        toSponsor == Part(gross, share)
    IN IF structure.catchUp.enabled /\ b.remaining > 0 /\ target > 0 /\ owed > 0
       THEN PayInvestors(PaySponsor(b, toSponsor), gross - toSponsor, TRUE)
       ELSE b

\* Tier 4: a tier takes what zeroes its own hurdle, the rest falls through.
PayTier(b, j) ==
    LET tier == structure.tiers[j]
        gross == IF HasHurdle(structure, j)
                 THEN Least(b.remaining, (b.hurdles[j] * Scale) \div (Scale - tier.gpShare))
                 ELSE b.remaining
        toSponsor == Part(gross, tier.gpShare)
    IN IF b.remaining = 0 \/ (HasHurdle(structure, j) /\ b.hurdles[j] <= 0) THEN b
       ELSE [PayInvestors(PaySponsor(b, toSponsor), gross - toSponsor, TRUE)
                EXCEPT !.residual[j] = @ + gross]

Residual(b) == FoldLeft(PayTier, b, [j \in Tiers(structure) |-> j])

\* Investor-class money is the limited partners' but for the co-investment.
LimitedPart(amount) == Part(amount, Scale - structure.coInvest)

Paid(b, contribution, distribution) ==
    LET lpIn == LimitedPart(contribution)
        lpOut == LimitedPart(b.investors)
    IN [contribution |-> contribution, distribution |-> distribution,
        investors |-> b.investors, residual |-> b.residual, promote |-> b.sponsor, clawback |-> 0,
        lpFlow |-> lpOut - lpIn,
        gpFlow |-> (b.investors - lpOut) + b.sponsor - (contribution - lpIn)]

----------------------------------------------------------------------------
(* runWaterfall *)

SplitIdle ==
    /\ structure = <<>>
    /\ flows = <<>>
    /\ promote = "none"
    /\ unreturned = 0 /\ accrued = 0 /\ profit = 0 /\ promoted = 0
    /\ hurdles = <<>> /\ periods = <<>>

\* promoteState, and runWaterfall's opening, on a structure and a schedule.
StartSplit(s, equityFlows) ==
    /\ structure' = s
    /\ flows' = equityFlows
    /\ promote' = IF equityFlows = <<>> THEN "no-flows"
                  ELSE IF Accepted(s) THEN "running" ELSE "rejected"
    /\ hurdles' = [j \in Tiers(s) |-> 0]
    /\ UNCHANGED <<unreturned, accrued, profit, promoted, periods>>

Period ==
    /\ promote = "running"
    /\ Len(periods) < Len(flows)
    /\ LET flow == flows[Len(periods) + 1]
           contribution == Most(0, -flow)
           distribution == Most(0, flow)
           opened == Contribute(IF periods = <<>> THEN Balances ELSE Accrue(Balances), contribution)
           b == Residual(CatchUp(PrefAndCapital([opened EXCEPT !.remaining = distribution])))
       IN /\ unreturned' = b.unreturned
          /\ accrued' = b.accrued
          /\ profit' = b.profit
          /\ promoted' = b.promoted
          /\ hurdles' = b.hurdles
          /\ periods' = Append(periods, Paid(b, contribution, distribution))
    /\ UNCHANGED <<structure, flows, promote>>

\* Mutant: nothing goes back.
ClawedBack_Nothing == 0

\* What goes back: up to all the promote, until the investors are whole.
ClawedBack == Least(promoted, Most(0, accrued + unreturned))

\* The lookback: promote goes back, up to all of it, until the investors are
\* whole on capital and accrued pref.  The period's total does not move.
Lookback ==
    /\ promote = "running"
    /\ Len(periods) = Len(flows)
    /\ LET back == ClawedBack
           last == periods[Len(periods)]
           moved == LimitedPart(last.investors + back) - LimitedPart(last.investors)
           toPref == IF structure.capitalFirst THEN Least(back - Least(back, unreturned), accrued)
                     ELSE Least(back, accrued)
       IN /\ periods' = [periods EXCEPT ![Len(periods)] =
                 [@ EXCEPT !.investors = @ + back, !.clawback = back,
                           !.lpFlow = @ + moved, !.gpFlow = @ - moved]]
          /\ accrued' = accrued - toPref
          /\ unreturned' = unreturned - (back - toPref)
    /\ promote' = "applied"
    /\ UNCHANGED <<structure, flows, profit, promoted, hurdles>>

SplitNext == Period \/ Lookback
=============================================================================
